# Tameio: specifications, model checks and proofs

Tameio is a household money tracker: a FastAPI server on PostgreSQL (`app/`), a
React PWA that works offline (`web/`), and an older server-rendered front end on
the same services (`app/routes/`). This directory holds TLA+ models of the parts
whose correctness depends on the order in which things happen, the
configurations that check them with TLC, and proofs checked by TLAPS.

`tlc -config X.cfg M` runs a check, `tlapm M.tla` the proofs of a module.
`PROJECT.json` lists the runs, the hazards each property is for, and the lines of
the code behind every definition.

## 1. Inventory

| Part | State it keeps | Operations | What is hard | What makes it correct | Module |
|---|---|---|---|---|---|
| Entries and payments (`services/bills.py`, `matching.py`, `transactions.py`) | `bill_occurrences`, `transactions`, `match_suggestions` | done, pay, undo, skip, set amount, link, dismiss, delete, edit, log | two members, two apps and the scheduler act on one entry; every handler reads, then writes | one payment per entry; both ends of a link agree; a deletion reopens | `BillEntries`, `EntryLedger` |
| Entry generation and rules (`services/bills.py`, `core/schedule.py`, `core/calendar_gr.py`) | items, `bill_occurrences.period` | create, edit, pause, top up, delete an item | edits race with the top-up and with taps; due dates move over holidays and months | one entry per period, none missing, payments survive | `Schedule`, `Generation` |
| Scheduler (`scheduler.py`) | the advisory lock, `notifications` with dedupe keys, prices | the daily and the start-up run, their stages, pushes | two processes, overlapping runs, stages that fail, a push that leaves before its commit | pushed once; every run ends | `DailyJob`; auto-pay in `BillEntries` |
| Bulk changes (`services/bulk.py`, `bulk_rules.py`) | `bulk_batches`, `bulk_batch_rows` | preview, apply, undo | undo after edits, other batches, departures | undo restores what nobody changed; no row breaks a rule | `Bulk` |
| Cash (`services/cash.py`) | `cash_movements`, the linked takes | move, recount, retry, edit, delete; the monthly wallet | balances read, then written; retries; months that carry over | no stash overdrawn; takes follow their expense | `Cash` |
| Stock and list (`services/stock.py`) | stock items, movements, shopping lines | tap, tick, untick, apply, buy, add, edit, archive | taps sent again, applies that overlap | a tap and a tick count once | `Pantry` |
| Settlement (`services/settlement.py`, `money.py`) | `settlements` | show, settle a bucket or the household | a page that is out of date, cents that do not divide | a debt is paid once; paying clears | `Settlement` |
| Offline queue and sessions (`offline/*.ts`, `data/action.ts`, `lanes.ts`, `SessionProvider.tsx`) | IndexedDB, lanes, timers; the cookie shared by all tabs | perform, enqueue, replay, wipe, sign in and out | tabs, lost replies, backoff, account switches | once, in order, for the owner, in the end | `OfflineQueue` |
| Composer (`features/composer`) | the draft, parks, saves under way | fill in, save, undo, cross the layouts | any order of inputs; answers that come late | saved once, accepted, nothing typed is lost | `Draft`, `Composer` |
| Activity (`features/activity`) | cached rows, held deletions, the selection | edit, delete with Undo, select, bulk change | patches, rollbacks, timers, rows that come and go | the screen returns to the server; as many change as shown | `ActivityRows`, `ActivityBulk` |
| Plan and Home (`features/plan`, `features/home`) | cached lists, sheets | pay, skip, undo, set amounts; edit items; count cash | optimistic patches beside refetches and refusals; whole-row saves | shown is what will be; only what was typed is sent | `EntryPatch`, `PlanEntry`, `PlanItem`, `CashForms` |
| Pantry screens (`features/plan/pantry`) | cached list and items, the camera | tap, tick, buy, scan, add | double taps, lost answers, a camera granted late | what was tapped is what the server ends with | `ShoppingList`, `PantryItem`, `PantryAdd` |
| Households, buckets, settings; old pages; database | rows | single-row changes; the same services by other routes | deletions beside the above | | partly, in `Bulk`, `Settlement`, `Generation`, `Cash`, `Pantry` |
| Budgets, statements, insights, search; ingestion; authentication; price clients; shell | none that others write | read-only, I/O, cryptography | | | not modelled |

**How the parts interact.** Both front ends and the scheduler reach the rows
through the same service functions and share nothing else. PostgreSQL runs at
READ COMMITTED: what a handler has read may be out of date when it writes,
unless it holds a lock or its UPDATE filters the row again. The web app sends its
writes through `perform`: at once, or into the queue, whence a replay sends them
to the same API later, perhaps in another tab and after another member acted.
The queue depends on the session for the account of a write; the session wipes
it when the account on the device changes. The screens patch TanStack Query's
cache before the answer, roll back on a refusal and refetch afterwards. Their
modules take the queue as what `OfflineQueue` shows it to be: a sequence
replayed in order.

## 2. Modules

On the server a handler that can be overtaken is a pair of actions. `BeginX` is
everything up to the last check on what it loaded; `CommitX` is the writes and
the commit; anything may commit in between, and a request may die there (`Abort`,
`Fail`, `Abandon`). How the write behaves decides every race:

* an UPDATE with a filter (`claim_occurrence`) looks at the row again under its lock;
* an ORM flush writes each column whose new value differs from the loaded one,
  whatever the row has become;
* `SELECT ... FOR UPDATE` and advisory locks keep others out until the commit.

In the web modules an action is the code between two awaits; a request is sent,
served, and answered or lost, in three steps.

| Module | Actions and the code |
|---|---|
| `BillEntries` | `Begin`/`Commit` of `Done` (`complete_entry`), `Pay` (`settle_occurrence`), `Undo`, `Skip`, `Amount`, `Link`, `Delete`, `Edit`; `LogTransaction`, `Suggest`, `Dismiss`; `BeginPass`, `PassStep`, `PassCrash` are `_auto_pay_due_bills` |
| `EntryLedger` | the abstract promise: an entry is expected, done by one transaction (or a bare claim), or skipped; every change atomic. `BillEntriesRefinement` maps the tables onto it |
| `Schedule`, `Generation` | the rules, adjustments and periods as operators; `CreateItem`, `UpdateItem` (API), `EditBill` (form), `UpdateBill` (PUT), pause, top-up and deletion, each clearing, planning and inserting in separate steps, with the waits on rows another removed (`Commit`) and failures (`RollBack`); taps on entries; `Tick` is the next day |
| `DailyJob` | `Start`, `Die`, `LoseLock`; per run `Goes` (the next step of its stage), `StageFails`, `ItemFails`, `Fetch`; members settle, mute and log prices |
| `Bulk` | `BeginBulk`/`CommitBulk` with rules R6-R18, `BeginUndo`/`CommitUndo` with U1-U7, edits, deletions, `Unlink`, `Expire` (24 hours), `DeleteCategory`, `DeleteBucket`, `RemoveMember` |
| `Cash` | saves by the API (locked), the old page and an expense; recounts; edits with `sync_linked_take`; deletions; `Age` is the 24-hour window of a `client_id` |
| `Pantry` | taps, "Add to pantry", the "bought" form: `Begin`, `LockNext` item by item, `CommitMove`; ticks; products created, revived, edited, archived |
| `Settlement` | look at a bucket or the household, settle everything, one pair or an amount; expenses and settle-up change elsewhere |
| `OfflineQueue` | `Make`, `LeaveLane`, `ServeOnline`, `Settle`, `Add` are `perform`, `send`, `enqueue`; `TakeLock`, `WhoAmI`, `DrainRow`, `ServeRow`, `React` are `drain`; `Kick`, `TimerFires`, `Visit`, `GoOnline` its triggers; `ReadMe`, `SignOut`, `Wiped`, `Hear` the session |
| `Draft`, `Composer` | one action per reducer action; open, type, cross 1024 px, save with its duplicate check, answers, Undo, rules, timers |
| `ActivityRows`, `ActivityBulk` | `DeleteRow` and its hold, `Edit`, answers and refetches; selection, list, sheet, preview, apply and its refusals, undo of a batch |
| `EntryPatch`, `PlanEntry` | what a write does to the server's lists and to the cached ones; the sheet, its writes and their answers |
| `PlanItem`, `CashForms` | the item form, a PUT of the whole row; the sheets that move, count and delete cash |
| `ShoppingList`, `PantryItem`, `PantryAdd` | taps through lanes and queue, "Add to pantry"; stepper, settings and edit of one item; search, camera, barcode, form |
| `Base`, `WebBase`, `Subsequence`, `DataLemmas` | `None` and shared helpers; the rows of a sequence at a set of positions; lemmas about data. `Subsequence` stands for `SelectSeq`, whose recursive definition the provers cannot unfold |
| `MC*` | instances. Machines that share no state run under one module: `part` says which one moves, the others rest in one initial state |

### What the models leave out

*Entries*: amounts are known or unknown; payer, splits, dates and currency are
left out. `find_match` may offer any claimable entry of the right direction that
was not offered before. Entries are there from the start. `Kinds` is the set of
requests sent, `Due` the auto-pay window. `TypeOK` is the type invariant.

*Generation*: the calendar is three months of three days (years of two months,
weeks of three days) with a weekend, a holiday and an Easter; every rule kind and
adjustment is there, of which the run has monthly intervals and a date that moves back. One item;
in the run the old page's form, which takes the steps of the API's edit, overlaps with nothing. The constraint `NotCrossed` ends a behaviour when
two generations planned on different schedules both commit, after which an item
may have two entries in a period (a listed hazard). `raced` (history) holds the
entries claimed without an expense beside a deletion that had passed its check.

*Daily job*: what a stage's query finds is an input. The third consecutive
failure of the price refresh, which ends it, is modelled and not reached in the
run's bounds.

*Bulk*: rows do not interact except through the batch, the item and what is
gone, so that one row, two batches and two requests show every chain; the theorems are
for any number.

*Cash*: whole numbers and months. `WalletAddsUp` starts from every wallet of
three movements and one expense over three months, besides the wallets that the
saves build up. The constraint `MCNotRaced` ends a behaviour in which two saves of one stash, not
both locked, overlapped.

*Settlement*: expenses of the checked forms have a payer or are split; excluded
and payerless ones are in the operators, not in the run. A settle that dies before its commit changes nothing and is left out.

*Queue*: time is "the backoff is over" (`Elapse`); key generations are replaced
by marking overtaken work as stale; logout and forgetting the key are one step;
an abandoned send is not delivered after its answer; `localStorage`, the DELETE kind,
dismissing a failed row and `sendOnTeardown` are left out. Writes are of four
kinds: `create` (with `client_id`), `item` (without), `set` (idempotent, in a lane), `done`.

*Screens*: time is left out, a timer that runs may end at any moment. The cache
is written, invalidated and refetched as TanStack Query does (external, modelled
from its use): a refetch is asked, read and landed; `cancelQueries` is one step
with the patch; an invalidated query that no screen shows is read when shown.
`enqueue` does not fail and a 401 is left to `OfflineQueue`. `ActivityRows` has
no second member. In `ShoppingList` items stay low and a request is one step on the
server. `PantryAdd` takes search and lookup as external and does not tell a 4xx
of POST from a lost one. `PantryItem` has one item. `EntryPatch` leaves out
usage, payer, method and cents, and has items with a bucket: the refusal to undo and
keep a bucket-less expense is in `BillEntries`. In `PlanEntry` reading and showing is one step, and
choosing in the menu is part of `Open`. `PlanItem` leaves out name, category, currency, notes, dates and
rule, which travel like the bucket; `rev` (history) says which change made a row what
it is. `Draft` leaves out names, notes, dates, fuel and receipts' photos; a stored entry
(`RowFields`) is any that the server may hold, and what it names may go away while the
form is open (`Vanish`). The constraint `EditsFirst` ends a behaviour in which a stored
entry is opened after a save, since edits and copies take nothing from what it taught. `CashForms` has one stash, wallet and month.

## 3. Runs

Every property of a run has a mutant in `PROJECT.json`: a changed definition,
standing next to the one it replaces, with which TLC finds it violated.

| Run | Question and answer | Bounds |
|---|---|---|
| `entries_claims` | Do concurrent settlers pay twice or orphan a payment? No. | 2 entries, 2 transactions, 2 requests, 1 run that may die |
| `entries_serial` | Does any sequence of requests leave the tables inconsistent or hit the CHECK? No; every step is one of `EntryLedger`. | a bill and an income, 2 transactions, 1 request at a time |
| `entries_autopay` | Does auto-pay respect what it settled, and pay everything in the end? Yes. | 3 transactions, 2 crashes, a member who undoes, skips, deletes |
| `queue_accounts` | Is a queued write carried out twice, or for another account? No. | 2 tabs, 2 accounts, 1 write, 3 events, 1 wipe |
| `queue_drains` | Does the server see the queue in order, and each write in the end? Yes. | 1 tab, 3 writes on 2 rows, another member |
| `household` | One entry per period, none missing? Payments kept, but for a bare claim beside a deletion? A list paid once, and cleared? Yes. | 3 requests, 2 at a time, deletions too, 3 schedules; 3 members, 2 expenses, 2 settles |
| `money` | Stashes, takes and months under retries and overlap; one movement per press? Yes. | 2 members, 4 requests, 3 rows; 3 acts and 1 fault at the sheet |
| `activity` | Bulk rules and exact undo; the count shown; holds and rollbacks? Yes. | 1 row of 6 kinds, 2 batches, 1 edit; 3 rows in pages of 2; 2 rows, 2 acts, 2 faults |
| `pantry` | Taps and ticks once on the server; on the phone what was tapped is what remains? Yes. | 2 items, 2 taps, 3 ticks, 5 requests; 2 taps, 1 fault; 3 acts, 1 fault |
| `plan` | Do the lists show what will be, and does an edit of a row nobody else changed change only what was typed? Yes. | 2 entries, 2 acts, 1 fault; 2 items, 4 presses, 1 fault |
| `forms` | Does any order of inputs save what is accepted while what it names is there, once, without loss; does no camera stay on? Yes. | 2 members, buckets and categories, stored entries of 6 kinds, 3 inputs, 1 thing that goes away; 3 forms, 2 saves; 5 acts, 2 cameras |
| `jobs_daily` | A push once, unless undone; every run ends? Yes. | 2 processes, 2 runs, 4 reminders, 1 failure, 1 change |

**Why the bounds are enough.** Each property relates one or two rows and the
requests on them, and a handler reads and writes once, so two requests at a time
and one more afterwards show a violation if there is one; the third transaction
id of `entries_autopay` lets an entry be paid, undone and paid again. Faults and
acts are few because each adds a step in every position: one lost answer beside two taps
already gives every order of tap, loss, queue and reload. `MaxEpoch` = 1: one wipe makes
a row, key or drain stale. `made` saturates at 2. Requests, tabs, accounts, ids
and categories are interchangeable in the runs that declare symmetry, none of
which checks liveness; `NoTxn` is the set of ids, so that a permutation leaves it alone.
Deadlock is not checked: a household may stop, and the bounds run out.

**Fairness.** `AutoPayHappens`: the job runs again and again (a cron trigger and
one run per start, `scheduler.py:936-984`) and a run goes on to its next entry
unless it dies; no request is assumed. Its exit `Absent = {}` is the bound on
ids. `EveryWriteIsTried`: promises settle and timers fire, the Web Lock is granted
in the end, a server asked again and again answers in the end with something other
than "later" (strong fairness), the user returns again and again (`Visit`), and a
backoff ends (five minutes at most). Writes are not assumed. `RunsEnd`: a run that
can take its next step takes it; a failure, a death or a lost lock is never assumed,
and waiting on another's unique key ends when PostgreSQL does (`EndWait`).

**Stated, and held on the same bounds, in no run**, to keep the runs short; put the
name on the cfg's property line to see it: `TouchedRowsStay`, `NetsSumToZero`, `GenTypeOK` (household); `SavedOnce`,
`CashCountedOnce`, `RecountExact`, `OkIsStored`, `FiguresAreTrue`, `CashTypeOK` (money);
`CheckNeverHit`, `BulkTypeOK`, `UndoOnScreenWorks`, `TotalIsOfSelection`, `AllIsExact` (activity);
`TickBoughtOnce`, `BuysWhatWasTicked`, `ListIsTrue`, `ShownIsTrue`, `PantryTypeOK` (pantry);
`NothingForgotten`, `SharesAddUp`, `OnePerPress`, `ListIsTheServers` (plan); `TakeIsOwn`,
`SplitAddsUp`, `PickStays`, `FilledIsAlive`, `NoteIsItsOwn`, `RowsAreTrue`, `NoLateRead`,
`ResultsOfQuery` (forms); `SentTookEffect` and `TypeOK` (queue_accounts);
`SkippedHasNoPayment` (entries_serial); `StagesIsolated`, `ManualPriceStays`,
`JobTypeOK` (jobs_daily). `ShownSettles` needs the fairness of `RowsSpec` and is checked
with `ActivityRows` alone.

## 4. What holds under overlap

A conditional claim protects an entry from every other claim, and nothing else.
It does not protect against the ORM flushes of skip and undo, which act on what
they loaded, nor the transaction's side of a link. That is why the theorems about
links and the ledger assume requests one at a time, and `ClaimPreventsOrphans`
that nobody sends undo. A lock taken before the read (`Bulk`, `Pantry`, the cash
API) does protect, and the theorems about `Bulk`, `Pantry` and `Cash` are for any
number of requests at a time. Where a lock is missing (an edit beside a bulk
request, the old cash page), the property exempts the behaviours in which the two
overlapped (`crossed`, `raced`, `overlapped`), and its comment says so; `PaymentsOutliveItem`
exempts the claims that landed between a deletion's check and its DELETE (`raced`).
A whole-row PUT without a version protects nothing either: `OnlyWhatWasTyped` is
about an edit of the row that the server still has.

## 5. What the code or its comments promise and the models refute

Each line is reproduced by taking the run's cfg, removing its property and symmetry
lines, setting the constants named, and adding the property. No run of the project
expects a violation: the list is kept apart from what is checked each time.

| Property (cfg; constants) | What happens | What is said |
|---|---|---|
| `SkippedHasNoPayment` (entries_claims; `Kinds = {"done", "skip"}`) | a skip that overlaps a payment leaves it behind a skipped entry (`bills.py:615`) | `bills.py:612` "A done entry has to be undone first." |
| `LinkIsMutual` (entries_claims) | a link overlapping a deletion makes an entry paid by a deleted transaction (`matching.py:215`) | `matching.py:209` "Raises EntryStateError when either side has moved on" |
| `NoOrphanPayment` (entries_claims; `Kinds = {"done", "undo"}`) | of two undos with a payment between their commits, the second takes the entry from the new payment | the claim's purpose |
| `NeverAutoPaidAgain` (entries_autopay; `SPECIFICATION Spec`, `Pass = {p1, p2}`, `Kinds = {"undo"}`) | of two overlapping runs, the second repeats an auto-payment that was undone (`bills.py:339`) | `models.py:643-645` "Auto-pay never claims an entry it has settled before" |
| `NothingDropped` (household; `Bodies <- MCSalary`, `Legacy = {}`, `Overlap = {}`) | a rule edit moves a date onto that of another period; the unique key drops one | `generate_occurrences`: "A rule edit therefore never doubles or drops a salary" |
| `PaymentsNeverErased` (household) | the old app marks an entry of a bucket-less item paid between the deletion's history check (`api/recurring.py:598`) and its DELETE: the claim goes with the item | `bills.py:270-273` "Deleting such a bill would cascade away the only record of those payments" |
| `CashHasPayer` (activity) | an undo leaves a cash expense without a payer: R15 is not looked at again | `transactions.py:267` "it has to come out of someone's wallet" |
| `NothingCascades` (activity; `CascadeRace = TRUE`) | a transaction that enters a bucket between its check and its deletion goes with it | the check itself (`api/buckets.py:281`) |
| `ReplayClampsAgain` (pantry) | a tap clamped to nothing takes effect when sent again later | `stock.py:304` "its replay runs again, and clamps again" |
| `LaneOrder` (queue_drains; `SPECIFICATION Spec`, `Write = {1, 2}`, `Kind <- TwoSets`, `Target <- Same`, `Events = {"offline"}`) | the connection drops between two writes to one row: the second is queued first (`action.ts:117`) | `lanes.ts:2-3` "sent one after another, never overlapping" |
| `EveryWriteIsTried` (queue_drains; `Write = {1, 2}`, `Kind <- CreateAndSet`, `Target <- Apart`, `Events = {}`, `MaxEvents = 0`) | a kick during a drain is absorbed and nothing wakes the queue (`queue.ts:47`) | `queue.ts:200-201` "so schedule one" |
| `CreatedOnce` (queue_drains; `SPECIFICATION Spec`, `Write = {1}`, `Kind <- ItemOnly`, `Target <- One`, `Events = {"offline"}`) | an item made offline is created twice when a reply is lost | `action.ts:35-37` "instead of risking a duplicate" |
| `LastTapStandsOffline` (pantry) | a tap made offline overtakes one still on its way | `shoppingHooks.ts` "replay in order" |
| `LastTapStands` (pantry; `LateArrivals = TRUE`) | a request given up arrives after a later one | the lanes |
| `LostBuyChangesNothing` (pantry) | "Add to pantry" is carried out, its answer lost, and the list keeps the ticks | `onlineAction.ts` "a network failure changes nothing" |
| `CountIsOfRows` (pantry) | a second tap on a line before it is drawn counts twice on the bar | the bar's number |
| `GoneNotRead`, `CountMovesAtOnce`, `OnlyTypedIsSent`, `SheetCountIsTrue` (pantry) | an archived item is refetched; an answer undoes the taps that wait; an untyped name is sent; a lookup misses taps on their way | `hooks.ts` "never refetch it (a 404)"; `action.ts` "refetching now would briefly undo their patches"; `edit.ts` "only what changed"; `BarcodeSheet.tsx` "plus the taps made here" |
| `InFlightDeleteHidden`, `QueuedEditShown`, `LastEditStands` (activity) | a refetch shows a row being deleted; a queued edit loses its payer on screen; of two edits in a row the first may land last | `pending.ts` "queued or in-flight deletes are hidden"; `Feed.tsx` "a queued edit shows its new values" |
| `PreviewIsOfSheet`, `WaitingIsLeftAlone`, `NothingWasChanged` (activity), `SelectionOfThisList` (activity; `Filters = {"all", "bill"}`) | a late preview lands in changed fields; a write queued after "All" undoes the bulk change; an apply was carried out though the screen says not; a link changes the filter under a selection | `selection.ts`, `activity/hooks.ts` "Nothing was changed.", `Activity.tsx` |
| `RefusalIsSaid`, `OfferedIsTaken`, `ClosesItsOwn` (plan) | a refusal after the sheet closed is said nowhere; "Mark paid" is offered for a blank the server refuses; a late answer closes another sheet | `plan/hooks.ts:55` "shows every rejection inline" |
| `EditsSpareOthers` (plan) | another member pauses an item after its sheet was opened; the PUT replaces the whole row and the pause is gone (`api/recurring.py:574-591`) | `form.ts:33` "so a PUT (which replaces the row) never drops them" |
| `CountIsAsPreviewed`, `HiddenUntilCaughtUp`, `ClosesItsOwn` (money) | the partner took some since the preview; the row is back while wallets are read; as above | `CountSheet.tsx:9-11`, `home/hooks.ts:72-73` |
| `AddedOnce`, `ClosedStaysClosed`, `ClosesItsOwn` (forms) | a product without a barcode is added twice after a lost answer; a closed camera closes the next; as above | `onlineAction.ts`, as above |
| `UndoLasts`, `ParkIsBrief`, `DoneIsStored`, `LateAnswersStayPut` (forms) | the answer to an older Undo takes the Undo off a newer save; a form that is left in the middle of a swap leaves its park behind; a second save under the same `client_id` is told that it is done while the first text is stored; a late answer closes the form on the other layout | `ComposerForm.tsx`, `draft.ts` "a draft never outlives the swap it was made for" |
| `EverySaveIsAccepted` (forms) | the form lets the member save what the server refuses: a share of zero, a bucket, category or member that went away (an income's bucket that is archived or tracks no income any more), cash taken before the balance was read, a new payer or amount of an entry whose cash was taken | what `SaveIsAccepted` leaves out (`StillThere`) |
| `EverySplitFollows` (forms) | a stored split without a payer, or whose payer left, stays as it was when the amount changes (`state.ts:135`) | `state.ts:127` "a split follows it" |
| `ZeroShareAccepted` (forms), `OthersKeepTheirShare` (forms; `MaxSteps = 5`, `MaxMounts = 1`, `MaxActs = 1`), `LearnedStays` (the same with `MaxSaves = 2`) | the server refuses a share of zero; after the payer changed, the amount also changes the share of the one who paid before; a second save from one panel writes the record read when it opened, without what the first taught | `splits.ts` "Blank is fine (0)"; `state.ts` "keep what was typed" |

The entries' races need two requests within the milliseconds of a transaction;
those of queue and screens need a flaky connection only.

## 6. Proofs

Eight modules, checked by `tlapm`, for every value of the constants that the
named assumptions allow. Each has an inductive invariant, a lemma per action (or
per kind of step) that the action keeps it, and a last temporal step. TLC checked
every property before its proof, and the invariants of the server's modules and of
the queue too, on small instances.

| Module | Theorems | Assumed |
|---|---|---|
| `BillEntriesProofs` | `TypeCorrect`; `ClaimPreventsOrphans` (`NoOrphanPayment`); `AutoPayOnce` (`NeverAutoPaidAgain`) | `EntriesAssumption`; for the second, "undo" not in `Kinds`; for the third, at most one run |
| | `LinksAreMutual`; `ChecksAreEnough` (`CheckNeverRefuses`); `HandlersImplementLedger` (`ImplementsLedger`) | `EntriesAssumption`; `Serial` |
| | the item in the app: `EditsKeepTheRest` (`OnlyWhatWasTyped`); `ScaledSharesAddUp` (`SharesAddUp`) | `PlanItemAssumption`, `StoredAssumption` |
| `RecurringProofs` | `OneEntryPerPeriod` (`OncePerPeriod`); `EveryDateCovered` (`Covered`); `PaymentsStay` (`PaymentsOutliveItem`); `TouchedStay` | `GenerationAssumption`; for the first `OnePerPeriod`, for the second that and `InCalendar` |
| | `NotificationsPushOnce` (`PushedOnce`) | `JobAssumption` |
| `OfflineQueueProofs` | `ReplaysAreTheOwners` (`ReplayedForItsOwner`); `RowsGoInOrder` (`QueueOrder`); `SentWritesTook`; `CreatesTakeEffectOnce` (`CreatedOnce`) | `QueueAssumption`; for the last, no "item" |
| `ActivityProofs` | on the server `TakesStay`; `ChecksAreNeverHit`; `OwnSharesCovered`; `UndosAreExact` | `BulkAssumption` |
| | in the app `AppliesAreAsShown` (`AppliedAsShown`); `TotalsAreOfSelection`; `HoldsEndOnce`; `QuietRowsAreTrue` (`QuietIsTrue`); `UndosWork` | `ActivityBulkAssumption`, `ActivityRowsAssumption` |
| `PantryProofs` | on the server `TapsApplyOnce`; `QuantitiesAreLogged`; `ClearedWasAdded` (`NoTickLost`); `TicksBuyOnce` | `PantryAssumption` |
| | in the app `TapsAreCounted` (`TapsAddUp`); `LastTapsStand` (`LastTapStands`); `TicksAreBought` (`BuysWhatWasTicked`) | `PantryItemAssumption`; for the last two `ShoppingListAssumption` and not `LateArrivals` |
| `MoneyProofs` | `TablesAndRequests`; `TakesStayInStep` (`TakeInStep`); `OwnActsCovered` (`OwnActsNeverOverdraw`); `SavesAreOnce`; `RecountsExact`; `WalletsAddUp` (`WalletAddsUp`); in the app `RetriesAreOnce` (`RetryIsOnce`); `AnsweredIsStored` | `CashAssumption`, `FormsAssumption`; `CashFormsAssumption` |
| `FormsProofs` | the draft: `SavesAreAccepted` (`SaveIsAccepted`); `SplitsAddUp`; `TakesAreOwn`; `PicksStay` | `DraftAssumption` |
| | the composer: `SavesAreOneEntry` (`SavedOnce`); `TypedStays` (`TypedIsKept`) | `ComposerAssumption` |
| | "Add to pantry": `CamerasGoOff` (`CameraOff`); `NoReadIsLate` | `PantryAddAssumption` |
| `DataLemmas` | lemmas: the least number, what `Subsequence` keeps, sums over finite sets, lists | |

**The invariants, and why they are needed.**

* `BillEntries`: `TypeOK` is not inductive, for a commit uses what its slot holds:
  `TypeInv` adds what each kind of request carries. `NoOrphanPayment` is inductive
  beside it: a step keeps each live payment with its entry, settles a claimable
  entry, which has none to lose, or deletes the payment whose entry it reopens.
  `PendingFresh`: what a run has still to pay was never auto-paid.
  With one request at a time, `SerialInv` adds `LinkIsMutual` and `Snapshot`: what a
  handler loaded is still so, and passed its checks. Without the first a
  deletion could reopen an entry of another payment, without the second a commit
  could write over a change it has not seen. `Snapshot` is where the assumption
  is used. The refinement then goes action by action: a commit is one `Record`,
  `Pay`, `Claim`, `Link`, `Undo`, `Delete`, `Skip` or `Unskip` of the ledger (an undo
  that deletes its transaction is a `Delete`), or a stutter.
  `ItemsInv`: every row that is stored, listed or opened in a sheet has shares that add
  up and nothing its direction or payer mode excludes (`FairRow`); what a form keeps
  unseen is the item's as it was opened (`KeptOf`), so `formToBody` after
  `itemToForm` changes nothing; and an answer that offers "Pause instead" finds only
  the sheet it was pressed on, which is an item's (`Asked`). Scaled shares add up
  because the first takes what rounding leaves: only the sum's independence of its
  order is used, never how it rounds.
* `RecurringProofs`: `GenInv` and `CoverInv`. A row that an open request removed is
  locked, as free as it was, and removed by no other: what is paid or touched is
  never among them. A row that has the period of an entry about to be inserted is on
  that entry's own date, where the unique key passes the insertion over; hence one
  row per period, although the key is on dates. For `Covered`: what a request planned
  and what it leaves cover its dates, it planned the periods of the rows it removed
  anew, and rows from before periods were kept are never removed. A commit waits for
  dates that another has removed: without that a rollback and a commit could
  each leave a date to the other. `PaidKept`: while a deletion that passed its check is
  open, an entry that is paid has an expense or is in `raced`.
  `JobInv`: what was pushed and not rolled back is in the table or in an open
  transaction, and a transaction only holds what its stage says.
* `OfflineQueueProofs`: `QueueInv`. A row that is stored, or that a drain read,
  belongs to a write queued for the account that the row names (`Held`); what was
  told "ok" took effect (`WriteOK`, `Took`); no write has two rows; and what
  waits before a row that a drain has yet to send, the drain has too, and sends first
  (`Ordered`): a drain works off a copy while rows are added, backed off and
  removed around it, so the order of the queue alone says nothing of it. Every
  step leaves the queue a thinned copy, with at most one row added at its end.
* `ActivityProofs`: `BulkInv`. What was found under the locks still holds (`ApplyOK`,
  `UndoOK`), locks do not overlap, a batch holds rows that were in order and leads
  back to them, and a row holds the values of the batch that wrote it last
  (`WriterOK`), through batches undone on top of it. `EditOK` is what a
  plain edit, which locks nothing, can still rely on. `SelectionInv`: a request whose
  number is the selection's carries that very selection, and an apply on its way
  that does not name its rows expects the number that was shown; a drifted one is
  turned into a preview, so the refusal cannot lead to an apply of another number.
  `RowsInv`: a row owes an end exactly while it is held (`HoldsOK`), the Undo on screen
  is of a held row (`ToastOK`), and something is under way, or a refetch that will
  see the server as it is, or the cache is the server's rows (`Truthful`): the
  disjunction is what a rollback to an older cache needs.
* `PantryProofs`: `StockInv`. No two requests hold one item or tick; what one
  read under its lock still holds; the ticks it will clear are active and each
  is among its work. `ItemInv`: the taps that are not settled form one row, the queue and
  then the lane, of which only the first can have reached the server, and carried out
  one after another they lead from the server's quantity to the one that is meant
  (a tap stops at zero, so their sum alone would not do). `ShopInv`: of each row
  one write at a time is on its way; the last write of the row is what the row was
  asked for, or with none pending the server has it (`LastWins`); a line is on the server, or its "add"
  is still ahead of every other write of it (`LineStays`); and a purchase that was
  posted has no write of a row it counts left to wait for (`AimOK`). A repeated
  write must change nothing (`Effected`), which holds while no
  other write of its row has come between.
* `FormsProofs`: `DraftInv`. Only an expense has a split, or shares of everyone's own,
  and then no payer; a split that has somebody to pay the rest keeps adding up once it
  does (`GoodNext`, which every form handed to the reducer satisfies); cash taken fixes
  payer and method (`TakeOK`); only an edit of a fixed cost goes without a bucket, and a
  payer is blank only with own shares or where the entry had none (`EntryOK`); what is
  remembered of a save has every field (`DefaultsOK`); the member at the screen is
  never removed. What the server asks beyond `CanSave` is the list of `StillThere`.
  `FormInv`: a text goes by one `client_id` wherever it is (on screen, parked,
  in a run of the save, in the queue, stored), and every text was typed before: the next
  one typed is nowhere yet, which is what a form that stays open and clears
  itself needs. `AddInv`: a camera that streams is live, the live one is
  the last and its window is open, the barcode's sheet never lies over the camera, and
  what was asked from a sheet that is gone is marked so: the answers that
  come late are what could otherwise put a sheet back.
* `MoneyProofs`: `Basic` (what a request carries fits the tables it was read from,
  and two saves of one member are never both locked), and on it one invariant per
  theorem. `EditsFresh`: while no two edits of one expense overlapped, what an edit
  loaded is still so, without which its commit could write a column over a
  change it has not seen. `KeysOK`: a row names the key it was saved with, or its
  expense does, and a save under way finds only rows of its key that are a day old.
  `StashesOK`: the stash with others' takes given back covers what each open
  request is about to take from it; since others' takes are left out of that
  sum, their landing between a check and its commit cannot break it. `CountsOK`: a
  recount nothing upset still has the balance it was computed from. Each commit
  changes one row or adds one, and the sums follow by `RowChanges` and `TableGrows`.
  `FormsInv`: the stamp of a sheet and the press that was not accepted yet go
  together, and a `client_id` stands for one body, so a second press with the
  same fields meets the row of the first. `WalletAddsUp` needs only the types, and
  that the shortfall pass exists as a function of naturals; what a month carries
  and what it still has then telescope over the span.

**Why the assumptions are justified.** `Serial` is the household with one request
at a time, the regime in which the code's own checks are meant to suffice;
section 5 shows the three theorems false without it. "undo" and two runs likewise.
No "item": `POST /recurring` carries no key.
Not `LateArrivals`: a request given up after 15 s does not reach the server after a later one, without which
`LastTapStands` is false (section 5). `QueueAssumption` lets two writes
share a lane only if both are `set`, as in `lanes.ts`. `FormsAssumption`: a save names
a stash or an expense only with a take, as the request models of the cash API say.
`OnePerPeriod` says that a rule names one day of its month, ISO week or year before
it is adjusted, and `InCalendar` that its dates are dates; TLC evaluates both for the
calendar and the rules of `household`. `StoredAssumption` says of the items a
household starts with what `_apply` and `_replace_splits` let through: positive amounts and
shares (`parse_amount`) that add up (`check_split_sum`), and none of what is refused for
income.
`ActivityBulkAssumption`, `ActivityRowsAssumption`, `PantryAddAssumption` and
`CashFormsAssumption` give sets their types and say that null is none of their
values, and so do `DraftAssumption` and `ComposerAssumption`; the first also says
that stored entries are rows the schema lets in (`RowOK`), with a payer or without one. `CashAssumption` numbers the months from 1. `BulkAssumption` takes rows
that `create_transaction` accepts. `JobAssumption`: the price refresh creates no
notification (`scheduler.py`, its stage).

**Induction.** The provers cannot instantiate an induction theorem, so a
recursive function is reasoned about by its least counterexample (`LeastNumber`,
from the well-foundedness of < on the naturals, which is a fact without an
operator parameter), and a sum over a set of rows by its smallest counterexample
(`SmallestSet`, from the library's fact that a finite set has a cardinality): the
empty sum, one row more or less (`SumMore`), one row changed.

**Only model-checked.** Liveness (`AutoPayHappens`, `EveryWriteIsTried`, `RunsEnd`),
which is out of the prover's reach, as is ENABLED. `LaneOrder`, which is false
without the restriction of events its run has. `PaidOnce` and
`SettleClears` sum along a schedule of transfers that a recursion builds: an
induction over what the recursion computes. Not attempted: `ShownIsWhatWillBe`
of the plan. The other way round, sixteen theorems state properties that no run checks;
TLC checked them on the run's instance before.

## 7. Not modelled

Budgets, statements, insights, search: read-only. Ingestion and receipts: text
recognition over one request. Authentication and tokens: cryptography; what
depends on the cookie is in `OfflineQueue`. Price clients: that they answer or
fail is an input of `DailyJob`. Shell, routing, service worker: rendering and
assets. Migrations run once.

## 8. Plan

1. The plan's entries: `ShownIsWhatWillBe`.
2. `NoOrphanPayment` with undo, one request at a time.
3. Budgets and statements, whose figures are sums over the rows modelled here.
