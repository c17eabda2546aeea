---------------------------- MODULE ActivityRows ----------------------------
(***************************************************************************)
(* The rows of Activity on one device: the feed, the detail and the pairs  *)
(* of possible duplicates, the swipe-delete that is held for 5 s with its  *)
(* Undo (heldDeletes.ts, useDeleteWithUndo.ts, ui/Toast.tsx), the edits    *)
(* and deletions that patch the cached rows before the server answers      *)
(* (data/action.ts, activity/hooks.ts), and what the queue still has to    *)
(* send (activity/pending.ts).                                             *)
(*                                                                         *)
(* A row has a bucket and a payer.  The lists and the detail share one     *)
(* cache; time is left out: a timer that runs may end at any moment.  The  *)
(* queue behind it is module OfflineQueue: here it is replayed in order.   *)
(***************************************************************************)
EXTENDS WebBase

CONSTANTS
    RowIds,                          \* transactions
    MaxActs, MaxFaults             \* bounds: deletions and edits pressed; lost or refused sends, offline spells

ASSUME ActivityRowsAssumption == IsFiniteSet(RowIds) /\ None \notin RowIds /\ MaxActs \in Nat /\ MaxFaults \in Nat

VARIABLES
    server,     \* the rows of the server: their fields, or None once deleted
    dev,        \* the device, a record:
                \*   cache   the cached rows      fetch   a refetch under way: idle, asked or read
                \*   writes  sends under way, each with the cache as it was before its patch
                \*   queue   writes of the offline queue
                \*   held    per row: no, held, or due (its time ran out while its Undo was on screen)
                \*   toast   the one on screen: the row its Undo brings back, or None, and whether a finger rests on it
                \*   online
                \*   owed    history, per row: deletions pressed and neither sent nor undone
    meant,      \* history: what the member last set each field to
    acts, faults

rowsVars == <<server, dev, meant, acts, faults>>

EditFields == {"bucket", "payer"}
Values == 0..1
RowFields == [EditFields -> Values]
Old == [f \in EditFields |-> 0]

\* A queued deletion hides the row, a queued edit overlays the fields a pending row carries: its bucket, not its payer.
Queued(r, kind) == SelectSeq(dev.queue, LAMBDA q : q.row = r /\ q.kind = kind)
Edited(r) == Queued(r, "edit") # <<>>
Hidden(r) == dev.held[r] # "no" \/ Queued(r, "delete") # <<>> \/ dev.cache[r] = None
Shown(r) ==
    CASE Hidden(r) -> None
      [] ~Hidden(r) /\ Edited(r) -> [dev.cache[r] EXCEPT !["bucket"] = Last(Queued(r, "edit")).body["bucket"]]
      [] OTHER -> dev.cache[r]

(***************************************************************************)
(* A write: the optimistic patch, then the API, the queue or a rollback.   *)
(***************************************************************************)
Idle == [at |-> "idle", rows |-> <<>>]
Refetched(d) == [d EXCEPT !.fetch = [at |-> "asked", rows |-> <<>>]]
FreeNumber(writes) == CHOOSE n \in 1..(Cardinality(writes) + 1) : \A w \in writes : w.n # n

Patched(d, r, kind, body) == [d EXCEPT !.cache[r] = IF kind = "delete" \/ @ = None THEN None ELSE body]
Enqueued(d, r, kind, body) == [d EXCEPT !.queue = Append(@, [row |-> r, kind |-> kind, body |-> body])]
Sent(d, r, kind, body, way, snap) ==
    [d EXCEPT !.writes = @ \cup {[n |-> FreeNumber(@), row |-> r, kind |-> kind, body |-> body, way |-> way,
                                  snap |-> snap, stage |-> "sent"]}]

\* perform: refetches under way are cancelled, or they would undo the patch.
Perform(d, r, kind, body) ==
    LET p == [Patched(d, r, kind, body) EXCEPT !.fetch = Idle]
    IN IF d.online THEN Sent(p, r, kind, body, "action", d.cache) ELSE Enqueued(p, r, kind, body)

\* The page is going away: a keepalive request, without a snapshot to go back to.
SendOnTeardown(d, r) == Sent(Patched(d, r, "delete", None), r, "delete", None, "teardown", d.cache)

(***************************************************************************)
(* Held deletions and the toast that can undo them.                        *)
(***************************************************************************)
OnScreen(d, r) == d.toast # None /\ d.toast.row = r
FlushOnTimerTwice(d, r) == Perform([d EXCEPT !.owed[r] = @ - 1], r, "delete", None)
FlushOnTimer(d, r) == Perform([d EXCEPT !.held[r] = "no", !.owed[r] = @ - 1], r, "delete", None)

\* A toast leaves the screen: a hold whose time ran out meanwhile is sent.
Settle(d, r) == IF r # None /\ d.held[r] = "due" THEN FlushOnTimer(d, r) ELSE d
Closed(d) == IF d.toast = None THEN d ELSE Settle([d EXCEPT !.toast = None], d.toast.row)

\* A new toast replaces the one on screen.
Show(d, r) ==
    LET old == IF d.toast = None THEN None ELSE d.toast.row
    IN Settle([d EXCEPT !.toast = [row |-> r, paused |-> FALSE]], old)

FlushOnHideKeepingToast(d, r) ==
    LET gone == [d EXCEPT !.held[r] = "no", !.owed[r] = @ - 1]
    IN IF gone.online THEN SendOnTeardown(gone, r) ELSE Perform(gone, r, "delete", None)

\* Flushed early, an Undo still on screen would do nothing: it goes too.
FlushOnHide(d, r) ==
    LET gone == Closed([d EXCEPT !.held[r] = "no", !.owed[r] = @ - 1])
    IN CASE d.held[r] = "no" -> d
         [] d.held[r] # "no" /\ gone.online -> SendOnTeardown(gone, r)
         [] OTHER -> Perform(gone, r, "delete", None)

Holding(d) == {r \in RowIds : d.held[r] # "no"}
Moved(next) == dev' = next /\ UNCHANGED <<server, meant, acts, faults>>

(***************************************************************************)
(* The member.                                                             *)
(***************************************************************************)
\* Swipe, the Delete of the detail, "Delete this one" of a duplicate pair: not on a row that waits to sync.
DeleteRow(r) ==
    /\ acts < MaxActs /\ Shown(r) # None /\ ~Edited(r)
    /\ dev' = Show([dev EXCEPT !.held[r] = "held", !.owed[r] = @ + 1], r)
    /\ acts' = acts + 1
    /\ UNCHANGED <<server, meant, faults>>

\* Undo on the toast: the hold ends without a send, then the toast goes.
Undo ==
    /\ dev.toast # None /\ dev.toast.row # None
    /\ LET r == dev.toast.row
       IN Moved(Closed([dev EXCEPT !.held[r] = "no", !.owed[r] = @ - IF dev.held[r] = "no" THEN 0 ELSE 1]))

\* A finger or the focus on a toast that has a button holds it.
Touch == dev.toast # None /\ dev.toast.row # None /\ ~dev.toast.paused /\ Moved([dev EXCEPT !.toast.paused = TRUE])
LetGo == dev.toast # None /\ dev.toast.paused /\ Moved([dev EXCEPT !.toast.paused = FALSE])
ToastEnds == dev.toast # None /\ ~dev.toast.paused /\ Moved(Closed(dev))

ExpireAnyway(r) == dev.held[r] = "held" /\ Moved(FlushOnTimer(dev, r))

\* The 5 s are over; while its Undo is on screen the hold outlasts them.
ExpireHold(r) ==
    /\ dev.held[r] = "held"
    /\ Moved(IF OnScreen(dev, r) THEN [dev EXCEPT !.held[r] = "due"] ELSE FlushOnTimer(dev, r))

Hide == Holding(dev) # {} /\ Moved(FoldSet(LAMBDA r, d : FlushOnHide(d, r), dev, Holding(dev)))

\* A field of the detail: the whole row goes out as it is shown, with the one field changed.
Edit(r, f, v) ==
    /\ acts < MaxActs /\ Shown(r) # None /\ ~Edited(r) /\ Shown(r)[f] # v
    /\ dev' = Perform(dev, r, "edit", [Shown(r) EXCEPT ![f] = v])
    /\ meant' = [meant EXCEPT ![r][f] = v]
    /\ acts' = acts + 1
    /\ UNCHANGED <<server, faults>>

(***************************************************************************)
(* Answers, losses and refetches.                                          *)
(***************************************************************************)
Applied(rows, w) == [rows EXCEPT ![w.row] = IF w.kind = "delete" \/ @ = None THEN None ELSE w.body]
WithStage(w, stage) == [dev EXCEPT !.writes = (@ \ {w}) \cup {[w EXCEPT !.stage = stage]}]

Serve(w) ==
    /\ w.stage = "sent"
    /\ server' = Applied(server, w)
    /\ dev' = WithStage(w, IF server[w.row] = None THEN "gone" ELSE "ok")
    /\ UNCHANGED <<meant, acts, faults>>

\* 5xx, 408 or 429: not carried out.
Refuse(w) ==
    /\ w.stage = "sent" /\ faults < MaxFaults
    /\ dev' = WithStage(w, "busy")
    /\ faults' = faults + 1
    /\ UNCHANGED <<server, meant, acts>>

RolledBackQuietly(d, w) == Show([d EXCEPT !.cache = w.snap], None)

\* Rejected, or a deletion nobody can confirm: the rows as they were before the patch, an error, and a refetch.
RolledBack(d, w) == Refetched(Show([d EXCEPT !.cache = w.snap], None))

\* Failed or never answered: an edit is queued, a deletion sent while online is not, one sent on teardown is.
Unanswered(d, w) ==
    IF w.kind = "edit" \/ w.way = "teardown" THEN Enqueued(d, w.row, w.kind, w.body) ELSE RolledBack(d, w)

RowAnswered(w) == [dev EXCEPT !.writes = @ \ {w}]

Answer(w) ==
    /\ dev.online /\ w.stage # "sent"
    /\ Moved(CASE w.stage = "ok" \/ w.way = "teardown" -> Refetched(RowAnswered(w))
                [] w.stage = "gone" /\ w.way = "action" -> RolledBack(RowAnswered(w), w)
                [] OTHER -> Unanswered(RowAnswered(w), w))

Lose(w) ==
    /\ ~dev.online \/ faults < MaxFaults
    /\ faults' = IF dev.online THEN faults + 1 ELSE faults
    /\ dev' = Unanswered(RowAnswered(w), w)
    /\ UNCHANGED <<server, meant, acts>>

\* The screen comes up again, or the window gets the focus.
Refetch == dev.fetch = Idle /\ Moved(Refetched(dev))
ReadRows == dev.online /\ dev.fetch.at = "asked" /\ Moved([dev EXCEPT !.fetch = [at |-> "read", rows |-> server]])
LandRows == dev.fetch.at = "read" /\ Moved([dev EXCEPT !.cache = dev.fetch.rows, !.fetch = Idle])

\* The queue is replayed, then what writes touch is refetched (data/queueBridge.ts).
ReplayRow ==
    /\ dev.online /\ dev.queue # <<>>
    /\ server' = Applied(server, Head(dev.queue))
    /\ dev' = Refetched([dev EXCEPT !.queue = Tail(@)])
    /\ UNCHANGED <<meant, acts, faults>>

GoOffline ==
    /\ dev.online /\ faults < MaxFaults
    /\ dev' = [dev EXCEPT !.online = FALSE] /\ faults' = faults + 1
    /\ UNCHANGED <<server, meant, acts>>
GoOnline == ~dev.online /\ Moved([dev EXCEPT !.online = TRUE])

RowsInit ==
    /\ server = [r \in RowIds |-> Old]
    /\ dev = [cache |-> server, fetch |-> Idle, writes |-> {}, queue |-> <<>>, held |-> [r \in RowIds |-> "no"],
              toast |-> None, online |-> TRUE, owed |-> [r \in RowIds |-> 0]]
    /\ meant = [r \in RowIds |-> Old]
    /\ acts = 0 /\ faults = 0

RowsNext ==
    \/ \E r \in RowIds : DeleteRow(r) \/ ExpireHold(r)
    \/ \E r \in RowIds, f \in EditFields, v \in Values : Edit(r, f, v)
    \/ \E w \in dev.writes : Serve(w) \/ Refuse(w) \/ Answer(w) \/ Lose(w)
    \/ Undo \/ Touch \/ LetGo \/ ToastEnds \/ Hide
    \/ Refetch \/ ReadRows \/ LandRows \/ ReplayRow \/ GoOffline \/ GoOnline

\* Timers run out, a finger leaves the toast, requests are answered or given up, and the connection comes back.
RowsFairness ==
    /\ \A r \in RowIds : WF_rowsVars(ExpireHold(r))
    /\ \A n \in 1..MaxActs : WF_rowsVars(\E w \in dev.writes : w.n = n /\ (Serve(w) \/ Answer(w)))
    /\ SF_rowsVars(ToastEnds) /\ WF_rowsVars(LetGo)
    /\ WF_rowsVars(ReadRows) /\ WF_rowsVars(LandRows) /\ WF_rowsVars(ReplayRow) /\ WF_rowsVars(GoOnline)

RowsSpec == RowsInit /\ [][RowsNext]_rowsVars /\ RowsFairness

(***************************************************************************)
(* Properties.                                                             *)
(***************************************************************************)
\* Undo works for as long as it is on screen (useDeleteWithUndo.ts): whatever timer, finger, other toast or hiding of
\* the page comes first, a deletion whose Undo can be tapped has not been sent.
UndoOnScreenWorks ==
    dev.toast # None /\ dev.toast.row # None => dev.held[dev.toast.row] # "no"

\* A press of Delete ends in one send or in one Undo, never in both and never in two sends, though a timer, a toast that
\* goes, an error that replaces it and a hidden page may each end the hold (heldDeletes.ts flush, settle, undoDelete).
HoldEndsOnce ==
    \A r \in RowIds : dev.owed[r] = IF dev.held[r] = "no" THEN 0 ELSE 1

\* Once nothing is under way, the screen is back to what the server has: no rolled back, cancelled or overtaken
\* refetch leaves a row that is gone, hides one that is not, or shows a field as it was (data/action.ts perform).
QuietIsTrue ==
    dev.writes = {} /\ dev.queue = <<>> /\ dev.fetch = Idle => dev.cache = server

\* ... and every deletion, edit and hold does come to rest: in the end the device shows what the server has.
ShownSettles == <>[](\A r \in RowIds : Shown(r) = server[r])

(***************************************************************************)
(* What comments say and the model refutes.                                *)
(***************************************************************************)
\* "queued or in-flight deletes are hidden" (activity/pending.ts): a refetch while the DELETE is under way shows the row.
InFlightDeleteHidden ==
    \A w \in dev.writes : w.kind = "delete" /\ w.stage = "sent" => Shown(w.row) = None

\* "a queued edit shows its new values" (Feed.tsx): the overlay has no payer, a refetch brings the old one back.
QueuedEditShown ==
    \A r \in RowIds : Edited(r) /\ Shown(r) # None => Shown(r) = Last(Queued(r, "edit")).body

\* Two fields of one row set in a row: the edits have no lane and each carries the whole row, so the first may land last.
LastEditStands ==
    dev.writes = {} /\ dev.queue = <<>> => \A r \in RowIds : server[r] \in {None, meant[r]}
=============================================================================
