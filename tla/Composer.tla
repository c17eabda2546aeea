------------------------------ MODULE Composer ------------------------------
(***************************************************************************)
(* The life of the Add and Edit form around its draft: opening, the park   *)
(* of a draft when the window crosses 1024 px, the question before it is   *)
(* discarded, the duplicate check, the save and its answers, the panel     *)
(* that stays open, Undo (composer/ComposerForm.tsx, Composer.tsx,         *)
(* draft.ts, hooks/useSaveTransaction.ts, undo.ts, pendingStore.ts,        *)
(* shell/AddSidePanel.tsx).                                                *)
(*                                                                         *)
(* What is typed is a number: a later state of a form has a larger one,    *)
(* zero is an empty form.  The reducer behind it is module Draft, the      *)
(* offline queue module OfflineQueue: here a queued write is carried out   *)
(* in order, some time.  An entry goes by its client_id.                   *)
(***************************************************************************)
EXTENDS WebBase

CONSTANTS MaxTyped, MaxMounts, MaxJobs     \* bounds: keystrokes, forms mounted, saves running at once

Keys == {"new", "edit"}
Layouts == {"phone", "panel"}
Other(layout) == IF layout = "phone" THEN "panel" ELSE "phone"

\* A form asks before an address that leaves it takes a changed draft along; what a crossing of 1024 px parks of it.
Forms ==
    [key : Keys, layout : Layouts, mount : Nat, ready : BOOLEAN, saves : Nat, client : Nat \X Nat,
     text : Nat, dup : BOOLEAN, ask : {"no", "address"}, leaving : {FALSE}, submitting : BOOLEAN]
Parks == [text : Nat, client : Nat \X Nat]

ASSUME ComposerAssumption ==
    /\ None \notin Forms /\ None \notin Parks
    /\ MaxTyped \in Nat /\ MaxMounts \in Nat /\ MaxJobs \in Nat

VARIABLES
    form,       \* the mounted form, or None
    mounts,     \* forms mounted so far; a form's number, and with its saves so far its client_id
    typed,      \* the last number typed
    parked,     \* draft.ts: what a form left behind when the window crossed 1024 px, per key
    jobs,       \* runs of onSave under way, which outlive the form that started them
    online,
    queue,      \* creates and deletions in the offline queue
    entries,    \* entries on the server: client_id -> what was typed
    removed,    \* ... those deleted since
    note,       \* the panel's line on its last save, with its Undo and the rule it may offer
    toast,      \* the phone's toast on its last save
    undos,      \* DELETEs of Undo under way, with the form whose line was tapped, or zero for a toast
    hidden,     \* pendingStore: rows hidden because a delete took them
    inFlight    \* pendingStore: rows shown while their save is under way

formVars == <<form, mounts, typed, parked, jobs, online, queue, entries, removed, note, toast, undos, hidden, inFlight>>

\* A form that is still loading its data and defaults shows a skeleton; `ready` when it has read them.
Skeleton(key, layout) ==
    [key |-> key, layout |-> layout, mount |-> mounts + 1, ready |-> FALSE, saves |-> 0, client |-> <<mounts + 1, 0>>,
     text |-> 0, dup |-> FALSE, ask |-> "no", leaving |-> FALSE, submitting |-> FALSE]

Usable == form # None /\ form.ready /\ form.ask = "no"
Dirty(f) == f # None /\ f.ready /\ f.text # 0
Saving(f) == \E j \in jobs : j.mount = f.mount
Mounted(j) == form # None /\ form.mount = j.mount
Refused == UNCHANGED <<mounts, typed, parked, jobs, online, queue, entries, removed, note, toast, undos, hidden, inFlight>>

Mount(key, layout) == form' = Skeleton(key, layout) /\ mounts' = mounts + 1 /\ note' = None

Open(key, layout) ==
    /\ form = None /\ mounts < MaxMounts
    /\ Mount(key, layout)
    /\ UNCHANGED <<typed, parked, jobs, online, queue, entries, removed, toast, undos, hidden, inFlight>>

ReadyAfresh ==
    LET p == parked[form.key] IN
    /\ form # None /\ ~form.ready
    /\ form' = IF p = None THEN [form EXCEPT !.ready = TRUE] ELSE [form EXCEPT !.ready = TRUE, !.text = p.text]
    /\ parked' = [parked EXCEPT ![form.key] = None]
    /\ UNCHANGED <<mounts, typed, jobs, online, queue, entries, removed, note, toast, undos, hidden, inFlight>>

\* The form starts from a parked draft of its key, which is dropped, or from the defaults.
Ready ==
    LET p == parked[form.key] IN
    /\ form # None /\ ~form.ready
    /\ form' = IF p = None THEN [form EXCEPT !.ready = TRUE] ELSE [form EXCEPT !.ready = TRUE, !.text = p.text, !.client = p.client]
    /\ parked' = [parked EXCEPT ![form.key] = None]
    /\ UNCHANGED <<mounts, typed, jobs, online, queue, entries, removed, note, toast, undos, hidden, inFlight>>

Type ==
    /\ Usable /\ typed < MaxTyped
    /\ typed' = typed + 1
    /\ form' = [form EXCEPT !.text = typed + 1]
    /\ UNCHANGED <<mounts, parked, jobs, online, queue, entries, removed, note, toast, undos, hidden, inFlight>>

(***************************************************************************)
(* Leaving: a changed draft asks first, a save or "Open that one" does not.*)
(***************************************************************************)
\* The route or the panel's address goes away (Back, a link, a late answer): the blocker asks for a changed draft.
Navigated(f) == IF Dirty(f) /\ ~f.leaving THEN [f EXCEPT !.ask = "address"] ELSE None

\* Close, Escape, Back or another address; the panel's own close asks itself.
Leave ==
    /\ form # None /\ form.ask = "no"
    /\ form' = Navigated(form)
    /\ note' = IF form' = None THEN None ELSE note
    /\ UNCHANGED <<mounts, typed, parked, jobs, online, queue, entries, removed, toast, undos, hidden, inFlight>>

Discard ==
    /\ form # None /\ form.ask = "address"
    /\ form' = None /\ note' = None
    /\ UNCHANGED <<mounts, typed, parked, jobs, online, queue, entries, removed, toast, undos, hidden, inFlight>>

KeepEditing ==
    /\ form # None /\ form.ask = "address"
    /\ form' = [form EXCEPT !.ask = "no"] /\ Refused

\* "Open that one" of the duplicate card replaces the form by the edit form of the entry found.
OpenThatOne ==
    /\ Usable /\ form.dup /\ mounts < MaxMounts
    /\ Mount("edit", form.layout)
    /\ UNCHANGED <<typed, parked, jobs, online, queue, entries, removed, toast, undos, hidden, inFlight>>

CrossUnparked ==
    /\ form # None /\ mounts < MaxMounts
    /\ Mount(form.key, Other(form.layout))
    /\ UNCHANGED <<typed, parked, jobs, online, queue, entries, removed, toast, undos, hidden, inFlight>>

\* The window crosses 1024 px: the form is unmounted, parks a changed draft, and mounts again in the other layout.
Cross ==
    /\ form # None /\ mounts < MaxMounts
    /\ parked' = IF Dirty(form) /\ ~form.leaving
                 THEN [parked EXCEPT ![form.key] = [text |-> form.text, client |-> form.client]] ELSE parked
    /\ Mount(form.key, Other(form.layout))
    /\ UNCHANGED <<typed, jobs, online, queue, entries, removed, toast, undos, hidden, inFlight>>

(***************************************************************************)
(* Saving.  A run of onSave holds the values of the moment it was tapped.  *)
(***************************************************************************)
StartSave(stage) ==
    /\ Usable /\ form.text # 0 /\ ~form.submitting /\ Cardinality(jobs) < MaxJobs
    /\ jobs' = jobs \cup {[mount |-> form.mount, key |-> form.key, layout |-> form.layout,
                           client |-> form.client, text |-> form.text, stage |-> stage]}
    /\ form' = [form EXCEPT !.submitting = TRUE, !.dup = FALSE]
    /\ inFlight' = IF stage = "send" /\ form.key = "new" THEN inFlight \cup {form.client} ELSE inFlight
    /\ UNCHANGED <<mounts, typed, parked, online, queue, entries, removed, note, toast, undos, hidden>>

\* A new expense is checked for duplicates first, when online; Save anyway skips the check.
TapSave == StartSave(IF online /\ form.key = "new" THEN "check" ELSE "send")
SaveAnyway == form # None /\ form.dup /\ StartSave("send")

\* A likely duplicate: the card shows on the form if it is still there, and nothing is saved.
FoundDuplicate(j) ==
    /\ j.stage = "check"
    /\ jobs' = jobs \ {j}
    /\ form' = IF Mounted(j) THEN [form EXCEPT !.dup = TRUE, !.submitting = FALSE] ELSE form
    /\ UNCHANGED <<mounts, typed, parked, online, queue, entries, removed, note, toast, undos, hidden, inFlight>>

\* None found, an error, offline, or two seconds without an answer.
NoDuplicate(j) ==
    /\ j.stage = "check"
    /\ jobs' = (jobs \ {j}) \cup {[j EXCEPT !.stage = "send"]}
    /\ inFlight' = inFlight \cup {j.client}
    /\ UNCHANGED <<form, mounts, typed, parked, online, queue, entries, removed, note, toast, undos, hidden>>

\* After an add the panel stays open: a line on what was saved and an empty form with a new client_id. Elsewhere the form
\* closes, also when it is another one than the one that was saved: a late answer goes back all the same.
Saved(j, undoable) ==
    LET line == [id |-> j.client, undo |-> undoable, rule |-> None] IN
    IF j.layout = "panel" /\ j.key = "new"
    THEN /\ form' = IF Mounted(j) THEN [form EXCEPT !.text = 0, !.saves = @ + 1, !.client = <<form.mount, form.saves + 1>>,
                                                    !.dup = FALSE, !.submitting = FALSE]
                    ELSE IF form = None /\ mounts < MaxMounts THEN Skeleton("new", "panel") ELSE form
         /\ mounts' = IF form = None /\ mounts < MaxMounts THEN mounts + 1 ELSE mounts
         /\ note' = IF Mounted(j) THEN line ELSE note
         /\ UNCHANGED toast
    ELSE /\ form' = IF Mounted(j) THEN None ELSE Navigated(form)
         /\ note' = IF form' = None THEN None ELSE note
         /\ toast' = line
         /\ UNCHANGED mounts

\* The answer of the server. An entry whose client_id it knows is answered with the stored one.
SendDone(j) ==
    /\ j.stage = "send" /\ online
    /\ jobs' = jobs \ {j}
    /\ entries' = IF j.key = "new" /\ j.client \notin DOMAIN entries
                  THEN [c \in DOMAIN entries \cup {j.client} |-> IF c = j.client THEN j.text ELSE entries[c]] ELSE entries
    /\ inFlight' = inFlight \ {j.client}
    /\ Saved(j, j.key = "new")
    /\ UNCHANGED <<typed, parked, online, queue, removed, undos, hidden>>

\* Offline, no answer, 408, 429 or 5xx: the write goes to the queue, and the server may have carried it out.
SendQueued(j) ==
    /\ j.stage = "send"
    /\ jobs' = jobs \ {j}
    /\ queue' = IF j.key = "new" THEN Append(queue, [client |-> j.client, text |-> j.text]) ELSE queue
    /\ entries' \in {entries} \cup
         (IF online /\ j.key = "new" /\ j.client \notin DOMAIN entries
          THEN {[c \in DOMAIN entries \cup {j.client} |-> IF c = j.client THEN j.text ELSE entries[c]]} ELSE {})
    /\ inFlight' = inFlight \ {j.client}
    /\ Saved(j, FALSE)
    /\ UNCHANGED <<typed, parked, online, removed, undos, hidden>>

SendRefused(j) ==
    /\ j.stage = "send" /\ online
    /\ jobs' = jobs \ {j}
    /\ form' = IF Mounted(j) THEN [form EXCEPT !.submitting = FALSE] ELSE form
    /\ inFlight' = inFlight \ {j.client}
    /\ UNCHANGED <<mounts, typed, parked, online, queue, entries, removed, note, toast, undos, hidden>>

\* Delete of the edit form, after its own question: the row is hidden at once. It shares the busy flag of Save.
TapDelete ==
    /\ Usable /\ form.key = "edit" /\ ~form.submitting /\ Cardinality(jobs) < MaxJobs
    /\ jobs' = jobs \cup {[mount |-> form.mount, key |-> "edit", layout |-> form.layout,
                           client |-> form.client, text |-> 0, stage |-> "delete"]}
    /\ form' = [form EXCEPT !.submitting = TRUE]
    /\ hidden' = hidden \cup {form.client}
    /\ UNCHANGED <<mounts, typed, parked, online, queue, entries, removed, note, toast, undos, inFlight>>

\* Gone, or already gone: the form closes. Offline the deletion is queued, and the row stays hidden.
DeleteDone(j) ==
    /\ j.stage = "delete"
    /\ jobs' = jobs \ {j}
    /\ removed' = IF online THEN removed \cup {j.client} ELSE removed
    /\ queue' = IF online THEN queue ELSE Append(queue, [client |-> j.client, text |-> 0])
    /\ Saved(j, FALSE)
    /\ UNCHANGED <<typed, parked, online, entries, undos, hidden, inFlight>>

\* An answer that failed is ambiguous: nothing is queued, the row comes back, the server may have deleted it.
DeleteFailed(j) ==
    /\ j.stage = "delete" /\ online
    /\ jobs' = jobs \ {j}
    /\ form' = IF Mounted(j) THEN [form EXCEPT !.submitting = FALSE] ELSE form
    /\ hidden' = hidden \ {j.client}
    /\ removed' \in {removed, removed \cup {j.client}}
    /\ UNCHANGED <<mounts, typed, parked, online, queue, entries, note, toast, undos, inFlight>>

\* The queue's turn: a create whose client_id the server knows changes nothing; a write without a text is a deletion.
Replay ==
    LET q == Head(queue) IN
    /\ queue # <<>> /\ online
    /\ queue' = Tail(queue)
    /\ removed' = IF q.text = 0 THEN removed \cup {q.client} ELSE removed
    /\ entries' = IF q.text = 0 \/ q.client \in DOMAIN entries THEN entries
                  ELSE [c \in DOMAIN entries \cup {q.client} |-> IF c = q.client THEN q.text ELSE entries[c]]
    /\ UNCHANGED <<form, mounts, typed, parked, jobs, online, note, toast, undos, hidden, inFlight>>

(***************************************************************************)
(* After a save: Undo and the rule the server may offer.                   *)
(***************************************************************************)
OffersUndo == {line \in {note, toast} : line # None /\ line.undo}

\* Undo needs a connection; the row is hidden at once.
TapUndo(line) ==
    /\ line \in OffersUndo /\ online
    /\ undos' = undos \cup {[id |-> line.id, mount |-> IF line = note THEN form.mount ELSE 0]}
    /\ hidden' = hidden \cup {line.id}
    /\ toast' = IF line = toast THEN None ELSE toast        \* pressing a toast's action dismisses it
    /\ UNCHANGED <<form, mounts, typed, parked, jobs, online, queue, entries, removed, note, inFlight>>

\* Gone, or already gone: the line of the form it was tapped in says so, whichever save that line is about by now.
UndoDone(u) ==
    /\ undos' = undos \ {u}
    /\ removed' = removed \cup {u.id}
    /\ note' = IF form # None /\ form.mount = u.mount THEN [id |-> None, undo |-> FALSE, rule |-> None] ELSE note
    /\ UNCHANGED <<form, mounts, typed, parked, jobs, online, queue, entries, toast, hidden, inFlight>>

UndoFailedHidden(u) ==
    /\ undos' = undos \ {u}
    /\ removed' \in {removed, removed \cup {u.id}}
    /\ UNCHANGED <<form, mounts, typed, parked, jobs, online, queue, entries, note, toast, hidden, inFlight>>

\* Refused, or no answer: the row comes back; the server may have carried it out all the same.
UndoFailed(u) ==
    /\ undos' = undos \ {u}
    /\ hidden' = hidden \ {u.id}
    /\ removed' \in {removed, removed \cup {u.id}}
    /\ UNCHANGED <<form, mounts, typed, parked, jobs, online, queue, entries, note, toast, inFlight>>

UndoTimer ==
    /\ note # None /\ note.undo
    /\ note' = [note EXCEPT !.undo = FALSE]
    /\ UNCHANGED <<form, mounts, typed, parked, jobs, online, queue, entries, removed, toast, undos, hidden, inFlight>>

ToastTimer ==
    /\ toast # None /\ toast' = None
    /\ UNCHANGED <<form, mounts, typed, parked, jobs, online, queue, entries, removed, note, undos, hidden, inFlight>>

RuleOfferedAnyway(id) ==
    /\ id \in DOMAIN entries \ removed
    /\ note' = IF note # None THEN [note EXCEPT !.rule = id] ELSE note
    /\ UNCHANGED <<form, mounts, typed, parked, jobs, online, queue, entries, removed, toast, undos, hidden, inFlight>>

\* The answer to "does this entry suggest a rule" finds its own line, or none.
RuleOffered(id) ==
    /\ id \in DOMAIN entries \ removed
    /\ note' = IF note # None /\ note.id = id THEN [note EXCEPT !.rule = id] ELSE note
    /\ toast' = IF toast # None /\ toast.id = id THEN [toast EXCEPT !.rule = id] ELSE toast
    /\ UNCHANGED <<form, mounts, typed, parked, jobs, online, queue, entries, removed, undos, hidden, inFlight>>

GoOffline == online /\ online' = FALSE
             /\ UNCHANGED <<form, mounts, typed, parked, jobs, queue, entries, removed, note, toast, undos, hidden, inFlight>>
GoOnline == ~online /\ online' = TRUE
            /\ UNCHANGED <<form, mounts, typed, parked, jobs, queue, entries, removed, note, toast, undos, hidden, inFlight>>

FormInit ==
    /\ form = None /\ mounts = 0 /\ typed = 0 /\ parked = [k \in Keys |-> None] /\ jobs = {} /\ online = TRUE
    /\ queue = <<>> /\ entries = [c \in {} |-> 0] /\ removed = {} /\ note = None /\ toast = None
    /\ undos = {} /\ hidden = {} /\ inFlight = {}

FormNext ==
    \/ \E key \in Keys, layout \in Layouts : Open(key, layout)
    \/ Ready \/ Type \/ Leave \/ Discard \/ KeepEditing \/ OpenThatOne \/ Cross
    \/ TapSave \/ SaveAnyway \/ TapDelete
    \/ \E j \in jobs : DeleteDone(j) \/ DeleteFailed(j) \/ FoundDuplicate(j) \/ NoDuplicate(j) \/ SendDone(j) \/ SendQueued(j) \/ SendRefused(j)
    \/ Replay
    \/ \E line \in OffersUndo : TapUndo(line)
    \/ \E u \in undos : UndoDone(u) \/ UndoFailed(u)
    \/ UndoTimer \/ ToastTimer
    \/ \E id \in DOMAIN entries : RuleOffered(id)
    \/ GoOffline \/ GoOnline

FormSpec == FormInit /\ [][FormNext]_formVars

(***************************************************************************)
(* Properties.                                                             *)
(***************************************************************************)
\* What was typed, wherever it is now.
Kept(t) ==
    \/ \E k \in Keys : parked[k] # None /\ parked[k].text = t
    \/ \E j \in jobs : j.text = t
    \/ \E i \in DOMAIN queue : queue[i].text = t
    \/ \E c \in DOMAIN entries : entries[c] = t

\* A changed draft leaves the screen only into a save, a park for the other layout, or by the member's own choice. What is
\* typed while a save of the form runs is the exception the code makes: the answer clears or closes the form.
TypedIsKept ==
    [][/\ Dirty(form) /\ ~Saving(form)
       /\ form' = None \/ form'.mount # form.mount \/ form'.text = 0
       => (\A t \in 1..MaxTyped : t = form.text => Kept(t)') \/ Discard \/ OpenThatOne]_formVars

\* One tap on Save, or two, across retries, the queue, a crossing of 1024 px and a form that stays open: what was typed
\* becomes one entry, because a draft takes its client_id with it wherever it goes and the next one has its own.
SavedOnce ==
    LET sent == {<<c, entries[c]>> : c \in DOMAIN entries} \cup {<<q.client, q.text>> : q \in {w \in ToSet(queue) : w.text # 0}}
                \cup {<<j.client, j.text>> : j \in {k \in jobs : k.key = "new"}}
    IN \A a, b \in sent : a[2] = b[2] => a[1] = b[1]

\* Undo and the rule that a line offers are those of the entry the line is about, however late the answers come.
NoteIsItsOwn ==
    \A line \in {note, toast} \ {None} :
        /\ line.undo => line.id \in DOMAIN entries
        /\ line.rule # None => line.rule = line.id

\* The lists show what is so: a row is hidden only while its deletion runs or once it is gone (a failed Undo brings it
\* back), and one shown as being saved has a save that still runs.
RowsAreTrue ==
    /\ hidden \subseteq {u.id : u \in undos} \cup removed \cup {w.client : w \in {x \in jobs \cup ToSet(queue) : x.text = 0}}
    /\ inFlight \subseteq {j.client : j \in jobs}

(***************************************************************************)
(* What the code and its comments say and the model refutes.               *)
(***************************************************************************)
\* "The Undo lasts as long as the toast's would" (ComposerForm.tsx): a line loses its Undo by its timer, its own Undo, a
\* newer save, or with the form.
UndoLasts ==
    [][note # None /\ note.undo /\ note' # None /\ form' # None /\ ~UndoTimer =>
        note'.undo \/ note'.id \notin {None, note.id} \/ note.id \in removed']_formVars

\* "a draft never outlives the swap it was made for" (draft.ts): a park is picked up by the form that follows it, and is
\* not there any more when that form has gone.
ParkIsBrief == form = None => \A k \in Keys : parked[k] = None

\* A save reported as done has stored what it was given.
DoneIsStored ==
    [][\A j \in jobs : SendDone(j) /\ j.key = "new" => entries'[j.client] = j.text]_formVars

\* An answer that comes after its form has gone leaves the screen the member went to alone.
LateAnswersStayPut ==
    [][\A j \in jobs : (SendDone(j) \/ SendQueued(j)) /\ ~Mounted(j) => form' = form]_formVars
=============================================================================
