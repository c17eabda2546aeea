------------------------------ MODULE CashForms ------------------------------
(***************************************************************************)
(* Cash on one phone (plan/cash): the stash and the wallet as last read,   *)
(* the sheet that takes, puts back, counts what is in hand, adds to the    *)
(* stash or recounts it, and the one that deletes a movement.  Their       *)
(* writes are online only; a retry of the same body carries the same       *)
(* client_id.  Beside them, cash expenses saved offline wait in the queue  *)
(* and count as logged on Home already.                                    *)
(*                                                                         *)
(* What the server does with a movement is module Cash, here one save at a *)
(* time; the queue is module OfflineQueue, here in order.  One stash, one  *)
(* wallet and one month; date, note, source and "I spent it on" are part   *)
(* of what makes two bodies differ, and are left out.                      *)
(***************************************************************************)
EXTENDS WebBase

CONSTANTS
    FormAmounts,            \* amounts typed, in the unit of the stash
    MaxActs, MaxLost    \* bounds: what this member does; failures, offline spells and what the partner takes

Modes == {"take", "put_back", "still_have", "stash_in", "stash_count"}
Bodies == [kind : Modes, amount : FormAmounts]
Stamps == [id : Nat, body : Bodies]     \* a write and its client_id
Sheets == [n : Nat, kind : {"cash", "delete"}, mode : Modes \cup {"delete"}, amount : FormAmounts \cup {None},
           last : Stamps \cup {None}, row : Nat \cup {None}, busy : BOOLEAN, problem : BOOLEAN]
Presses == [body : Bodies, n : Nat]

ASSUME CashFormsAssumption ==
    /\ FormAmounts \subseteq Nat /\ MaxActs \in Nat /\ MaxLost \in Nat
    /\ None \notin Sheets \cup Stamps \cup Presses \cup Nat

VARIABLES
    server,     \* moves: the movements saved, each with its client_id, its body, the correction of a recount, whether
                \* it lives and (history) the press it was saved for; taken: what the partner took of this stash;
                \* logged: the cash expenses saved
    phone,      \* copy   the figures last read, or None       asked   a refetch is under way
                \* sheet  None, or a sheet: its number, kind, mode, amount (or None), the id and body last sent (or
                \*        None), the movement to delete, whether it waits, whether it shows a refusal
                \* queue  cash expenses to be sent             online, next: the next fresh id or sheet number
    reqs,       \* writes under way: the sheet's number, the client_id, the body or the movement to delete, the stage,
                \* the press it repeats, and the stash the sheet showed
    pressed,    \* history: the body last pressed in this sheet and not accepted, and the number of that first press
    missed,     \* history: since the figures were read, a fetch failed, the partner took some or an answer was lost
    acts, lost

cashVars == <<server, phone, reqs, pressed, missed, acts, lost>>

(***************************************************************************)
(* The server.                                                             *)
(***************************************************************************)
Live == {m \in server.moves : m.live}
SumOf(set, Of(_)) == MapThenSumSet(Of, set)
OfKind(set, kind) == {m \in set : m.body.kind = kind}
Clamped(n) == IF n < 0 THEN 0 ELSE n

Stash == SumOf(OfKind(Live, "stash_in") \cup OfKind(Live, "put_back"), LAMBDA m : m.body.amount)
         - SumOf(OfKind(Live, "take"), LAMBDA m : m.body.amount)
         + SumOf(OfKind(Live, "stash_count"), LAMBDA m : m.correction) - server.taken
\* The last count of what is in hand stands.
InHand ==
    LET counts == OfKind(Live, "still_have")
    IN IF counts = {} THEN 0 ELSE (CHOOSE m \in counts : \A o \in counts : o.id <= m.id).body.amount
Took == Clamped(SumOf(OfKind(Live, "take"), LAMBDA m : m.body.amount) - SumOf(OfKind(Live, "put_back"), LAMBDA m : m.body.amount))
NotLogged == Clamped(Took - InHand - SumOf(server.logged, LAMBDA x : x.amount))
Figures == [stash |-> Stash, notLogged |-> NotLogged]

Known(id) == \E m \in server.moves : m.id = id
Refusal(body) == body.kind = "take" /\ body.amount > Stash
Correction(body) == IF body.kind = "stash_count" THEN body.amount - Stash ELSE 0
Movement(r) == [id |-> r.id, body |-> r.body, correction |-> Correction(r.body), live |-> TRUE, press |-> r.press]

(***************************************************************************)
(* Reads.                                                                  *)
(***************************************************************************)
Act == acts < MaxActs /\ acts' = acts + 1
Trouble == lost < MaxLost /\ lost' = lost + 1
CashMoved(next) == phone' = next /\ UNCHANGED <<server, reqs, missed, acts, lost>>

Read ==
    /\ phone.online /\ phone.asked
    /\ phone' = [phone EXCEPT !.copy = Figures, !.asked = FALSE] /\ missed' = FALSE
    /\ UNCHANGED <<server, reqs, pressed, acts, lost>>
FetchFails == phone.asked /\ Trouble /\ phone' = [phone EXCEPT !.asked = FALSE] /\ missed' = TRUE
              /\ UNCHANGED <<server, reqs, pressed, acts>>
GoOffline == phone.online /\ Trouble /\ phone' = [phone EXCEPT !.online = FALSE]
             /\ UNCHANGED <<server, reqs, pressed, missed, acts>>
GoOnline == ~phone.online /\ CashMoved([phone EXCEPT !.online = TRUE, !.asked = TRUE]) /\ UNCHANGED pressed

(***************************************************************************)
(* The sheets (CashSheet.tsx, CountSheet.tsx).                             *)
(***************************************************************************)
Sheet(kind, mode, row) ==
    [n |-> phone.next, kind |-> kind, mode |-> mode, amount |-> None, last |-> None, row |-> row,
     busy |-> FALSE, problem |-> FALSE]
OpenSheet(sheet) ==
    /\ phone.sheet = None /\ phone.copy # None /\ phone.online /\ Act
    /\ phone' = [phone EXCEPT !.sheet = sheet, !.next = @ + 1]
    /\ UNCHANGED <<server, reqs, pressed, missed, lost>>
OpenCash == \E mode \in {"take", "stash_in", "still_have"} : OpenSheet(Sheet("cash", mode, None))
OpenCount == OpenSheet(Sheet("cash", "stash_count", None))
Close == phone.sheet # None /\ CashMoved([phone EXCEPT !.sheet = None]) /\ pressed' = None

Editing == phone.sheet # None /\ phone.sheet.kind = "cash"
\* "Take", "Put back" and "Still have" share the sheet and what is typed in it.
Switch(mode) ==
    /\ Editing /\ {phone.sheet.mode, mode} \subseteq {"take", "put_back", "still_have"} /\ phone.sheet.mode # mode
    /\ CashMoved([phone EXCEPT !.sheet.mode = mode, !.sheet.problem = FALSE]) /\ UNCHANGED pressed
Type(amount) ==
    /\ Editing /\ phone.sheet.amount # amount
    /\ CashMoved([phone EXCEPT !.sheet.amount = amount, !.sheet.problem = FALSE]) /\ UNCHANGED pressed

\* More than the known stash holds is stopped here.
Short(sheet) == sheet.mode = "take" /\ sheet.amount > phone.copy.stash
Ready(sheet) ==
    /\ phone.online /\ sheet.amount # None /\ ~sheet.busy
    /\ sheet.amount > 0 \/ sheet.mode \in {"still_have", "stash_count"}
    /\ ~Short(sheet)
BodyOf(sheet) == [kind |-> sheet.mode, amount |-> sheet.amount]

\* The id of a write: the last one while the body is the same, else a fresh one.
StampKept(sheet) == IF sheet.last # None THEN sheet.last.id ELSE phone.next
StampAfresh(sheet) == phone.next
Stamp(sheet) == IF sheet.last # None /\ sheet.last.body = BodyOf(sheet) THEN sheet.last.id ELSE phone.next
Pressed(sheet) == IF pressed # None /\ pressed.body = BodyOf(sheet) THEN pressed.n ELSE phone.next
Save ==
    /\ Editing /\ Ready(phone.sheet) /\ Act
    /\ LET s == phone.sheet
           body == BodyOf(s)
       IN /\ phone' = [phone EXCEPT !.sheet = [s EXCEPT !.busy = TRUE, !.problem = FALSE, !.last = [id |-> Stamp(s), body |-> body]],
                                    !.next = @ + 1]
          /\ pressed' = [body |-> body, n |-> Pressed(s)]
          /\ reqs' = reqs \cup {[sheet |-> s.n, kind |-> "save", id |-> Stamp(s), body |-> body, stage |-> "sent",
                                 press |-> Pressed(s), shown |-> phone.copy.stash]}
    /\ UNCHANGED <<server, missed, lost>>

\* Your own row opens a sheet with Delete, which stays mounted: it waits while a deletion asked for earlier is under way.
Deleting == \E r \in reqs : r.kind = "delete"
Pick == \E m \in Live : OpenSheet([Sheet("delete", "delete", m.id) EXCEPT !.busy = Deleting])
Confirm ==
    /\ phone.sheet # None /\ phone.sheet.kind = "delete" /\ ~phone.sheet.busy /\ phone.online /\ Act
    /\ phone' = [phone EXCEPT !.sheet.busy = TRUE, !.sheet.problem = FALSE]
    /\ reqs' = reqs \cup {[sheet |-> phone.sheet.n, kind |-> "delete", id |-> phone.sheet.row, body |-> None, stage |-> "sent",
                           press |-> phone.sheet.n, shown |-> phone.copy.stash]}
    /\ UNCHANGED <<server, pressed, missed, lost>>

(***************************************************************************)
(* Requests and answers (useCashWrite, runOnline).                         *)
(***************************************************************************)
At(r, stage) == [r EXCEPT !.stage = stage]
Becomes(r, stage) == reqs' = (reqs \ {r}) \cup {At(r, stage)}

\* A known id is answered with the movement it made, deleted or not; a movement that is gone is a 404.
Serve(r) ==
    /\ r.stage = "sent"
    /\ \/ /\ r.kind = "save" /\ Known(r.id)
          /\ Becomes(r, "ok") /\ UNCHANGED server
       \/ /\ r.kind = "save" /\ ~Known(r.id) /\ ~Refusal(r.body)
          /\ server' = [server EXCEPT !.moves = @ \cup {Movement(r)}]
          /\ Becomes(r, "ok")
       \/ /\ r.kind = "save" /\ ~Known(r.id) /\ Refusal(r.body)
          /\ Becomes(r, "refused") /\ UNCHANGED server
       \/ /\ r.kind = "delete" /\ \E m \in Live : m.id = r.id
          /\ server' = [server EXCEPT !.moves = {IF m.id = r.id THEN [m EXCEPT !.live = FALSE] ELSE m : m \in @}]
          /\ Becomes(r, "ok")
       \/ /\ r.kind = "delete" /\ ~\E m \in Live : m.id = r.id
          /\ Becomes(r, "refused") /\ UNCHANGED server
    /\ UNCHANGED <<phone, pressed, missed, acts, lost>>

\* A save speaks to the sheet it was pressed in, a deletion to whichever delete sheet is open.
IsOf(r, sheet) == sheet # None /\ (sheet.kind = "delete") = (r.kind = "delete")
Hears(r) == IsOf(r, phone.sheet) /\ (r.kind = "delete" \/ phone.sheet.n = r.sheet)
AnsweredUnrefreshed(r) ==
    /\ r.stage = "ok" /\ phone.online
    /\ Becomes(r, "settling") /\ UNCHANGED <<server, phone, pressed, missed, acts, lost>>
\* What is stale is asked for, and waited for.
Answered(r) ==
    /\ r.stage = "ok" /\ phone.online
    /\ Becomes(r, "settling") /\ phone' = [phone EXCEPT !.asked = TRUE]
    /\ UNCHANGED <<server, pressed, missed, acts, lost>>
\* Then the sheet closes: whichever is open, of those that save or of those that delete.
Done(r) ==
    /\ r.stage = "settling" /\ ~phone.asked
    /\ reqs' = reqs \ {r}
    /\ IF IsOf(r, phone.sheet) THEN phone' = [phone EXCEPT !.sheet = None] /\ pressed' = None ELSE UNCHANGED <<phone, pressed>>
    /\ UNCHANGED <<server, missed, acts, lost>>
\* A refusal is shown.
Refused(r) ==
    /\ r.stage = "refused" /\ phone.online
    /\ reqs' = reqs \ {r}
    /\ phone' = IF Hears(r) THEN [phone EXCEPT !.sheet.busy = FALSE, !.sheet.problem = TRUE] ELSE phone
    /\ UNCHANGED <<server, pressed, missed, acts, lost>>
\* No answer, or a server error, before or after the write was carried out: a toast, and the sheet stays.
Lose(r) ==
    /\ r.stage # "settling"
    /\ (~phone.online /\ UNCHANGED lost) \/ (phone.online /\ Trouble)
    /\ reqs' = reqs \ {r} /\ missed' = (missed \/ r.stage = "ok")
    /\ phone' = IF Hears(r) THEN [phone EXCEPT !.sheet.busy = FALSE] ELSE phone
    /\ UNCHANGED <<server, pressed, acts>>

(***************************************************************************)
(* Cash expenses in the queue, and Home's "cash not logged yet".           *)
(***************************************************************************)
LogOffline(amount) ==
    /\ ~phone.online /\ phone.sheet = None /\ Act
    /\ phone' = [phone EXCEPT !.queue = Append(@, [n |-> phone.next, amount |-> amount]), !.next = @ + 1]
    /\ UNCHANGED <<server, reqs, pressed, missed, lost>>
\* The client_id of an expense makes a second replay a no-op; the answer may be lost.
Replay(heard) ==
    /\ phone.online /\ phone.queue # <<>>
    /\ heard \/ Trouble
    /\ server' = [server EXCEPT !.logged = @ \cup {Head(phone.queue)}]
    /\ phone' = IF heard THEN [phone EXCEPT !.queue = Tail(@), !.asked = TRUE] ELSE phone
    /\ UNCHANGED <<reqs, pressed, missed, acts>> /\ (heard => UNCHANGED lost)

Queued == {phone.queue[i] : i \in DOMAIN phone.queue}
CashNotLogged == Clamped(phone.copy.notLogged - SumOf(Queued, LAMBDA x : x.amount))

PartnerTakes(amount) ==
    /\ Trouble /\ server' = [server EXCEPT !.taken = @ + amount] /\ missed' = TRUE
    /\ UNCHANGED <<phone, reqs, pressed, acts>>

(***************************************************************************)
(* Specification.                                                          *)
(***************************************************************************)
FormsInit ==
    /\ \E amount \in FormAmounts :
         server = [moves |-> {[id |-> 0, body |-> [kind |-> kind, amount |-> amount], correction |-> 0, live |-> TRUE, press |-> 0]
                                 : kind \in {"stash_in"}},
                   taken |-> 0, logged |-> {}]
    /\ phone = [copy |-> None, asked |-> TRUE, sheet |-> None, queue |-> <<>>, online |-> TRUE, next |-> 1]
    /\ reqs = {} /\ pressed = None /\ missed = FALSE /\ acts = 0 /\ lost = 0

FormsNext ==
    \/ Read \/ FetchFails \/ GoOffline \/ GoOnline
    \/ OpenCash \/ OpenCount \/ Close \/ Save \/ Pick \/ Confirm
    \/ \E mode \in {"take", "put_back", "still_have"} : Switch(mode)
    \/ \E amount \in FormAmounts : Type(amount) \/ LogOffline(amount) \/ PartnerTakes(amount)
    \/ \E r \in reqs : Serve(r) \/ Answered(r) \/ Done(r) \/ Refused(r) \/ Lose(r)
    \/ \E heard \in BOOLEAN : Replay(heard)

FormsSpec == FormsInit /\ [][FormsNext]_cashVars

(***************************************************************************)
(* Properties.                                                             *)
(***************************************************************************)
\* However often Save is pressed on a sheet whose fields stay as they are, through lost answers and failures, the movement
\* is made once.
RetryIsOnce == \A m, o \in server.moves : m.press = o.press => m = o

\* A sheet that closes because its save went well was saved as it was sent: an id that the server knows is never answered
\* for another body.
OkIsStored ==
    \A r \in reqs : r.kind = "save" /\ r.stage \in {"ok", "settling"} => \E m \in server.moves : m.id = r.id /\ m.body = r.body

\* With nothing under way, the stash and the cash not yet logged are the server's, cash that waits in the queue counting
\* as logged already, once.
Waiting == {x \in Queued : x \notin server.logged}
FiguresAreTrue ==
    reqs = {} /\ ~phone.asked /\ ~missed /\ phone.copy # None =>
        /\ phone.copy.stash = Stash
        /\ Waiting = Queued =>
             CashNotLogged = Clamped(Took - InHand - SumOf(server.logged \cup Queued, LAMBDA x : x.amount))

(***************************************************************************)
(* What comments say and the model refutes.                                *)
(***************************************************************************)
\* "the preview shows the same sum first" (CountSheet.tsx): not when the partner took some since.
CountIsAsPreviewed ==
    \A r \in reqs : r.kind = "save" /\ r.body.kind = "stash_count" =>
        \A m \in server.moves : m.id = r.id => m.correction = r.body.amount - r.shown

\* "the row hides until the wallets catch up" (home/hooks.ts): it comes back while they are read.
HiddenUntilCaughtUp ==
    ~missed /\ phone.copy # None /\ CashNotLogged > 0 =>
        Took - InHand - SumOf(server.logged \cup Queued, LAMBDA x : x.amount) > 0

\* Each answer closes the sheet it was given on, and no other.
ClosesItsOwn ==
    [][phone.sheet # None /\ phone'.sheet = None /\ reqs' # reqs =>
        \A r \in reqs \ reqs' : r.sheet = phone.sheet.n]_cashVars
=============================================================================
