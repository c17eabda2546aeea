------------------------------ MODULE PantryAdd ------------------------------
(***************************************************************************)
(* "Add to pantry" (plan/pantry/AddSheet.tsx): a search that waits for the *)
(* typing to pause and drops what it asked for an older query; the camera  *)
(* (scan/Scanner.tsx), which is asked for, started and read frame by frame *)
(* while the member may close it at any moment; the sheet of a barcode     *)
(* (BarcodeSheet.tsx); the form by hand; and POST /stock, online only.     *)
(*                                                                         *)
(* The - / + of the barcode's sheet is in PantryItem.  A setter of a       *)
(* component that is gone does nothing: "home" tells whether what was      *)
(* begun on a sheet finds it open, closed, or the whole screen left.       *)
(***************************************************************************)
EXTENDS WebBase

CONSTANTS
    Queries,            \* searches of two letters or more
    Goods, Codes,       \* products and barcodes
    HitsOf,             \* the products a query finds
    GoodOf,             \* the product of a barcode, or None
    CodeOf,             \* the barcode of a product, or None
    MaxActs, MaxScans, MaxLost  \* bounds: taps; cameras opened; failures and offline spells

\* lookup: the code whose sheet is open; result: what is known of it; manual: the form by hand; sending: the buttons
\* that wait for an answer (a row's, by its product, "found" or "manual"); added: the products with a check mark.
Sheets ==
    [query : Queries \cup {None}, timer : BOOLEAN,
     search : [state : {"idle", "loading", "done", "unavailable"}, q : Queries \cup {None}], scanning : BOOLEAN,
     noCamera : BOOLEAN, lookup : Codes \cup {None}, result : {"none", "loading", "missing", "have", "found", "unavailable"},
     manual : BOOLEAN, sending : SUBSET (Goods \cup {"found", "manual"}), added : SUBSET Goods]

ASSUME PantryAddAssumption ==
    /\ None \notin Sheets /\ None \notin Codes /\ None \notin Goods /\ Goods \cap {"found", "manual"} = {}
    /\ HitsOf \in [Queries -> SUBSET Goods] /\ GoodOf \in [Codes -> Goods \cup {None}]
    /\ CodeOf \in [Goods -> Codes \cup {None}]
    /\ MaxActs \in Nat /\ MaxScans \in Nat /\ MaxLost \in Nat

VARIABLES
    sheet,      \* the "Add to pantry" sheet, one of Sheets, or None
    asks,       \* searches under way: query, home, aborted
    cams,       \* a sequence of the cameras opened: phase, live, stream, home
    probes,     \* lookups of a barcode under way: code, answer, aborted
    posts,      \* POST /stock under way: id, good, key (the button), there (that button still is), stage, home
    stock,      \* the server: how many unarchived items each product has
    connected,
    acts, lost

addVars == <<sheet, asks, cams, probes, posts, stock, connected, acts, lost>>

Fresh == [query |-> None, timer |-> FALSE, search |-> [state |-> "idle", q |-> None], scanning |-> FALSE,
          noCamera |-> FALSE, lookup |-> None, result |-> "none", manual |-> FALSE, sending |-> {}, added |-> {}]

Act == acts < MaxActs /\ acts' = acts + 1
Lost == lost < MaxLost /\ lost' = lost + 1

\* Nothing lies over the sheet's own page.
OnTop == sheet # None /\ ~sheet.scanning /\ sheet.lookup = None
Page == OnTop /\ ~sheet.manual

Aborted(set) == {[a EXCEPT !.aborted = TRUE] : a \in set}
Stopped(c) == [c EXCEPT !.live = FALSE, !.stream = FALSE]
CamsLeft == [c \in DOMAIN cams |-> [Stopped(cams[c]) EXCEPT !.home = FALSE]]
Unmounted(keys) == {[p EXCEPT !.there = @ /\ p.key \notin keys] : p \in posts}
Left(set, home) == {[p EXCEPT !.there = FALSE, !.home = IF @ = "gone" THEN @ ELSE home] : p \in set}

OpenSheet ==
    /\ sheet = None /\ Act
    /\ sheet' = Fresh
    /\ UNCHANGED <<asks, cams, probes, posts, stock, connected, lost>>

\* The screen goes: every effect is cleaned up.
Gone(home, set) ==
    /\ sheet' = None /\ cams' = CamsLeft /\ posts' = Left(set, home)
    /\ asks' = Aborted(asks) /\ probes' = Aborted(probes)
CloseSheet == OnTop /\ Act /\ Gone("closed", posts) /\ UNCHANGED <<stock, connected, lost>>

(***************************************************************************)
(* The search.                                                             *)
(***************************************************************************)
\* The effect of [q, online]: what was asked before is aborted, and a new pause begins.
Searching(s, q, on) == [s EXCEPT !.query = q, !.timer = q # None /\ on,
                                 !.sending = IF q # None /\ on THEN @ ELSE @ \ Goods]
TypeQuery(q) ==
    /\ Page /\ connected /\ q # sheet.query /\ Act
    /\ sheet' = Searching(sheet, q, TRUE)
    /\ asks' = Aborted(asks)
    /\ posts' = IF q = None THEN Unmounted(Goods) ELSE posts
    /\ UNCHANGED <<cams, probes, stock, connected, lost>>

\* 300 ms later: "Searching...", the rows of the last search are gone.
Pause ==
    /\ sheet # None /\ sheet.timer
    /\ sheet' = [sheet EXCEPT !.timer = FALSE, !.search = [state |-> "loading", q |-> sheet.query],
                              !.sending = @ \ Goods]
    /\ asks' = asks \cup {[q |-> sheet.query, aborted |-> FALSE]}
    /\ posts' = Unmounted(Goods)
    /\ UNCHANGED <<cams, probes, stock, connected, acts, lost>>

Shows(a, state) == sheet' = IF sheet = None THEN None ELSE [sheet EXCEPT !.search = [state |-> state, q |-> a.q]]
SearchAnsweredLate(a) ==
    /\ Shows(a, "done") /\ asks' = asks \ {a}
    /\ UNCHANGED <<cams, probes, posts, stock, connected, acts, lost>>
SearchAnswered(a) ==
    /\ IF a.aborted THEN UNCHANGED sheet ELSE Shows(a, "done")
    /\ asks' = asks \ {a}
    /\ UNCHANGED <<cams, probes, posts, stock, connected, acts, lost>>
SearchFailed(a) ==
    /\ ~a.aborted /\ Lost
    /\ Shows(a, "unavailable") /\ asks' = asks \ {a}
    /\ UNCHANGED <<cams, probes, posts, stock, connected, acts>>

\* What the page shows of it.
Shown == IF sheet.query = None \/ ~connected THEN "idle" ELSE sheet.search.state
RowsShown == IF Shown = "done" THEN HitsOf[sheet.search.q] ELSE {}

(***************************************************************************)
(* The camera.  Every exit stops the stream's tracks.                      *)
(***************************************************************************)
WindowOpen(c) == sheet # None /\ sheet.scanning /\ c = Len(cams)
ScannerOpens == cams' = Append(cams, [phase |-> "asking", live |-> TRUE, stream |-> FALSE, home |-> TRUE])

Scan ==
    /\ Page /\ connected /\ Act /\ Len(cams) < MaxScans
    /\ sheet' = [sheet EXCEPT !.noCamera = FALSE, !.scanning = TRUE]
    /\ ScannerOpens
    /\ UNCHANGED <<asks, probes, posts, stock, connected, lost>>

CamStep(c, from, next) ==
    /\ cams[c].phase = from
    /\ cams' = [cams EXCEPT ![c] = next]
    /\ UNCHANGED <<sheet, asks, probes, posts, stock, connected, acts>>

GrantedAnyway(c) ==
    CamStep(c, "asking", [cams[c] EXCEPT !.phase = "starting", !.stream = TRUE]) /\ UNCHANGED lost
Granted(c) ==
    /\ CamStep(c, "asking", IF cams[c].live THEN [cams[c] EXCEPT !.phase = "starting", !.stream = TRUE]
                            ELSE [cams[c] EXCEPT !.phase = "off"])
    /\ UNCHANGED lost

\* The video plays and the decoder is loaded; a frame that cannot be read is followed by the next.
Started(c) == CamStep(c, "starting", [cams[c] EXCEPT !.phase = IF cams[c].live THEN "frame" ELSE "off"]) /\ UNCHANGED lost
NextFrame(c) == CamStep(c, "frame", [cams[c] EXCEPT !.phase = IF cams[c].live THEN "reading" ELSE "off"]) /\ UNCHANGED lost
NothingRead(c) == CamStep(c, "reading", [cams[c] EXCEPT !.phase = "frame"]) /\ UNCHANGED lost

\* A code is read: the camera goes off and the code is looked up.
LookedUp(s, code) == [s EXCEPT !.noCamera = FALSE, !.scanning = FALSE, !.lookup = code, !.result = "loading"]
Probe(code) == probes' = probes \cup {[code |-> code, answer |-> "none", aborted |-> FALSE]}
ReadAnyway(c, code) ==
    /\ cams[c].phase = "reading"
    /\ cams' = [cams EXCEPT ![c] = [Stopped(@) EXCEPT !.phase = "off"]]
    /\ IF cams[c].home THEN sheet' = LookedUp(sheet, code) /\ Probe(code) ELSE UNCHANGED <<sheet, probes>>
    /\ UNCHANGED <<asks, posts, stock, connected, acts, lost>>
Read(c, code) ==
    /\ cams[c].phase = "reading"
    /\ cams' = [cams EXCEPT ![c] = [Stopped(@) EXCEPT !.phase = "off"]]
    /\ IF cams[c].live THEN sheet' = LookedUp(sheet, code) /\ Probe(code) ELSE UNCHANGED <<sheet, probes>>
    /\ UNCHANGED <<asks, posts, stock, connected, acts, lost>>

\* No camera, no permission, no decoder, or one that dies while it reads (of which nobody asks whether it is live):
\* the sheet says so, and whatever camera is open closes.
NoCamera(c) ==
    /\ cams[c].phase \in {"asking", "starting", "reading"} /\ Lost
    /\ LET heard == cams[c].live \/ cams[c].phase = "reading"
           all == [cams EXCEPT ![c] = [Stopped(@) EXCEPT !.phase = "off"]]
       IN IF heard /\ cams[c].home
          THEN /\ sheet' = [sheet EXCEPT !.scanning = FALSE, !.noCamera = TRUE]
               /\ cams' = [d \in DOMAIN all |-> Stopped(all[d])]
          ELSE UNCHANGED sheet /\ cams' = all
    /\ UNCHANGED <<asks, probes, posts, stock, connected, acts>>

LeaveScanner ==
    /\ sheet # None /\ sheet.scanning /\ Act
    /\ sheet' = [sheet EXCEPT !.scanning = FALSE]
    /\ cams' = [cams EXCEPT ![Len(cams)] = Stopped(@)]
    /\ UNCHANGED <<asks, probes, posts, stock, connected, lost>>

(***************************************************************************)
(* The sheet of a barcode.                                                 *)
(***************************************************************************)
TypeCode(code) ==
    /\ Page /\ connected /\ Act
    /\ sheet' = LookedUp(sheet, code) /\ Probe(code)
    /\ UNCHANGED <<asks, cams, posts, stock, connected, lost>>

\* Found or not, the answer says whether the household has it.
ServeProbe(b) ==
    /\ b.answer = "none"
    /\ LET good == GoodOf[b.code]
           answer == IF good = None THEN "missing" ELSE IF stock[good] > 0 THEN "have" ELSE "found"
       IN probes' = (probes \ {b}) \cup {[b EXCEPT !.answer = answer]}
    /\ UNCHANGED <<sheet, asks, cams, posts, stock, connected, acts, lost>>
Result(b, answer) ==
    /\ sheet' = IF b.aborted THEN sheet ELSE [sheet EXCEPT !.result = answer]
    /\ probes' = probes \ {b}
    /\ UNCHANGED <<asks, cams, posts, stock, connected, acts>>
ProbeAnswered(b) == b.answer # "none" /\ Result(b, b.answer) /\ UNCHANGED lost
ProbeFailed(b) == Lost /\ Result(b, "unavailable")

LookupGone(s) == [s EXCEPT !.lookup = None, !.result = "none", !.sending = @ \ {"found"}]
LeaveLookup(next) ==
    /\ sheet # None /\ sheet.lookup # None /\ Act
    /\ sheet' = next /\ probes' = Aborted(probes) /\ posts' = Unmounted({"found"})
    /\ UNCHANGED <<asks, stock, connected, lost>>
CloseLookup == LeaveLookup(LookupGone(sheet)) /\ UNCHANGED cams
ScanAnother ==
    /\ sheet # None /\ sheet.result \notin {"none", "loading"} /\ connected /\ Len(cams) < MaxScans
    /\ LeaveLookup([LookupGone(sheet) EXCEPT !.scanning = TRUE])
    /\ ScannerOpens
AddManually ==
    /\ sheet # None /\ sheet.result \in {"missing", "unavailable"}
    /\ LeaveLookup([LookupGone(sheet) EXCEPT !.manual = TRUE]) /\ UNCHANGED cams

\* "Open": to the item's own screen.
OpenItem ==
    /\ sheet # None /\ sheet.result = "have" /\ Act
    /\ Gone("gone", posts) /\ UNCHANGED <<stock, connected, lost>>

(***************************************************************************)
(* POST /stock.                                                            *)
(***************************************************************************)
Post(good, key) ==
    /\ connected /\ key \notin sheet.sending /\ Act
    /\ sheet' = [sheet EXCEPT !.sending = @ \cup {key}]
    /\ posts' = posts \cup {[id |-> acts, good |-> good, key |-> key, there |-> TRUE, stage |-> "sent", home |-> "open"]}
    /\ UNCHANGED <<asks, cams, probes, stock, connected, lost>>
AddResult(g) == Page /\ g \in RowsShown \ sheet.added /\ Post(g, g)
AddFound == sheet # None /\ sheet.result = "found" /\ Post(GoodOf[sheet.lookup], "found")
SubmitManual(g) == OnTop /\ sheet.manual /\ Post(g, "manual")

Turn(next, keys) ==
    /\ Act /\ sheet' = [next EXCEPT !.sending = @ \ keys] /\ posts' = Unmounted(keys)
    /\ UNCHANGED <<asks, cams, probes, stock, connected, lost>>
FormByHand == Page /\ Turn([sheet EXCEPT !.manual = TRUE], Goods)
BackFromManual == OnTop /\ sheet.manual /\ Turn([sheet EXCEPT !.manual = FALSE], {"manual"})

\* A product with a barcode is added once; without one, each POST makes an item.
ServePost(p) ==
    /\ p.stage = "sent"
    /\ stock' = [stock EXCEPT ![p.good] = IF CodeOf[p.good] # None THEN 1 ELSE @ + 1]
    /\ posts' = (posts \ {p}) \cup {[p EXCEPT !.stage = "done"]}
    /\ UNCHANGED <<sheet, asks, cams, probes, connected, acts, lost>>

\* The button waits no more, if it is still there; the row is checked, the barcode's sheet closes, and after the form
\* the whole sheet: whichever is open then.
Freed(p) == IF p.there THEN [sheet EXCEPT !.sending = @ \ {p.key}] ELSE sheet
PostAnswered(p) ==
    /\ p.stage = "done"
    /\ CASE p.key \in Goods ->
              /\ sheet' = IF p.home = "open" THEN [Freed(p) EXCEPT !.added = @ \cup {p.good}] ELSE sheet
              /\ posts' = posts \ {p}
              /\ UNCHANGED <<asks, cams, probes>>
         [] p.key = "found" ->
              /\ IF p.home = "open"
                 THEN /\ sheet' = LookupGone(sheet) /\ probes' = Aborted(probes)
                      /\ posts' = Unmounted({"found"}) \ {[p EXCEPT !.there = FALSE]}
                 ELSE UNCHANGED <<sheet, probes>> /\ posts' = posts \ {p}
              /\ UNCHANGED <<asks, cams>>
         [] p.key = "manual" ->
              IF p.home = "gone" \/ sheet = None THEN posts' = posts \ {p} /\ UNCHANGED <<sheet, asks, cams, probes>>
              ELSE Gone("closed", posts \ {p})
    /\ UNCHANGED <<stock, connected, acts, lost>>

\* No answer: "This change needs a connection".
PostLost(p) ==
    /\ (~connected /\ UNCHANGED lost) \/ (connected /\ Lost)
    /\ sheet' = Freed(p) /\ posts' = posts \ {p}
    /\ UNCHANGED <<asks, cams, probes, stock, connected, acts>>

NetworkLost ==
    /\ connected /\ Lost /\ connected' = FALSE
    /\ sheet' = IF sheet = None THEN None ELSE Searching(sheet, sheet.query, FALSE)
    /\ asks' = Aborted(asks) /\ posts' = Unmounted(Goods)
    /\ UNCHANGED <<cams, probes, stock, acts>>
NetworkBack ==
    /\ ~connected /\ connected' = TRUE
    /\ sheet' = IF sheet = None THEN None ELSE Searching(sheet, sheet.query, TRUE)
    /\ UNCHANGED <<asks, cams, probes, posts, stock, acts, lost>>

(***************************************************************************)
(* Specification.                                                          *)
(***************************************************************************)
AddInit ==
    /\ sheet = None /\ asks = {} /\ cams = <<>> /\ probes = {} /\ posts = {}
    /\ stock \in [Goods -> {0, 1}] /\ connected = TRUE /\ acts = 0 /\ lost = 0

AddNext ==
    \/ OpenSheet \/ CloseSheet \/ Pause \/ Scan \/ LeaveScanner \/ CloseLookup \/ ScanAnother \/ AddManually
    \/ OpenItem \/ AddFound \/ FormByHand \/ BackFromManual \/ NetworkLost \/ NetworkBack
    \/ \E q \in Queries \cup {None} : TypeQuery(q)
    \/ \E a \in asks : SearchAnswered(a) \/ SearchFailed(a)
    \/ \E c \in DOMAIN cams : Granted(c) \/ Started(c) \/ NextFrame(c) \/ NothingRead(c) \/ NoCamera(c)
    \/ \E c \in DOMAIN cams, code \in Codes : Read(c, code)
    \/ \E code \in Codes : TypeCode(code)
    \/ \E b \in probes : ServeProbe(b) \/ ProbeAnswered(b) \/ ProbeFailed(b)
    \/ \E g \in Goods : AddResult(g) \/ SubmitManual(g)
    \/ \E p \in posts : ServePost(p) \/ PostAnswered(p) \/ PostLost(p)

AddSpec == AddInit /\ [][AddNext]_addVars

(***************************************************************************)
(* Properties.                                                             *)
(***************************************************************************)
\* The camera is on only while its own window is open: whenever the browser grants it, and however the window closed -
\* a code read, Close, a failure, or the sheet gone under it (Scanner.tsx, "Every exit stops the stream's tracks").
CameraOff == \A c \in DOMAIN cams : cams[c].stream => WindowOpen(c)

\* A code read in a frame taken before the camera closed is not looked up: only the open window reads.
NoLateRead ==
    [][\A c \in DOMAIN cams :
          cams[c].phase = "reading" /\ sheet # None /\ sheet' # None /\ cams'[c].phase = "off"
              /\ sheet'.lookup # sheet.lookup => WindowOpen(c)]_addVars

\* With nothing asked and no pause running, the results are those of the words in the box, and "Searching..." is gone:
\* however answers of older words, failures and lost connections fell in between (AddSheet.tsx, the aborted search).
ResultsOfQuery ==
    sheet # None /\ Shown # "idle" /\ ~sheet.timer /\ (\A a \in asks : a.aborted)
        => Shown # "loading" /\ sheet.search.q = sheet.query

(***************************************************************************)
(* What one would expect and the model refutes.                            *)
(***************************************************************************)
\* "offline or a network failure changes nothing" (onlineAction.ts): the answer is lost, the button is there again, and
\* a product without a barcode is in the pantry twice.  A row drawn anew while its POST is under way does the same.
AddedOnce == \A g \in Goods : stock[g] <= 1

\* A camera that was closed says nothing more: one whose decoder dies after Close closes the next one.
ClosedStaysClosed ==
    [][\A c \in DOMAIN cams : cams[c].phase = "reading" /\ ~cams[c].live /\ cams'[c].phase = "off"
            => sheet' = sheet]_addVars

\* An answer closes the sheet it was asked from: a late one closes the sheet of the next barcode.
ClosesItsOwn ==
    [][\A p \in posts \ posts' : p.key = "found" /\ sheet # None /\ sheet.lookup # None /\ sheet' # sheet
            => GoodOf[sheet.lookup] = p.good]_addVars
=============================================================================
