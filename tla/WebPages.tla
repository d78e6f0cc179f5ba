-------------------------------- MODULE WebPages -------------------------------
(*****************************************************************************)
(* One visit to one page of the web client (WebScreens), against an API      *)
(* whose rows others change too.  Every await of a handler and of a load is  *)
(* a place where anything else may happen: a silent refresh replaces the     *)
(* access token and runs the effect again, the user clicks another button,   *)
(* a request or its answer is lost.                                          *)
(*                                                                           *)
(* A dialog is modal: no other click while it is open.  An identity that was *)
(* seen is not given to another row.  At most MaxCalls requests of the user  *)
(* and MaxLoads loads are under way; further clicks come later.              *)
(*****************************************************************************)
EXTENDS WebScreens, Naturals, Sequences, FiniteSets, SequencesExt

CONSTANTS Pages, Lists, Rows, NoRow, MaxCalls, MaxLoads

ASSUME NoRowAssumption == NoRow \notin Rows
ASSUME PagesAssumption == Pages \subseteq DOMAIN PageOf
ASSUME BoundAssumption == MaxCalls \in Nat \ {0} /\ MaxLoads \in Nat \ {0}

VARIABLES page,       \* the page that is open
          db,         \* row -> its status and data in the API
          view,       \* row -> the copies of it on the page
          loads,      \* the fetches of the page under way
          isLoading, loadError,
          busy,       \* busy flag -> the row it was set for, or NoRow
          calls,      \* the requests of handlers under way
          dialog,     \* the handler and row a dialog asks about, or nothing
          editor,     \* the row whose editor is open
          done,       \* the page noted that the review, or the draft, exists
          excused,    \* rows changed where the page could not learn of it
          contested   \* history: busy flags under which requests for two rows met

vars == <<page, db, view, loads, isLoading, loadError, busy, calls, dialog, editor,
          done, excused, contested>>
screenVars == <<view, loads, isLoading, loadError>>
userVars == <<busy, calls, dialog, editor, done>>

Here == PageOf[page]
Buttons == Here.screen.buttons
Handlers == {b.handler : b \in Buttons}
Flags == {h.flag : h \in Handlers}
Statuses == OrderStatus \cup BookingStatus \cup UserStatus \cup ReviewStatus
            \cup CatalogStatus \cup BatchStatus \cup ListingStatus
Stored == [st : Statuses, tag : BOOLEAN]
Absent == [st |-> "ABSENT", tag |-> FALSE]
NoSnap == [k \in Rows |-> Absent]
NewLoad == [read |-> FALSE, snap |-> NoSnap]

\* What the page holds of a row it was answered.
Copy(row, whole) == [st |-> Shown(row.st), tag |-> row.tag, whole |-> whole]
Showing(rows) == [k \in Rows |-> IF rows[k].st = "ABSENT" THEN <<>>
                                 ELSE <<Copy(rows[k], TRUE)>>]

\* Only the pages in Lists are checked with all of the rows.
OnlyRow == CHOOSE k \in Rows : TRUE
InPlay == IF page \in Lists THEN Rows ELSE {OnlyRow}

Init ==
    /\ page \in Pages
    /\ db \in [Rows -> {[st |-> s, tag |-> FALSE] : s \in Here.start \cup {"ABSENT"}}]
    /\ \A k \in Rows : db[k].st \in (IF k \in InPlay THEN Here.start ELSE {"ABSENT"})
    /\ view = [k \in Rows |-> <<>>]
    /\ loads = <<NewLoad>>
    /\ isLoading = TRUE /\ loadError = FALSE
    /\ busy = [f \in Flags |-> NoRow]
    /\ calls = <<>> /\ dialog = {} /\ editor = NoRow
    /\ done = FALSE
    /\ excused = {}
    /\ contested = {}

-------------------------------------------------------------------------------
(* Loading *)

\* The cleanup of an effect voids the load of its last run.
Surviving_All == loads
Surviving == IF Here.load.guarded THEN <<>> ELSE loads

StartLoad(older) ==
    /\ loads' = Append(older, NewLoad)
    /\ isLoading' = (isLoading \/ "isLoading" \in Here.load.resets)
    /\ loadError' = (loadError /\ "loadError" \notin Here.load.resets)

\* A new access token, about every quarter of an hour, runs the effect again.
Refresh ==
    /\ Len(Surviving) < MaxLoads
    /\ StartLoad(Surviving)
    /\ UNCHANGED <<page, excused, db, view, userVars>>

\* What the page cannot know: a request of its own executed while a load that read
\* before, or reads before the answer, is under way, or another request for the row.
Racing(requests, fetches) ==
    IF \E i \in DOMAIN fetches : fetches[i].read
    THEN {requests[j].row : j \in {n \in DOMAIN requests : requests[n].phase = "accepted"}}
    ELSE {}
OlderRead(i) == ~Here.load.guarded /\ \E j \in DOMAIN loads \ {i} : loads[j].read

ReadLoad(i) ==
    /\ ~loads[i].read
    /\ loads' = [loads EXCEPT ![i] = [read |-> TRUE, snap |-> db]]
    /\ excused' = (IF OlderRead(i) THEN excused ELSE {}) \cup Racing(calls, loads')
    /\ UNCHANGED <<page, db, view, isLoading, loadError, userVars>>

AnswerLoad(i) ==
    /\ loads[i].read
    /\ view' = Showing(loads[i].snap)
    /\ loads' = RemoveAt(loads, i)
    /\ isLoading' = FALSE
    /\ UNCHANGED <<page, excused, db, loadError, userVars>>

\* No answer, or an error: the finally clause runs all the same.
FailLoad_KeepsSpinner(i) ==
    /\ loads' = RemoveAt(loads, i)
    /\ loadError' = TRUE
    /\ UNCHANGED <<page, excused, db, view, isLoading, userVars>>
FailLoad(i) ==
    /\ loads' = RemoveAt(loads, i)
    /\ loadError' = TRUE
    /\ isLoading' = FALSE
    /\ UNCHANGED <<page, excused, db, view, userVars>>

-------------------------------------------------------------------------------
(* Clicking *)

Visible == ~(\/ isLoading /\ "isLoading" \in Here.screen.hides
             \/ loadError /\ "loadError" \in Here.screen.hides)

Enabled_Always(h, k) == TRUE
Enabled(h, k) == IF h.keyed THEN busy[h.flag] # k ELSE busy[h.flag] = NoRow

\* A row nobody has seen: its identity is new.
Fresh(k) == /\ k \in InPlay /\ db[k].st = "ABSENT" /\ view[k] = <<>> /\ editor # k
            /\ \A i \in DOMAIN loads : loads[i].snap[k].st = "ABSENT"
            /\ \A i \in DOMAIN calls : calls[i].row # k
            /\ \A d \in dialog : d.row # k

\* The statuses in which the user sees the row of a button: those of its copies on the
\* page.  A form makes a row that is ABSENT, and the editor panel stays open although a
\* load left its row out.
InPanel(b) == b.handler.editor /\ Here.screen.panel
Offered(b, k) ==
    IF "ABSENT" \in b.statuses THEN Fresh(k)
    ELSE (b.handler.editor <=> editor = k) /\ (Visible \/ InPanel(b))
SeenBy(b, k) ==
    IF ~Offered(b, k) THEN {}
    ELSE IF "ABSENT" \in b.statuses \/ (InPanel(b) /\ view[k] = <<>>) THEN {"ABSENT"}
    ELSE {view[k][i].st : i \in DOMAIN view[k]} \cap b.statuses

Send(h, k, seen) ==
    /\ calls' = Append(calls, [handler |-> h, row |-> k, seen |-> seen,
                               phase |-> "sent", got |-> Absent])
    /\ busy' = [busy EXCEPT ![h.flag] = k]

Click(b, k) ==
    LET h == b.handler IN
    /\ dialog = {} /\ Len(calls) < MaxCalls
    /\ Enabled(h, k)
    /\ ~(h.then = "mark" /\ done)
    /\ \E seen \in SeenBy(b, k) :
          IF h.asks THEN /\ dialog' = {[handler |-> h, row |-> k, seen |-> seen]}
                         /\ UNCHANGED <<busy, calls>>
          ELSE Send(h, k, seen) /\ UNCHANGED dialog
    /\ UNCHANGED <<page, excused, db, screenVars, editor, done>>

\* The dialog's promise: the handler goes on with the row it was called for.
Confirm_StaysOpen(d) ==
    /\ Send(d.handler, d.row, d.seen)
    /\ UNCHANGED <<page, excused, db, screenVars, dialog, editor, done>>
Confirm(d) ==
    /\ Send(d.handler, d.row, d.seen)
    /\ dialog' = {}
    /\ UNCHANGED <<page, excused, db, screenVars, editor, done>>

Dismiss ==
    /\ dialog # {}
    /\ dialog' = {}
    /\ UNCHANGED <<page, excused, db, screenVars, busy, calls, editor, done>>

StartEditing(k) ==
    /\ dialog = {} /\ Visible /\ view[k] # <<>> /\ editor # k
    /\ \E h \in Handlers : h.editor
    /\ editor' = k
    /\ UNCHANGED <<page, excused, db, screenVars, busy, calls, dialog, done>>

StopEditing ==
    /\ dialog = {} /\ editor # NoRow /\ ~Here.screen.panel
    /\ editor' = NoRow
    /\ UNCHANGED <<page, excused, db, screenVars, busy, calls, dialog, done>>

-------------------------------------------------------------------------------
(* The API *)

Accepts(call, k) == db[k].st \in DOMAIN call.moves
After(call, k) == IF call.moves[db[k].st] = "ABSENT" THEN Absent
                  ELSE [st |-> call.moves[db[k].st], tag |-> db[k].tag # call.edits]

Serve(i) ==
    LET c == calls[i] IN
    /\ c.phase = "sent"
    /\ \/ /\ Accepts(c.handler.call, c.row)
          /\ db' = [db EXCEPT ![c.row] = After(c.handler.call, c.row)]
          /\ calls' = [calls EXCEPT ![i] = [c EXCEPT !.phase = "accepted",
                                            !.got = After(c.handler.call, c.row)]]
       \/ /\ Accepts(c.handler.call, c.row) => c.handler.call.unseen
          /\ calls' = [calls EXCEPT ![i] = [c EXCEPT !.phase = "refused", !.got = db[c.row]]]
          /\ UNCHANGED db
    /\ excused' = excused \cup Racing(calls', loads)
                  \cup ({calls[j].row : j \in DOMAIN calls \ {i}} \cap {c.row})
    /\ UNCHANGED <<page, screenVars, busy, dialog, editor, done>>

\* Somebody else, or the same user in another tab.
Elsewhere(k) ==
    /\ \E e \in Here.others :
          /\ Accepts(e, k)
          /\ db[k].st = "ABSENT" => Fresh(k)
          /\ db' = [db EXCEPT ![k] = After(e, k)]
    /\ excused' = excused \cup {k}
    /\ UNCHANGED <<page, screenVars, userVars>>

-------------------------------------------------------------------------------
(* Answers *)

\* The finally clause clears the flag, whichever row it stands for by then.
Settle(i) ==
    /\ calls' = RemoveAt(calls, i)
    /\ busy' = [busy EXCEPT ![calls[i].handler.flag] = NoRow]

\* The copies in the list of one status.
InList(copies, st) ==
    LET kept[n \in 0..Len(copies)] ==
            IF n = 0 THEN <<>>
            ELSE IF copies[n].st = st THEN Append(kept[n - 1], copies[n]) ELSE kept[n - 1]
    IN  kept[Len(copies)]

\* What the success branch makes of the copies of its row.
Shows(h, old, got) ==
    LET new == Copy(got, ~h.call.bare) IN
    CASE h.then = "replace" -> [i \in DOMAIN old |-> new]
      [] h.then = "merge" -> [i \in DOMAIN old |-> [new EXCEPT !.whole = old[i].whole \/ @]]
      [] h.then = "remove" -> <<>>
      [] h.then = "add" -> Append(old, new)
      [] h.then = "move" -> Append(InList(old, new.st), new)
      [] h.then = "note" -> [i \in DOMAIN old |-> [old[i] EXCEPT !.tag = ~@]]
      [] OTHER -> old

Succeed(i) ==
    LET h == calls[i].handler
        k == calls[i].row IN
    /\ calls[i].phase = "accepted"
    /\ view' = [view EXCEPT ![k] = Shows(h, @, calls[i].got)]
    /\ IF h.then = "reload" THEN Len(loads) < MaxLoads /\ StartLoad(loads)
       ELSE UNCHANGED <<loads, isLoading, loadError>>
    /\ done' = (done \/ h.then = "mark")
    /\ editor' = CASE Here.screen.panel -> k
                   [] h.editor -> NoRow
                   [] OTHER -> editor
    /\ Settle(i)
    /\ UNCHANGED <<page, excused, db, dialog>>

\* The error branch: refused, or the request or its answer was lost.
Fail(i) ==
    LET c == calls[i] IN
    /\ done' = CASE c.phase # "refused" -> done
                 [] c.handler = HandleSetTerms /\ c.got.st = "LISTED" -> TRUE
                 [] c.handler = HandleConfirmHarvest /\ c.got.st = "GROWN" -> FALSE
                 [] OTHER -> done
    /\ excused' = IF c.phase = "accepted" THEN excused \cup {c.row} ELSE excused
    /\ Settle(i)
    /\ UNCHANGED <<page, db, screenVars, dialog, editor>>

-------------------------------------------------------------------------------
Step ==
    \/ Refresh
    \/ \E i \in DOMAIN loads : ReadLoad(i) \/ AnswerLoad(i) \/ FailLoad(i)
    \/ \E b \in Buttons, k \in Rows : Click(b, k)
    \/ \E d \in dialog : Confirm(d)
    \/ Dismiss
    \/ \E k \in Rows : StartEditing(k)
    \/ StopEditing
    \/ \E i \in DOMAIN calls : Serve(i) \/ Succeed(i) \/ Fail(i)
    \/ \E k \in Rows : Elsewhere(k)

\* History: a flag that holds a row's id was taken over by another row's request.
Meeting(requests) ==
    {f \in Flags : \E i, j \in DOMAIN requests :
        /\ requests[i].handler.flag = f /\ requests[j].handler.flag = f
        /\ requests[i].row # requests[j].row}
Observe == contested' = contested \cup Meeting(calls')

Next == Step /\ Observe
Spec == Init /\ [][Next]_vars

-------------------------------------------------------------------------------
(* Properties *)

TypeOK ==
    /\ page \in Pages
    /\ db \in [Rows -> Stored]
    /\ \A k \in Rows : \A i \in DOMAIN view[k] :
           view[k][i] \in [st : Statuses, tag : BOOLEAN, whole : BOOLEAN]
    /\ Len(loads) <= MaxLoads /\ Len(calls) <= MaxCalls
    /\ \A i \in DOMAIN calls : calls[i].handler \in Handlers /\ calls[i].row \in Rows
    /\ isLoading \in BOOLEAN /\ loadError \in BOOLEAN /\ done \in BOOLEAN
    /\ busy \in [Flags -> Rows \cup {NoRow}] /\ editor \in Rows \cup {NoRow}
    /\ excused \subseteq Rows /\ contested \subseteq Flags

\* Once nothing is under way, the page shows every row exactly once and as it is stored,
\* unless somebody else changed it, an answer was lost, or a request and a load crossed,
\* after the page read it last: no answer of a superseded load and no forgotten update of
\* a handler is left on the page.
ShownIsStored ==
    loads = <<>> /\ calls = <<>> /\ ~loadError =>
        \A k \in Rows \ excused :
            IF db[k].st = "ABSENT" THEN view[k] = <<>>
            ELSE /\ Len(view[k]) = 1
                 /\ view[k][1].st = Shown(db[k].st) /\ view[k][1].tag = db[k].tag

\* A button never has two requests under way, whatever dialogs and refreshes come between.
\* Only a flag that holds a row's id can fail to stop the second, and only once requests
\* for two rows met under it: the later row took the flag over, or the earlier answer
\* cleared it.
NoDoubleSubmit ==
    \A i, j \in DOMAIN calls :
        i # j /\ calls[i].handler.flag = calls[j].handler.flag =>
            calls[i].handler.keyed /\ calls[i].handler.flag \in contested

\* Two forms offer more than the API takes: "Close listing" stays in the panel of a closed
\* listing, and the administrator's override has every status to choose from, whichever
\* the order shows.
OffersMore(call, seen) ==
    \/ call = CloseListing /\ seen = "CLOSED"
    \/ call = CancelOverride /\ seen = "CANCELLED"
    \/ call = DisputeOrder("PLACED")

\* A request is refused only if its row changed after the user saw it, or for a reason
\* the page does not show: but for the two forms, the pages offer what the API accepts, and
\* lib/orders.ts, lib/orders-admin.ts and lib/prebookings.ts mirror its status sets.
RefusedOnlyIfOvertaken ==
    \A i \in DOMAIN calls : calls[i].phase = "refused" =>
        LET c == calls[i] IN
        \/ c.handler.call.unseen
        \/ Shown(c.got.st) # c.seen
        \/ OffersMore(c.handler.call, c.seen)

\* A step takes no relation that the page renders from a row, whatever the answers leave
\* out; only the answer that adds a new listing brings a row without them.
KeepsRelations ==
    \A k \in Rows : \A i \in DOMAIN view'[k] :
        \/ view'[k][i].whole
        \/ i \in DOMAIN view[k] /\ ~view[k][i].whole
        \/ /\ i = Len(view[k]) + 1
           /\ \E n \in DOMAIN calls : calls[n].row = k /\ calls[n].handler = HandleCreateListing

\* Rows keep their relations on every page but the list of bookings, where the answer to a
\* cancel, which has no batch, takes the place of the row.
RelationsKept == [][page # "bookings" => KeepsRelations]_vars

\* Nothing turns for ever: behind a spinner is a load, behind a busy flag a request.
NothingStuck ==
    /\ isLoading => loads # <<>>
    /\ \A f \in Flags : busy[f] # NoRow =>
           \E i \in DOMAIN calls : calls[i].handler.flag = f
=============================================================================
