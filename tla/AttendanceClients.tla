-------------------------- MODULE AttendanceClients --------------------------
(***************************************************************************)
(* The two clients that mark attendance, composed with the server: the     *)
(* teacher's device, which queues what it cannot send and flushes the      *)
(* queue later, and the attendance page of a desktop browser.              *)
(*                                                                         *)
(* Each await of the client code ends a step. A client stops waiting when  *)
(* its request times out or the network breaks: the request may be lost or *)
(* may still be served.                                                    *)
(***************************************************************************)
EXTENDS Attendance

VARIABLES online,   \* the device has a network
          cached,   \* cached[s]: the roster the service worker has of s
          panel,    \* the roster panel of the device
          queue,    \* the marks queued on the device
          flush,    \* the flush of the queue
          told,     \* keys the teacher was told are synced or saved
          page,     \* the attendance page: session, sheet, unsaved edits
          loads     \* sessions whose roster the page waits for

deviceVars == <<online, cached, panel, queue, flush, told>>
pageVars == <<page, loads>>
vars == <<serverVars, post, events, deviceVars, pageVars>>

NoRoster == {"not cached"}
Closed == [open |-> FALSE]
Resting == [step |-> "rest"]
Empty == [l \in {} |-> "P"]
NoSheet == [of |-> "nothing", records |-> Empty]
NoPage == [selected |-> "nothing", sheet |-> NoSheet, dirty |-> FALSE]

ClientTypeOK ==
    /\ online \in BOOLEAN
    /\ cached \in [Sessions -> (SUBSET Learners) \cup {NoRoster}]
    /\ panel \in [open : {TRUE}, session : Sessions, seen : SUBSET Learners] \cup {Closed}
    /\ queue \in Files
    /\ flush \in [step : {"next", "wait"}, rows : Files] \cup {Resting}
    /\ told \subseteq Key
    /\ page.selected \in Sessions \cup {"nothing"} /\ page.dirty \in BOOLEAN
    /\ loads \subseteq Sessions

TypeOK == AttendanceTypeOK /\ ClientTypeOK

Init ==
    /\ AttendanceInit
    /\ online = TRUE
    /\ cached = [s \in Sessions |-> NoRoster]
    /\ panel = Closed
    /\ queue = NoFile
    /\ flush = Resting
    /\ told = {}
    /\ page = NoPage /\ loads = {}

-----------------------------------------------------------------------------
(* The queue: rows keyed by session and learner.                           *)

Keys(s, records) == {s} \X DOMAIN records

\* enqueueMarks: a re-mark replaces the row of its key.
Enqueued(s, records) ==
    [k \in DOMAIN queue \cup Keys(s, records) |-> IF k \in Keys(s, records) THEN records[k[2]] ELSE queue[k]]

Without(rows, keys) == [k \in DOMAIN rows \ keys |-> rows[k]]

\* groupBySchedule
Queued(rows) == {k[1] : k \in DOMAIN rows}
Group(rows, s) == {k \in DOMAIN rows : k[1] = s}
Records(rows, s) == [l \in {k[2] : k \in Group(rows, s)} |-> rows[<<s, l>>]]

-----------------------------------------------------------------------------
(* The roster panel of the device.                                         *)

GoOffline ==
    /\ online /\ Event
    /\ online' = FALSE
    /\ UNCHANGED <<serverVars, post, cached, panel, queue, flush, told, pageVars>>

\* A new flush is of the whole queue; with nothing queued it ends at once.
Started(connected) == IF connected /\ queue # NoFile THEN [step |-> "next", rows |-> queue] ELSE Resting

\* The return of the network starts a flush, unless one is under way.
GoOnline ==
    /\ ~online
    /\ online' = TRUE
    /\ flush' = IF flush = Resting THEN Started(TRUE) ELSE flush
    /\ UNCHANGED <<serverVars, post, events, cached, panel, queue, told, pageVars>>

\* staleWhileRevalidate: the cached roster is shown, a new one is kept for later.
OpenPanel ==
    /\ panel = Closed /\ Event
    /\ \E s \in Known :
          LET seen == IF cached[s] # NoRoster THEN cached[s] ELSE roster[s] IN
          /\ online \/ cached[s] # NoRoster
          /\ seen # {}
          /\ panel' = [open |-> TRUE, session |-> s, seen |-> seen]
          /\ cached' = IF online THEN [cached EXCEPT ![s] = roster[s]] ELSE cached
    /\ UNCHANGED <<serverVars, post, online, queue, flush, told, pageVars>>

SubmitOnline(r) ==
    /\ panel.open /\ online
    /\ \E records \in Sheets(panel.seen) : Send(r, "panel", panel.session, records)
    /\ panel' = Closed
    /\ UNCHANGED <<serverVars, events, online, cached, queue, flush, told, pageVars>>

SubmitOffline ==
    /\ panel.open /\ ~online
    /\ \E records \in Sheets(panel.seen) :
          /\ queue' = Enqueued(panel.session, records)
          /\ told' = told \cup Keys(panel.session, records)
    /\ panel' = Closed
    /\ UNCHANGED <<serverVars, post, events, online, cached, flush, pageVars>>

-----------------------------------------------------------------------------
(* The flush: one at a time, one request per session in the queue.         *)

\* The background sync or the teacher starts it. Nothing else does while the
\* app stays open and online: no timer, and no failure of an earlier flush.
StartFlush ==
    /\ flush = Resting /\ online
    /\ queue # NoFile
    /\ flush' = Started(online)
    /\ UNCHANGED <<serverVars, post, events, online, cached, panel, queue, told, pageVars>>

FlushGroup(r) ==
    /\ flush.step = "next"
    /\ \E s \in Queued(flush.rows) : Send(r, "flush", s, Records(flush.rows, s))
    /\ flush' = [flush EXCEPT !.step = "wait"]
    /\ UNCHANGED <<serverVars, events, online, cached, panel, queue, told, pageVars>>

\* Mutant: the first failure ends the flush.
StopAtFailure(s, outcome) ==
    IF outcome = "failed" \/ Queued(flush.rows) = {s} THEN Resting
    ELSE [step |-> "next", rows |-> Without(flush.rows, Group(flush.rows, s))]

\* The next session of the queue, whatever became of this one.
AfterGroup(s, outcome) ==
    IF Queued(flush.rows) = {s} THEN Resting
    ELSE [step |-> "next", rows |-> Without(flush.rows, Group(flush.rows, s))]

\* Mutant: the rows are removed before the answer is looked at.
Attempted(s, records, outcome) == Without(queue, Keys(s, records))

\* removeKeys drops the keys of the group, if the server accepted it.
Accepted(s, records, outcome) ==
    IF outcome = "ok" THEN Without(queue, Keys(s, records)) ELSE queue

-----------------------------------------------------------------------------
(* The attendance page.                                                    *)

\* Choosing another session drops the sheet, edited or not.
SelectSchedule ==
    /\ Event
    /\ \E s \in Known \ {page.selected} :
          /\ page' = [NoPage EXCEPT !.selected = s]
          /\ loads' = loads \cup {s}
    /\ UNCHANGED <<serverVars, post, deviceVars>>

\* The sheet of a session: what is marked, P for the others.
Sheet(s) == [l \in roster[s] |-> IF <<s, l>> \in Marked THEN mark[<<s, l>>].status ELSE "P"]

\* Mutant: the answer fills the sheet of whatever is selected.
SheetOnly(s) == [page EXCEPT !.sheet = [of |-> s, records |-> Sheet(s)]]

\* The answer brings its session along, whatever was selected meanwhile.
Loaded(s) == [page EXCEPT !.selected = s, !.sheet = [of |-> s, records |-> Sheet(s)]]

LoadRoster(s) ==
    /\ s \in loads
    /\ loads' = loads \ {s}
    /\ page' = Loaded(s)
    /\ UNCHANGED <<serverVars, post, events, deviceVars>>

LoadFails(s) ==
    /\ s \in loads /\ Event
    /\ loads' = loads \ {s}
    /\ UNCHANGED <<serverVars, post, deviceVars, page>>

UpdateRecord ==
    /\ DOMAIN page.sheet.records # {} /\ Event
    /\ \E records \in Sheets(DOMAIN page.sheet.records) :
          page' = [page EXCEPT !.sheet.records = records, !.dirty = TRUE]
    /\ UNCHANGED <<serverVars, post, deviceVars, loads>>

\* The button waits for the previous save.
HandleSubmit(r) ==
    /\ page.selected # "nothing" /\ DOMAIN page.sheet.records # {}
    /\ \A q \in Slots : post[q] # Idle => post[q].for # "page"
    /\ Event
    /\ Send(r, "page", page.selected, page.sheet.records)
    /\ UNCHANGED <<serverVars, deviceVars, pageVars>>

DoClose ==
    /\ page.selected # "nothing"
    /\ page' = NoPage
    /\ UNCHANGED <<serverVars, post, events, deviceVars, loads>>

-----------------------------------------------------------------------------
(* Answers.                                                                *)

\* What the client of request r does with its outcome.
Handle(r, outcome) ==
    LET s == post[r].session
        records == post[r].records
    IN  CASE post[r].for = "flush" ->
               /\ queue' = Accepted(s, records, outcome)
               /\ flush' = AfterGroup(s, outcome)
               /\ UNCHANGED <<told, page>>
          [] post[r].for = "panel" ->
               /\ queue' = IF outcome = "ok" THEN queue ELSE Enqueued(s, records)
               /\ told' = told \cup Keys(s, records)
               /\ UNCHANGED <<flush, page>>
          [] post[r].for = "page" ->
               /\ page' = [page EXCEPT !.dirty = @ /\ outcome # "ok"]
               /\ UNCHANGED <<queue, flush, told>>

GetAnswer(r) ==
    /\ post[r].step \in {"ok", "failed"}
    /\ online \/ post[r].for = "page"
    /\ Handle(r, post[r].step)
    /\ post' = [post EXCEPT ![r] = Idle]
    /\ UNCHANGED <<serverVars, events, online, cached, panel, loads>>

\* The client stops waiting. The server may not have seen the request; if it
\* has, it goes on, and its answer is lost.
GiveUp(r) ==
    /\ post[r] # Idle /\ post[r].for # "nobody"
    /\ IF online THEN Event ELSE post[r].for # "page" /\ UNCHANGED events
    /\ Handle(r, "failed")
    /\ post' \in {[post EXCEPT ![r] = x] :
          x \in IF post[r].step \in {"ok", "failed"} THEN {Idle}
                ELSE {[post[r] EXCEPT !.for = "nobody"]} \cup (IF post[r].step = "sent" THEN {Idle} ELSE {})}
    /\ UNCHANGED <<serverVars, online, cached, panel, loads>>

\* The app is closed and opened again: the queue and the cache survive, and an
\* online device begins with a flush.
RestartApp ==
    /\ Event
    /\ panel' = Closed /\ flush' = Started(online)
    /\ post' = [r \in Slots |->
          IF post[r] = Idle \/ post[r].for \notin {"flush", "panel"} THEN post[r]
          ELSE IF post[r].step \in {"ok", "failed"} THEN Idle
          ELSE [post[r] EXCEPT !.for = "nobody"]]
    /\ UNCHANGED <<serverVars, online, cached, queue, told, pageVars>>

-----------------------------------------------------------------------------
Device ==
    \/ GoOffline \/ GoOnline \/ OpenPanel \/ SubmitOffline \/ StartFlush \/ RestartApp
    \/ \E r \in Slots : SubmitOnline(r) \/ FlushGroup(r)

Page ==
    \/ SelectSchedule \/ UpdateRecord \/ DoClose
    \/ \E s \in Sessions : LoadRoster(s) \/ LoadFails(s)
    \/ \E r \in Slots : HandleSubmit(r)

Next ==
    \/ ServerNext /\ UNCHANGED <<deviceVars, pageVars>>
    \/ Device
    \/ Page
    \/ \E r \in Slots : GetAnswer(r) \/ GiveUp(r)

\* The server serves what it has begun, answers are handled and a flush that has
\* begun goes on. Nobody need begin one, and the network need not come back.
Fairness ==
    /\ \A r \in Slots : /\ WF_vars(BulkMark(r) /\ UNCHANGED <<deviceVars, pageVars>>)
                        /\ WF_vars(UpsertMark(r) /\ UNCHANGED <<deviceVars, pageVars>>)
                        /\ WF_vars(BumpUsersLastActive(r) /\ UNCHANGED <<deviceVars, pageVars>>)
                        /\ WF_vars(GetAnswer(r))
    /\ WF_vars(\E r \in Slots : FlushGroup(r))

Spec == Init /\ [][Next]_vars /\ Fairness

-----------------------------------------------------------------------------
(* Properties.                                                             *)

\* What the device told its teacher is synced or saved is on the server or in
\* the queue, through time-outs, lost answers, restarts of the app, refusals and
\* re-marks that meet a flush (useOfflineAttendance.js:42-47).
SubmittedIsKept == told \subseteq Marked \cup DOMAIN queue

\* The sheet on the attendance page is that of the selected session, however
\* late the answers to earlier clicks arrive (handleSelectSchedule): the page
\* never saves the roster of one session to another.
SheetMatchesSession == page.sheet # NoSheet => page.selected = page.sheet.of

Acceptable(s) == s \notin refused /\ {k[2] : k \in Group(queue, s)} \subseteq roster[s]

\* As long as flushes keep being begun while something is queued, a session
\* stays queued only if the server refuses it: neither a session it refuses nor
\* an interrupted flush keeps the others from being synced
\* (useOfflineAttendance.js:47: "a later flush retries it").
QueueDrains ==
    []<>(queue = NoFile \/ flush.step = "next") =>
        \A s \in Sessions : <>[](s \in Queued(queue) => ~Acceptable(s))

\* The same with nothing but the network coming back. Not so: a group whose POST
\* fails while the device stays online waits for the next mount, reconnection,
\* background sync or press of the button.
DrainsByItself ==
    []<>online => \A s \in Sessions : <>[](s \in Queued(queue) => ~Acceptable(s))

\* "Only drop what the server accepted" (useOfflineAttendance.js:45). Not so:
\* the keys are removed after the await, a mark queued under them meanwhile too.
DropsOnlyAccepted ==
    [][\A k \in DOMAIN queue : k \notin DOMAIN queue' =>
          \E r \in Slots : post[r] # Idle /\ post[r].session = k[1] /\ post[r].records[k[2]] = queue[k]]_vars

\* The last write wins (attendance spec.md:74): a mark the server has accepted
\* from the panel supersedes what the device queued before. Not so: the older
\* marks stay queued and overwrite it at the next flush.
LastWriteWins ==
    [][\A r \in Slots : GetAnswer(r) /\ post[r].step = "ok" /\ post[r].for = "panel"
          => Keys(post[r].session, post[r].records) \cap DOMAIN queue' = {}]_vars

\* The page shows the session that was chosen last. Not so: a late answer brings
\* back its own session, and reopens a page that was closed.
ShowsWhatWasChosen ==
    [][page.selected' # page.selected => page'.sheet = NoSheet]_vars

\* Edits that are neither saved nor discarded by their author are not lost
\* without the question requestClose asks. Not so: choosing another session, a
\* late answer and a save that ends after a further edit all drop them or their
\* mark.
EditsAreGuarded ==
    [][page.dirty => page'.dirty \/ page' = NoPage
          \/ \E r \in Slots : post[r] # Idle /\ post[r].for = "page" /\ post[r].records = page.sheet.records]_vars
=============================================================================
