----------------------------- MODULE Attendance -----------------------------
(***************************************************************************)
(* Attendance on the server: the requests that mark the learners of a      *)
(* session, one upsert after the other and outside any transaction, and    *)
(* the exports that claim the pending marks of all sessions, write them to *)
(* a file and settle them. The clients that send the marking requests are  *)
(* in AttendanceClients.                                                   *)
(*                                                                         *)
(* Every statement is a step. A request whose client has given up goes on. *)
(***************************************************************************)
EXTENDS Naturals, FiniteSets

CONSTANTS Sessions,   \* sessions
          Learners,   \* users who may be on a roster
          Enrolled,   \* the first roster of each session
          Start,      \* the first start of each session, 0 before its import
          Times,      \* the start times a session may have
          Statuses,   \* the codes that are used
          Slots,      \* marking requests under way at a time
          Exports,    \* export requests, each with its batch id
          MaxEvents   \* bound on what people and failures begin

ASSUME AttendanceAssumption ==
    /\ Enrolled \in [Sessions -> SUBSET Learners]
    /\ Times \subseteq Nat \ {0}
    /\ Start \in [Sessions -> {0} \cup Times]
    /\ Statuses \subseteq {"P", "A", "L", "EL"} /\ "P" \in Statuses
    /\ "none" \notin Exports
    /\ MaxEvents \in Nat

VARIABLES roster,   \* roster[s]: schedules.enrolled_users
          start,    \* start[s]: schedules.start_time, 0 while the session does not exist
          refused,  \* sessions that are in the future, too old or have no facilitator
          gone,     \* deactivated users
          mark,     \* the attendances rows, by session and learner
          active,   \* active[l]: users.last_active_at, 0 for NULL
          post,     \* post[r]: the marking request in slot r
          export,   \* export[e]: an export, and the file it wrote
          events,   \* what people and failures have begun so far
          faulty    \* a marking request has failed half way

markVars == <<mark, active, faulty>>
serverVars == <<roster, start, refused, gone, mark, active, export, faulty>>

Key == Sessions \X Learners
Clients == {"flush", "panel", "page", "nobody"}

\* One attendances row; a row of no batch has never been claimed. Not in the
\* code: held, the start its session had for the request that marked it last,
\* 0 if it was imported.
Row == [status : Statuses, sync : {"PENDING", "EXPORTING", "EXPORTED"},
        batch : Exports \cup {"none"}, held : {0} \cup Times]
NoRow == [status |-> "unmarked"]

Known == {s \in Sessions : start[s] # 0}
Marked == {k \in Key : mark[k] # NoRow}

\* Payloads on a set of learners.
Sheets(learners) == [learners -> Statuses]

Idle == [step |-> "idle"]

\* start: that of the session, once the request has read it.
Post == [step : {"sent", "write", "bump", "ok", "failed"}, for : Clients, session : Sessions,
         records : UNION {Sheets(x) : x \in SUBSET Learners}, left : SUBSET Learners,
         start : {0} \cup Times]

Files == UNION {[x -> Statuses] : x \in SUBSET Key}
NoFile == [k \in {} |-> "P"]
Export == [step : {"new", "claim", "rows", "mark", "done", "dead"}, ids : SUBSET Key, file : Files]

AttendanceTypeOK ==
    /\ roster \in [Sessions -> SUBSET Learners]
    /\ start \in [Sessions -> {0} \cup Times]
    /\ refused \subseteq Sessions /\ gone \subseteq Learners
    /\ mark \in [Key -> Row \cup {NoRow}]
    /\ active \in [Learners -> {0} \cup Times]
    /\ post \in [Slots -> Post \cup {Idle}]
    /\ export \in [Exports -> Export]
    /\ events \in 0 .. MaxEvents /\ faulty \in BOOLEAN

AttendanceInit ==
    /\ roster = Enrolled
    /\ start = Start
    /\ refused \in SUBSET Known
    /\ gone = {}
    /\ mark = [k \in Key |-> NoRow]
    /\ active = [l \in Learners |-> 0]
    /\ post = [r \in Slots |-> Idle]
    /\ export = [e \in Exports |-> [step |-> "new", ids |-> {}, file |-> NoFile]]
    /\ events = 0 /\ faulty = FALSE

Event == events < MaxEvents /\ events' = events + 1

-----------------------------------------------------------------------------
(* Marking: bulkMark.                                                      *)

\* A client sends a request.
Send(r, client, s, records) ==
    /\ post[r] = Idle
    /\ post' = [post EXCEPT ![r] = [step |-> "sent", for |-> client, session |-> s,
                                    records |-> records, left |-> DOMAIN records, start |-> 0]]

\* The end of a request: the answer waits for a client that still listens.
Answered(r, outcome) ==
    post' = [post EXCEPT ![r] = IF @.for = "nobody" THEN Idle ELSE [@ EXCEPT !.step = outcome]]

\* The session is read; every guard and every record is checked before the
\* first write.
BulkMark(r) ==
    /\ post[r].step = "sent"
    /\ IF post[r].session \in Known \ refused /\ DOMAIN post[r].records \subseteq roster[post[r].session]
       THEN post' = [post EXCEPT ![r].step = "write", ![r].start = start[post[r].session]]
       ELSE Answered(r, "failed")
    /\ UNCHANGED <<serverVars, events>>

\* INSERT ... ON CONFLICT DO UPDATE: the export columns of a row stay.
Upserted(row, status, held) ==
    IF row = NoRow THEN [status |-> status, sync |-> "PENDING", batch |-> "none", held |-> held]
    ELSE [row EXCEPT !.status = status, !.held = held]

UpsertMark(r) ==
    /\ post[r].step = "write"
    /\ \E l \in post[r].left :
          /\ mark' = [mark EXCEPT ![<<post[r].session, l>>] = Upserted(@, post[r].records[l], post[r].start)]
          /\ post' = [post EXCEPT ![r].left = @ \ {l},
                                  ![r].step = IF post[r].left = {l} THEN "bump" ELSE "write"]
    /\ UNCHANGED <<roster, start, refused, gone, active, export, events, faulty>>

\* Mutant: the session marked last wins.
LatestStart(was, now) == now

\* GREATEST(last_active_at, $1)
Greatest(was, now) == IF was > now THEN was ELSE now

\* The start is the one read with the session.
BumpUsersLastActive(r) ==
    /\ post[r].step = "bump"
    /\ active' = [l \in Learners |->
          IF l \in DOMAIN post[r].records /\ post[r].records[l] \in {"P", "L"}
          THEN Greatest(active[l], post[r].start) ELSE active[l]]
    /\ Answered(r, "ok")
    /\ UNCHANGED <<roster, start, refused, gone, mark, export, events, faulty>>

\* Any statement may fail; those before it stay.
FailPost(r) ==
    /\ post[r].step \in {"sent", "write", "bump"}
    /\ Event
    /\ Answered(r, "failed")
    /\ faulty' = TRUE
    /\ UNCHANGED <<roster, start, refused, gone, mark, active, export>>

-----------------------------------------------------------------------------
(* Exporting: exportAttendance without includeExported.                    *)

Become(e, change) == export' = [export EXCEPT ![e] = change]

\* The scan joins the sessions, not the users.
FindPendingIds(e) ==
    LET pending == {k \in Marked : mark[k].sync = "PENDING"} IN
    /\ export[e].step = "new"
    /\ Event
    /\ pending # {}
    /\ Become(e, [export[e] EXCEPT !.step = "claim", !.ids = pending])
    /\ UNCHANGED <<roster, start, refused, gone, mark, active, post, faulty>>

\* Mutant: whatever the scan found is claimed.
StillFound(e) == export[e].ids

\* The UPDATE of claimBatch tests the status again.
Claimable(e) == {k \in export[e].ids : mark[k].sync = "PENDING"}

\* Nothing claimed is a 404.
ClaimBatch(e) ==
    /\ export[e].step = "claim"
    /\ mark' = [k \in Key |-> IF k \in Claimable(e)
                              THEN [mark[k] EXCEPT !.sync = "EXPORTING", !.batch = e] ELSE mark[k]]
    /\ Become(e, [export[e] EXCEPT !.step = IF Claimable(e) = {} THEN "done" ELSE "rows"])
    /\ UNCHANGED <<roster, start, refused, gone, active, post, events, faulty>>

Batch(e) == {k \in Marked : mark[k].batch = e}

\* The rows of the batch whose user is active, written to the response.
FindExportRows(e) ==
    /\ export[e].step = "rows"
    /\ Become(e, [export[e] EXCEPT !.step = "mark",
                     !.file = [k \in {x \in Batch(e) : x[2] \notin gone} |-> mark[k].status]])
    /\ UNCHANGED <<roster, start, refused, gone, mark, active, post, events, faulty>>

MarkExported(e) ==
    /\ export[e].step = "mark"
    /\ mark' = [k \in Key |-> IF k \in Batch(e) THEN [mark[k] EXCEPT !.sync = "EXPORTED"] ELSE mark[k]]
    /\ Become(e, [export[e] EXCEPT !.step = "done"])
    /\ UNCHANGED <<roster, start, refused, gone, active, post, events, faulty>>

\* A failed statement, a broken download or a restart of the server.
AbortExport(e) ==
    /\ export[e].step \in {"claim", "rows", "mark"}
    /\ Event
    /\ Become(e, [export[e] EXCEPT !.step = "dead"])
    /\ UNCHANGED <<roster, start, refused, gone, mark, active, post, faulty>>

-----------------------------------------------------------------------------
(* What others do to the rows read here.                                   *)

ChangeRoster ==
    /\ Event
    /\ \E s \in Known, l \in Learners :
          roster' = [roster EXCEPT ![s] = IF l \in @ THEN @ \ {l} ELSE @ \cup {l}]
    /\ UNCHANGED <<start, refused, gone, mark, active, post, export, faulty>>

\* updateSchedule: a session that has been marked may still get another start,
\* which may carry it over the limits of bulkMark; marks and stamps stay.
MoveSession ==
    /\ Event
    /\ \E s \in Known, at \in Times :
          /\ start' = [start EXCEPT ![s] = at]
          /\ refused' \in {refused \cup {s}, refused \ {s}}
    /\ UNCHANGED <<roster, gone, mark, active, post, export, faulty>>

\* bulkImportHistory, one session: it, its roster and its marks are inserted in
\* one transaction. Nobody's last activity follows.
ImportHistory ==
    /\ Event
    /\ \E s \in Sessions \ Known, at \in Times, students \in SUBSET Learners :
          \E records \in Sheets(students) :
             /\ start' = [start EXCEPT ![s] = at]
             /\ roster' = [roster EXCEPT ![s] = students]
             /\ refused' \in {refused, refused \cup {s}}
             /\ mark' = [k \in Key |-> IF k[1] = s /\ k[2] \in students
                                        THEN Upserted(NoRow, records[k[2]], 0) ELSE mark[k]]
    /\ UNCHANGED <<gone, active, post, export, faulty>>

\* The cascade also leaves future rosters; those are of refused sessions here.
DeleteUser ==
    /\ Event
    /\ \E l \in Learners \ gone : gone' = gone \cup {l}
    /\ UNCHANGED <<roster, start, refused, mark, active, post, export, faulty>>

ServerNext ==
    \/ \E r \in Slots : BulkMark(r) \/ UpsertMark(r) \/ BumpUsersLastActive(r) \/ FailPost(r)
    \/ \E e \in Exports : FindPendingIds(e) \/ ClaimBatch(e) \/ FindExportRows(e)
                            \/ MarkExported(e) \/ AbortExport(e)
    \/ ChangeRoster \/ MoveSession \/ ImportHistory \/ DeleteUser

ServerFairness(vars) ==
    \A r \in Slots : WF_vars(BulkMark(r)) /\ WF_vars(UpsertMark(r)) /\ WF_vars(BumpUsersLastActive(r))

-----------------------------------------------------------------------------
(* Properties.                                                             *)

\* No mark is in the files of two exports, whatever the order in which their
\* scans and claims meet, and however often a mark is corrected meanwhile: the
\* promise of the claim in exportAttendance (attendance-export.js:35-45). A
\* re-export on purpose (includeExported) claims nothing and is not counted.
ExportedOnce ==
    \A d, e \in Exports : d # e => DOMAIN export[d].file \cap DOMAIN export[e].file = {}

\* Once every marking request has ended, a learner's last activity is no
\* earlier than the start of any session that marks her present or late: the
\* start it had for the request that marked her, although sessions are marked,
\* re-marked and moved in any order (bumpUsersLastActive after the upserts).
ActiveCovers ==
    ~faulty /\ (\A r \in Slots : post[r].step \notin {"write", "bump"})
        => \A k \in Marked : mark[k].status \in {"P", "L"} => mark[k].held <= active[k[2]]

\* The stamp stands for an aggregation over attendances and schedules
\* (user-queries.js:53): it covers the present start of every session that marks
\* the learner present or late. Not so: a session moved to a later start after
\* it was marked, and one the history import brings, leave the stamp behind.
ActiveIsCurrent ==
    ~faulty /\ (\A r \in Slots : post[r].step \notin {"write", "bump"})
        => \A k \in Marked : mark[k].status \in {"P", "L"} => start[k[1]] <= active[k[2]]

\* "Every claimed record appears in the file - no silent 'marked but not
\* included' records" (attendance-export.js:131). Not so: the scan and the claim
\* take the marks of deactivated users, which the rows of the file leave out.
InTheFile ==
    \A k \in Marked : mark[k].sync = "EXPORTED" => k \in DOMAIN export[mark[k].batch].file

\* What was exported is what is stored. Not so: a re-mark keeps the sync status,
\* so a correction of an exported mark is in no file.
CorrectionsExported ==
    \A k \in Marked : mark[k].sync = "EXPORTED" /\ k \in DOMAIN export[mark[k].batch].file
        => export[mark[k].batch].file[k] = mark[k].status
=============================================================================
