# Specifications of the training management server

ConCho2 manages company training: classes and cohorts, teams that book sessions, rooms,
rosters and waitlists, attendance, assessments, certificates, reminders and an audit trail.
A React client talks to one Express process, and that process to PostgreSQL. This directory
holds TLA+ models of the parts of the server, and of the clients that queue what they cannot send,
where concurrency, failure and ordering matter, TLC configurations that check them on small
instances, and TLAPS proofs for every instance.

Paths below are relative to `src/server/` unless they begin with `docs/`, which stands for
`src/docs/`. "Spec" in the tables is `docs/specs/scheduling-and-booking/spec.md`.

    tlc -config BookingLeaders.cfg MCBooking.tla      check one run
    tlapm BookingProofs.tla                           check the proofs of one component

## 1. The system

### How it runs

The server is one Node process: request handlers interleave at every `await`. Nearly all
shared state is in PostgreSQL, at the default isolation level READ COMMITTED, reached through
one pool of at most five clients (`config/pg.js:58`). `runInTransaction`
(`domains/_shared/unit-of-work.js`) checks a client out, runs BEGIN, the body and COMMIT, and
rolls back on any error. What protects an invariant is therefore one of four things: a unique
index, a row lock (`SELECT ... FOR UPDATE`, or the lock an UPDATE takes), the condition in the
WHERE clause of a write, or a check on rows read earlier, which protects nothing once another
transaction commits in between. Much of this project is about telling the four apart.

A deployment starts a second process while the old one drains, and an external pinger calls the
cron routes, so "one process" and "one run at a time" do not hold literally either.

### Components

| component | state | operations | talks to |
|---|---|---|---|
| Session booking (`services/scheduleService.js`, `domains/schedule/use-cases.js`, `session-booking-policy.js`) | `schedules` | book, cohort slot, admin create, cancel, delete, edit | room ledger, roster, waitlist, notifications |
| Room ledger (`domains/schedule/room-lock-policy.js`) | `room_bookings` | claim, re-key, release; all inside the booking transaction | booking |
| Roster and waitlist (`domains/schedule/waitlist/`, `roster-sync.js`, `release-resources.js`) | `schedules.enrolled_users`, `.capacity`, `waitlist_entries` | join, leave, promote, drop, pull, team edit, reassign, dissolve | booking, groups, notification log |
| Unit of work and pool (`domains/_shared/unit-of-work.js`, `config/pg.js`) | clients, wait queue | check out, COMMIT, ROLLBACK, release | every component |
| Audit trail (`services/auditService.js`, `audit-chain.js`, `audit-repository.pg.js`) | `audit_log`; in memory the queue and the cached head | record, append, verify, purge | called by every mutation |
| Session reminders (`services/reminderService.js`) | `schedules.reminders_sent_at` | claim, fetch, send, give back | cron route, mail server |
| Groups and enrollment (`domains/groups/`, `controllers/enrollment/`, user deletion) | `teams`, `team_members`, `enrollments` | create, edit with forced swap, transfer, override, delete and restore, enroll, withdraw | roster synchronisation |
| Attendance (`domains/attendance/`, `services/export/attendance-export.js`) | `attendances`, `users.last_active_at` | bulk mark, export in batches | client |
| Attendance clients (`src/client/src/features/attendance/`, the offline queue and the service worker) | roster panel, queue in IndexedDB, roster cache, sheet on the page | submit, queue, flush, select, save, close | attendance |
| Assessment engine (`domains/assessment/`) | attempts, answers | submit, auto-grade, manual grade | completion |
| Completion and certificates (`domains/learning/completion/`) | certificates and their counter, recertification assignments | issue, revoke, recertify | assessment, enrollment |
| Expiry and assignment reminders (`expiry-reminder-service.js` and its sibling for assignments) | `notification_logs` | one row, one mail per key | mail server |
| English operations (`domains/english-training/canonical-*.js`, `canonical-operations-repository.pg.js`) | run enrollments, class memberships, meetings, attendance, exam results | join, leave, transfer; create, move, cancel a session; save a roster; exam | audit trail |
| English archive (`domains/english-training/import/`, `session-time-allocation.js`, `session-time-corrections.js`) | units, meetings, correction overlay | import, adopt, repair | English operations |
| Cron monitoring and retention | `cron_runs` | heartbeat, health, purge | audit trail |
| Authentication, users, organisation, catalogue, reports, other imports and exports, middleware, other client pages | their own tables | CRUD, reads, credential checks | |

`PROJECT.json` lists every component with its sources and what is modelled of it, and under
"hazards" each place where this code can go wrong in a way a test would hardly reach.

### What is hard, and what makes each component correct

*Booking.* A create counts the team's week, looks for a collision and inserts, in three
statements; an edit decides from a row it read before its transaction. Correct means: a class
has one live session per start, a team two sessions a week, a room one session per start, the
ledger and the rows agree, and a cancelled session is history.

*Waitlist.* A seat can be freed by five handlers, taken by promotion, by a team edit or by an
administrator who lowers the capacity, while learners join and leave. Correct means: the roster
fits its capacity, the queue is served in order, nobody is marked promoted without a seat or
told before the commit, and nobody waits where a seat is free.

*Pool.* One transaction body asks the pool for a second client while it holds one. Correct
means: every request that wants a client gets one.

*Audit trail.* Each process appends through a promise chain with a cached head; INSERTs fail,
lose their answer, or arrive after their sender died. Correct means: rows are numbered without
gap and linked, in the order of `record()` calls, and verification accepts what the service
wrote, whenever it reads.

*Reminders.* Runs overlap and die, mails time out and may still arrive. Correct means: nobody is
reminded twice, a session nobody could be reminded of is tried again, and runs end.

*Groups and enrollment.* A request reads the pool, then begins a transaction that writes four
tables in an order of its own; two of them meet in any of these statements. Correct means: one
active enrollment per learner and team, members and enrollments agree, a transfer leaves nobody
between two teams.

*Attendance.* Marks are upserted one by one outside a transaction, exports claim what is pending
while it is re-marked, and the teacher's device goes on marking without a network. Correct means:
what the teacher was told is saved is saved or queued, a queue that keeps being flushed empties of
what the server takes, no mark is in two exports, a page saves a sheet only to its own session.

*Assessment and certificates.* Nothing runs in a transaction: limits, evidence and duplicates are
checked statements before the INSERT, nightly scans overlap and die between an e-mail and its row.
Correct means: one active certificate per learner, one recertification per certificate, one mail
per notification.

*English operations.* Every command takes row locks, several of them in an order that depends on
its argument, and what a statement read while it waited is as old as the statement. Correct means:
one active run per learner, memberships open exactly while a run uses them, records only of
sessions that took place and over what their author saw, one chain of transfers.

*English archive.* An import assigns clashing sessions other slots and other days, keeps the
assignment in an overlay, and hands future meetings to the live schedule. Correct means: the plan
is the cheapest and nearest, meetings and units agree, and importing the same book again gives the
same times.

## 2. Modules

| module | what it is |
|---|---|
| `SlotCalendar` | abstract: sessions book free slots, move to free slots, leave once and never return |
| `Booking` | the five booking handlers and the room ledger, statement by statement |
| `BookingProofs` | theorems about `Booking` |
| `Waitlist` | roster and queue of one session, statement by statement |
| `WaitlistProofs` | theorems about `Waitlist` |
| `ConnectionPool` | clients, wait queue, transactions, the transaction that asks twice |
| `Ledger` | abstract: rows are added at the end, each naming the newest, and lost only at the beginning |
| `AuditChain` | append queues, cached heads, late INSERTs, purge, verification |
| `SharedServicesProofs` | theorems about the services every handler uses, `AuditChain` and `ConnectionPool` |
| `Reminders` | claims by stamp, bounded fan-out, time-outs, roll back of failures |
| `RemindersProofs` | theorems about `Reminders` |
| `Membership` | teams, members and enrollments, ten kinds of request, statement by statement |
| `MembershipProofs` | theorems about `Membership` |
| `Assessment` | attempts with their limit, automatic and manual grades |
| `Certification` | certificates, recertification and two reminder scans, composed with `Assessment` |
| `CertificationProofs` | theorems about `Assessment` and `Certification` |
| `Attendance` | marking requests and exports on the server |
| `AttendanceClients` | the offline device and the attendance page, composed with `Attendance` |
| `AttendanceProofs` | theorems about `Attendance` and `AttendanceClients` |
| `EnglishRuns` | the eight commands of the English programme under their row locks |
| `EnglishProofs` | theorems about `EnglishRuns`, `SessionTimes` and `EnglishArchive` |
| `SessionTimes` | the allocation of session times, as operators on a workbook |
| `EnglishArchive` | import, adoption and repair, on top of `SessionTimes` |
| `MC...` | small instances of the module of that name for TLC |

Three compositions share their variables: `AttendanceClients` extends `Attendance`, and a request
passes from one to the other in `post`; `Certification` extends `Assessment`, whose attempts are
evidence; `EnglishArchive` extends `SessionTimes`. Otherwise the rows a component shares with
another are abstracted to a refusal (capacity in `Booking`) or modelled in both with their own
detail: the cancellation of a session is `CancelScheduleById` in `Booking`, `CancelFlip` in
`Waitlist` and `Ends` in `Reminders`; a team edit is `Membership` for teams and enrollments and
`Waitlist` for the rosters that follow. Both abstract modules are refined by their component
through `INSTANCE ... WITH`, and the refinement is checked by TLC and proved.

### From code to actions

*One statement, one action.* Under READ COMMITTED a statement sees what is committed when it is
issued. A request is a record with a program counter (`req` or `op`); every read whose answer
another request may invalidate is an action of its own, on the committed tables.

*Writes.* The rows a transaction writes are invisible and locked until COMMIT. The closing run
of writes of a transaction is one action with its COMMIT, because nobody can see or disturb what
happens between them; where another request can be made to wait by an early write, the lock is a
variable (`rowLock`, `teamLock`, `dead` for uncommitted deletions, `marked` and `gone` for queue
rows, `owner` in `EnglishRuns`) or what the transaction has written is kept apart until its COMMIT
(`tx` in `Membership`), and the guard of the waiting action reads it.

*READ COMMITTED's second look.* An UPDATE or DELETE that waited for a row applies to the row as
it is afterwards. So `UpdateScheduleById` merges its columns into the row of that moment
(`Edited`), `ApplyRosterDelta` appends to the roster of that moment, and `CancelScheduleById`
checks `status = 'scheduled'` on it; a DELETE removes the rows its snapshot saw, except those
gone by then (`ReleaseRoomLock`, `RoomLockReleased`, `StartDelete` and `FinishDelete`).

*Unique indexes.* `SlotTaken` is `uq_sched_slot_scheduled`, `RoomKeyFree` the key of
`room_bookings`, `CreateEntry` contains `uq_waitlist_live`, `Refuses` the unique `seq`, `Clash`
the indexes of active enrollments, `NoneActive` the one of active run enrollments.

*Errors.* `Fail` ends a request at any point before COMMIT: a refusal this project does not
detail, a failing statement, a broken deadlock, the death of the process. In the waitlist it
also loses the notifications that were due after COMMIT; in `AuditChain` and `Reminders`, where
the process keeps state in memory, errors and deaths are separate actions (`AppendFails`,
`Crash`, `Die`), and in `Attendance` a request may fail after any of its upserts (`FailPost`).

*Checks before the transaction.* `updateSchedule`, `join`, `cancelSlot` and the team handlers read
rows before they begin. The values travel in the request record (`want`, `mine`, `cap`,
`members`), and the actions use them exactly where the code does.

### Booking

`sessions` is the table `schedules`; an id that was never inserted has status "none". `ledger`
is `room_bookings`. `bookSlot` is BookSlot, LoadTeamForBooking, AssertWeeklyCap,
AssertNoCollision, InsertSession; `bookCohortSlot` starts at AssertNoCollision; `adminCreate` at
AssertWeeklyCap, without the team lock. `cancelSlot` and `deleteSchedule` are CancelSchedule,
ReleaseRoomLock, RoomLockReleased, CancelScheduleById. `updateSchedule` is UpdateSchedule,
MoveCollision, MoveWeeklyCap, ReassignGuard, UpdateScheduleById, the release pair if the room
section needs it, and CommitUpdate. Windows, scheduling mode, authorisation, attendance,
capacity and calendar calls are refusals or leave no trace here. Time is a set of starts with a
week and an overlap relation. Trainer assignment is left out.

### Waitlist

One session that starts in the future, two teams of its class. `session` is its row, with the
roster as a set of pairs <<learner, occurrence>> because `enrolled_users` is an array that can
hold an id twice. `entries` are the `waitlist_entries` in the order of `created_at`. A
transaction that has written the row works on its own version `mine`. `promoteIfSeatFree` is
PromoteIfSeatFree and SeatNext until ScanEnds, then EndScan with its guard on an overfull
roster. Programmes with `maxParticipantsPerSession`, queue positions and listings are left out.

### ConnectionPool

`main[r]` and `extra[r]` are the clients a request holds, `pending` the callers that wait, served
in order as pg-pool does (an external definition: Free, Connect, Grant). "tx" stands for every
transaction whose statements all run on its client, "edit" for `updateSchedule` with a new start:
its `assertValidBookingWindow` runs `readRawSlots` on the pool. One row that transactions lock
stands for all rows; `LockRow` waits for it, `NoRow` is a transaction that does not need it.

### AuditChain

Each process has a queue (the promise chain of `record`), a cached head and at most one INSERT
it waits for. `wire` holds INSERTs sent and not executed, kept apart from their sender, which
may die or see its connection break first. A head is <<seq, hash>>; a hash is the tuple it
digests. `Stored` is the way through the jsonb column: a key whose value is undefined is gone.
`verifyChain` is two reads, VerifyHead and VerifyRows. Redaction and listing are left out.

### Reminders

`stamp` is `reminders_sent_at`. A run is Claim, Fetch, then for up to CONCURRENCY sessions at a
time StartSession, one Answered or TimesOut per recipient, FinishSession, and at last FinishRun
with the roll back. `stray` holds mails nobody waits for. A deployment without SMTP, where every
claim counts as handled, is left out.

### Membership

`team`, `member` and `enr` are the three tables, `gone` the deactivated users. Every edit of a
team is CheckMemberConflicts (outside the transaction), for a forced edit UnassignTeamClass and
TransferEnrollment per conflict, WriteTeamRow, StartDelete and FinishDelete and InsertMembers for
the rows of `team_members`, then one enrollment at a time: FindLeaver and DropEnrollment,
FindTargetEnrollment and CreateActiveEnrollment, and Commit. A transfer asked for by itself adds
FindSourceEnrollment, CloseSource and PullTeamMember. `Clash` is what the partial unique indexes
of `enrollments` refuse. The history variable `orderly` says that no two requests have
overlapped and none overrode a status or restored a row, for the properties that only promise
agreement then. The two reads of a team that `findTeamByIdLean` makes, an INSERT of several
members, and an override's UPDATE with its COMMIT are one step each; the lock of an UPDATE that only renames a team
is left out. The rosters the same transactions change belong to `Waitlist`.

### Assessment and Certification

`attempt` holds the `assessment_attempts` rows with the set of items that earned their point;
submitting is FindAssessment, which reads the quiz and its limit, CountAttempts and CreateAttempt;
UpdateAssessment gives a quiz another pass mark and another limit (`limits` remembers those it has
had), also after attempts were made. A manual grade is FindAttempt, FindMark (the pass mark
read later) and UpdateAttemptGrade, which writes a total computed from the old answers.
`cert`, `counter`, `assignment` and `log` are the tables of the same meaning. An issue is
ReadEvidence (one step per kind of evidence), FindActiveCertificate, NextCertificateNumber and
CreateCertificate; the recertification scan FindSource and CreateAssignment per expiring certificate; a
reminder scan ResolveStatus per subject, then InsertLog, SendMail and FinishLog per key. The log
row is the claim: `mail` counts what the mail server accepted, `Reports` is the answer the sender
sees, which may be a failure although the mail was accepted. Days pass in `NextDay`.

### Attendance and AttendanceClients

`post[r]` is a marking request: BulkMark reads session, start and roster, UpsertMark writes one
record, BumpUsersLastActive ends it with the start it read. MoveSession is the edit of a session's
time, which does not look at its marks, and ImportHistory brings a past session with roster and
marks in one transaction, without a bump. `held`, in a row, is the start its session had for the
request that marked it last: no column, it says what the stamp must cover. An export is FindPendingIds, ClaimBatch, FindExportRows, MarkExported.
The device has the panel it is marking in, the `queue` (IndexedDB rows by session and learner)
and the `flush` that posts it one session at a time; `cached` is what the service worker
answers when there is no network. The page has the selected session, its sheet and the loads it
waits for. A client stops waiting in GiveUp, while its request may go on or never arrive;
RestartApp forgets everything but the queue, the cache and what the teacher was told. A flush begins
when the app is opened online (RestartApp), when the network returns (GoOnline), or by a message of the service
worker or the button (StartFlush); there is no timer. A flush that outlives its page while the
app stays open, beside the one the next page begins, is left out. The two
GETs that load a roster are one step; there is one page and one device; a re-export on purpose
(`includeExported`) claims nothing and is not counted; the cascade of a user's deletion is that of
`Membership`, of which only the future rosters matter here.

### EnglishRuns

A request is Begin with its arguments and what its author saw (the roster token), Lock once per row of
`Rows`, `LockRoster`, `Confirm` or `LeaveSlot` where a command reads between its locks, and one step
for its checks, writes and COMMIT (AddRunEnrollment, LeaveRunEnrollment, TransferLearner,
CreateAttendanceSession, RescheduleMeeting, CancelMeeting, SaveAttendanceRoster,
RecordExamResult). `Rows` is the order of the locking clauses: `findMeetingForUpdate` takes the
meeting before its unit, `getAttendanceRosterData` the unit before the meeting, a transfer the class
it enters before the one it leaves; the rows of a run and of its class, which one statement
locks together, are one. `Awaits` and `RosterRows` are what is locked after the checks: the
enrollment that a join finds active elsewhere, the enrollments of a roster, and the entries of a new
session's start in the two unique indexes of the meetings (`Entries`: first that of its run, then
that of all live meetings). A reschedule leaves its old entries in doubt (`LeaveSlot`) and waits for
the new ones, and `Lock` grants an entry only while the index allows the start (`SlotFree`).

`owner` is who holds a row or an entry, `Refuse` a refusal, which a transaction that is `Blocked`
cannot make, `Cycle` a set of transactions that wait for one another, and `AbortVictim` PostgreSQL's
answer to it. Counts that a statement made before it waited are kept in the request.
Imported evidence that cannot be edited and make-up units are left out, and of the locks
those whose holder waits for nothing more: enrollments locked by a request that is then refused (a
stale roster is refused before its enrollments are locked, not after), the index entries of
enrollments that a join, leave or transfer leaves in doubt until its COMMIT, and those of the meeting
that a cancellation does. Membership rows are locked only under the lock of their class. Left out too
are the shared locks of foreign keys, and the update of a meeting's calendar details, one statement
of its own after COMMIT.

### SessionTimes and EnglishArchive

`Placement` is `chooseSessionsToKeep`, `nearestAvailableDate` and their order, a function of how
many sessions have had their turn. `BestSlotAssignment` is the depth-first search with its cut:
`Search` is a recursive function on the nodes of the search (`Nodes`: the slots chosen so far, the
slot to try next, the best way found), and `Visit` says what the code does at one of them.
`Import` is the pipeline with or without reset (load, correct, finalise, adopt), `Apply` the
repair script, `ClockMoves` lets the clock pass the sessions, `ImportFails` an import refused by one
of the unique indexes while it writes row by row (`Collisions`, `Knots`), which changes nothing. The
preview is a pure read. A workbook is a function from sessions to times: parsing is left out.

## 3. Runs

### Runs that pass

| run | question | bounds | states |
|---|---|---|---|
| `BookingLeaders` | Does the team row lock keep two leaders' requests at two sessions a week, beside bookings for the cohort? `WeeklyCap` | 3 sessions, 3 starts of one week, 2 requests | 0.19 million |
| `BookingRooms` | Does the ledger keep rooms exclusive while one administrator edits and another creates and cancels, and do they implement the slot calendar? `RoomExclusive`, `RefinesCalendar` | 2 sessions, 2 starts, 2 classes with a team each, 1 room, 2 requests, edits of one column | 1.5 million |
| `WaitlistSeats` | Are seats given in order, to whom is marked, up to the capacity, with nobody skipped and nobody told early? `RosterWithinCap`, `SeatsAreFilled`, `ToldOnceSeated`, `FirstInFirstOut` | 5 learners, 3 queue rows, capacity 1 raised to 2, 2 requests | 1.8 million |
| `PoolServes` | Is every request served while edits are fewer than clients? `Served`, `HolderCanGoOn` | 3 clients, 2 editors, 2 others | 31 thousand |
| `AuditChain` | Is the trail a linked ledger, in order, and accepted by verification, with two processes that fail and restart? `ChainLinked`, `NoFalseAlarm`, `RecordedInOrder`, `RefinesLedger` | 2 processes, 4 entries, window of 2 rows | 0.74 million |
| `Reminders` | Is nobody reminded twice, is a total failure retried, does every run end? `RemindedOnce`, `ClaimIsHonoured`, `RunEnds` | 2 runs at once, 3 runs in all, 2 sessions, 2 recipients | 52 thousand |
| `Membership` | Are enrollments unique and transfers whole under every interleaving, and do members, enrollments and classes agree when requests take turns? `OneEnrollmentEach`, `TransferArrives`, `MembersAreEnrolled`, `OneTeamEach` | 2 learners, 2 teams, 1 class of capacity 1, 2 requests of ten kinds, from each of the 42 arrangements that agree | 2.95 million |
| `Attendance` | Is what the device confirmed kept, does a queue that is flushed drain, does the page save to its own session, are exports disjoint, is the last activity right? `SubmittedIsKept`, `QueueDrains`, `SheetMatchesSession`, `ExportedOnce`, `ActiveCovers` | 2 sessions and one to import, 2 learners, 2 starts, 2 codes, 2 requests at a time, 2 exports, 3 events | 1.6 million |
| `Certification` | One certificate, one recertification, one mail, and how far an attempt limit can be exceeded? `OneActiveCertificate`, `RecertifiedOnce`, `MailedOnce`, `AttemptsBounded` | 1 learner, 2 items, limits 1 and 2, 2 certificates, 3 days, 4 requests of eleven kinds, 2 at a time | 1.3 million |
| `EnglishRuns` | Do the row locks keep enrollments, memberships, capacities, records and transfers consistent? `OneActiveRun`, `MembershipInUse`, `CapacityApproved`, `EvidenceOfHeldSessions`, `TransferChain`, `CollisionsAreKnown`, `SavedOverSeen` | 3 runs (two of one class), 2 learners, 2 meetings, 3 start times, 4 requests of eight kinds, 2 at a time | 1.9 million |
| `EnglishArchive` | Is the plan of session times optimal, and do imports and repairs agree with it and with each other? `SlotPlanIsCheapest`, `PlacedNearest`, `ImportAligns`, `Reproducible` | 35 workbooks of 3 sessions among 4, 3 classes, 2 slots a day, 7 days, 2 instants | 12 thousand |

Why these bounds are enough to be interesting: what goes wrong in this code goes wrong when one
request acts between two statements of another, so two request slots reach every pair of
handlers; each slot starts over after each request, so a third request can follow and find what
the first two left. Longer cycles of waits than those of two are what `EnglishProofs!Cycles` is about
(with three request slots, TLC finds one with a new session in it). Three sessions of one week are one more than the cap. Two starts and one room
make a move, a conflict and a re-key possible; two classes let two sessions want one room. Three
queue rows let one waiter be stale, one be promoted and one stay. A window of two rows under four
entries makes verification start past the beginning of the trail and see it grow and shrink
between its reads. Three clients and two editors are
the smallest pool with one client that no editor can hold for ever; the count behind it is proved
for every number. Two requests from every agreeing arrangement of two learners and two teams reach
each pair of statements of each pair of kinds; the state two requests leave is the start of a third
(one operator with three requests, 18 million states, was checked too). Three events let a mark be
queued, be flushed in part and be re-marked, or be given, exported by two and corrected, or a session be marked,
moved and re-marked; its invariants were also checked with four events and one code
(5.4 million states). Three attempt ids are one more than the two that two requests
can file together under a limit of one, and an edit between them may set it to two and back. Two runs of one class are what makes an enrollment and a membership
different things. Three sessions of three classes for two slots are one more than a day holds, so that
a session has to move to another day.

Bounds on what would grow without limit, each in the guard of one action: `MaxEntries`,
`MaxStamps`, the ids `Sessions` of booking and `Attempts`, `MaxRequests`, `MaxEvents`, `MaxCerts`,
`LastDay`, `LastTime`, `Backdate` and `Ahead` (how far back and ahead a date lies), `MaxEntries` of the audit trail, and `Horizon` (3660 days in
the code, 7 in the run).

`WaitlistSeats` is restricted on purpose: nobody adds a team member and nobody lowers the
capacity, since with either the roster can exceed its capacity (below). Its slots are divided,
the administrator's operations in one and the queue's in the other, with edits in both, so that two
promotions can meet. In `BookingRooms` one slot edits and the other creates and cancels: with two
editors rooms are not exclusive (below); what all handlers do together is proved (section 5).
`Reminders` is restricted too: no mail arrives after its time-out (`LateMail`) and no two runs
start in one millisecond (`SharedStamp`); each restriction has its counterexample below.
`AuditChain` has no one-sided diff, for the same reason.

The booking runs use symmetry in the ids that no definition orders (in `BookingRooms` also in
the starts, which share a week, and in the classes together with their teams), `Membership`, `Certification` and
`EnglishRuns` in ids and request slots (and in the two runs of one class). The properties of these runs are invariants and step
properties that name no id; the runs with liveness properties use no symmetry.

### The run that finds the code and its documents in disagreement

| run | what happens |
|---|---|
| `AuditFalseAlarm` | A diff whose one side is null is hashed with `undefined` as null and stored without the key (`auditService.js:70`, `audit-repository.pg.js:70`): verification reports a row nobody touched. `audit-chain.js:31-35` says this cannot happen. |

### Further counterexample configurations

Each of these makes TLC print a trace in which the code does not do what a document or comment
says. The first table has its configurations beside the runs; they are started the same way, with
the `MC` module of their component. The properties of the others are stated in the modules, and
the last column says which instance shows them: a configuration, its changed constants, and the
property in the place of those the configuration names, without symmetry.

| configuration | property it breaks | where | what the documents say |
|---|---|---|---|
| `BookingWeeklyCap` | `WeeklyCap` | `services/scheduleService.js:474`: an administrator's create reads the team without a lock; two requests count one session each and both insert | Spec:247, `scheduleService.js:438` |
| `BookingOverlap` | `NoOverlap` | `scheduleService.js:499`: the overlap query and the INSERT are two statements, and the index knows only equal starts | Spec:225 |
| `BookingTeamClass` | `TeamStaysInClass` | `use-cases.js:109`: the class of an edit is not compared with the team that stays | `scheduleService.js:437` |
| `WaitlistOverfill` | `RosterWithinCap` | `domains/schedule/repository.pg.js:640`: a team edit checks a free seat, a promotion takes it, and the append does not look again | `roster-sync.js:94`, `promotion.js:14` |
| `WaitlistLowered` | `RosterWithinCap` | `use-cases.js:172`: the capacity is lowered against a roster read earlier | `use-cases.js:159-162` |
| `WaitlistLostSeat` | `WaitersOnlyWhenFull` | `waitlist/use-cases.js:55`: the entry is inserted after the seat it waits for was freed | `release-resources.js:17` |
| `WaitlistCancelled` | `CancelledHasNoWaiters` | `waitlist/use-cases.js:53`: a join lands after the queue was dissolved | Spec:567 |
| `PoolExhausted` | `Served` | `domains/schedule/use-cases.js:69`: as many session edits as clients each hold one and wait for another, without a time-out (`config/pg.js:58`); later requests wait with them for ever | `unit-of-work.js:5` |
| `RemindersLate` | `RemindedOnce` | all sends of a session time out, the claim is given back, the mails arrive, and the next run sends again | `reminderService.js:10`, `routes/cronRoutes.js:55` |
| `RemindersCancelled` | `OnlyUpcoming` | `repository.pg.js:700`: the fetch goes by stamp alone | Spec:538-540 |
| `MembershipTransfer` | `TransferLeavesSource` | `enrollment-sync-repository.pg.js:39`: the source is found by class, not by the enrollment the request names | `enrollment-transfer.js:32-33` |
| `AttendanceFile` | `InTheFile` | the scan and the claim take marks of deactivated users, which the rows of the file leave out | `attendance-export.js:131` |

| property | where | what the documents say | instance |
|---|---|---|---|
| `ClaimsAreLive` | `domains/schedule/use-cases.js:247`: an edit claims a room for a session that is cancelled meanwhile | Spec:371-374 | 1 session, 1 start, 1 room, `Bodies <- RoomBodies`, `Handlers <- Everyone` |
| `RoomExclusive` | `use-cases.js:241`: two edits decide from rows read before their transactions whether the claim moves | Spec:371 | `BookingRooms` with `Handlers <- Editors`, `Bodies <- RoomBodies` |
| `CancelledIsHistory` | `repository.pg.js:584`: UPDATE by id alone | `use-cases.js:42`, Spec:514 | 1 session, 2 starts, no room, `Bodies <- MoveBodies`, `Handlers <- Everyone` |
| `RosterHasNoDuplicates` | `repository.pg.js:648`: the array concatenation appends an id that is on the roster by then | `repository.pg.js:639` | `WaitlistOverfill` with `Outs <- AnyOneOrNobody` |
| `CancelledIsKept` | `repository.pg.js:657`: the sweep of empty sessions does not look at the status | `use-cases.js:298`, migration 027:15 | `WaitlistCancelled` with `Handlers <- DropCancel` |
| `OnlyWaitersPromoted` | `waitlist/repository.pg.js:258`: an entry is marked by id alone after its user withdrew | Spec:556 | `WaitlistCancelled` with `Handlers <- LeaveEdit` |
| `OldTeamNotPromoted` | `use-cases.js:193`: a join lands after the reassignment dissolved the queue | Spec:619 | `WaitlistCancelled` with `JoinReassign`, `TwoTeams` |
| `PromotionIsAnnounced` | `promotion.js:129`: the log row of an earlier promotion counts for the later one | `promotion.js:99`, Spec:564 | `WaitlistCancelled` with `JoinDrop`, `MaxEntries = 3` |
| `RemindedOnce` | `reminderService.js:87`: two runs of one millisecond fetch each other's sessions | `reminderService.js:27-30` | `Reminders` with `MaxStamps = 1`, `SharedStamp = TRUE` |
| `OneTeamPerMember` | the members' other teams are read before the transaction | `domains/groups/read-repository.pg.js:329` ("1 team per member") | `Membership` with `Kinds = {"update"}`, no symmetry |
| `SwapIsWhole` | a forced edit takes the class from the other team before it checks the members, outside the transaction | `mutations.js:128-131` | the same with 1 operator, 1 request |
| `CorrectionsExported` | a re-mark keeps the sync status, so a correction of an exported mark is in no file | (a question to the authors) | `Attendance` |
| `ActiveIsCurrent` | `domains/schedule/use-cases.js:177`, `importController.js:106`: a session moved later after it was marked, and an imported one, leave the stamp behind | `user-queries.js:53`: the stamp stands for the aggregation | `Attendance` |
| `DrainsByItself` | `useOfflineAttendance.js:47`: a POST that fails while the device stays online waits for the next mount, reconnection, background sync or press | same line: "a later flush retries it" | `Attendance` |
| `DropsOnlyAccepted` | `useOfflineAttendance.js:45`: keys are removed after the await, a mark queued under them meanwhile too | same line | `Attendance` |
| `LastWriteWins` | older queued marks overwrite newer ones at the next flush | `docs/specs/attendance/spec.md:74` | `Attendance` |
| `ShowsWhatWasChosen`, `EditsAreGuarded` | `AttendancePage.jsx:224`: a late answer brings its session back; edits are dropped without the question | `AttendancePage.jsx:127-131` | `Attendance` |
| `AttemptsLimited` | the attempts are counted a statement before the INSERT, and `assessment/use-cases.js:91` lets an edit lower the limit below the attempts made | `docs/specs/assessments/spec.md:100` | `Certification` with `Kinds <- Examination` |
| `NoMarkLost`, `PassedBySameMark` | a grade is written from answers read earlier, and by the mark of that moment | `use-cases.js:65`, assessments spec:149 | the same |
| `IssuedWhenComplete` | evidence is read statement by statement | (a question to the authors) | `Certification` |
| `Gapless` | the number is taken before the INSERT that may fail | `helpers/counter.js:4-10` | `Certification` |
| `AssignedWhileIssued` | a certificate is revoked between the scan and the assignment | compliance spec:105 | `Certification` |
| `RecertificationReminds` | an active certificate counts as completed, so the assignment never reminds | `recert-assignment-service.js:12-13` | `Certification` with `Kinds = {"submit", "issue", "recert", "assignments"}` |
| `OneNoticePerBucket` | the address is part of the log's key: a learner whose address changes gets a notice again | `expiry-reminder-service.js:23` | `Certification` with two addresses besides none, 5 requests |
| `StartsAtTheNextSession` | a learner's first session is a number read when she joined | english-training spec:74 | `EnglishRuns` with `OneRunEach`, 2 runs |
| `ExamOnEvidence` | `repository.pg.js:486`: attendance is counted before the exam row is locked | english-training spec:288 | `EnglishRuns`, 1 run, 1 learner, 1 meeting, `ExamKinds`, 5 requests |
| `ClassCapacityApproved` | a join counts enrollments of the run, not members of the class | english-training spec:82 | `EnglishRuns` with `LearnerKinds` |
| `AdoptedAreFuture` | `repository.pg.js:438`: "future" is decided before the shift of seven hours | migration 050:43 | `EnglishArchive` |
| `UnitsFollowMeetings` | the repair moves units only | english-training spec:340 | `EnglishArchive` |
| `RepairSurvives` | a session the repair puts back keeps its stale overlay row | migration 045:4 | `EnglishArchive` |
| `OriginalsAreTheBook` | "original" is the present time of any session the overlay does not know | `session-time-allocation.js:3` | `EnglishArchive` |

Seen on the way and not stated as a property: `scheduling-window-policy.js:137-163` compares only
hour and minute, so a window of 25 hours passes; migration 048:29 ("configured slots do not
overlap") stops being true when the slots are edited in Settings;
`middleware/analyticsCache.js:30-31` ("never serves truly stale data") does not hold for a
fill that races an invalidation; an import of a legitimate workbook aborts when its plan leaves the
order of a run, or when row-by-row uniqueness fails in the order the rows happen to be
written.

## 4. Fairness and deadlock

`Booking`, `Waitlist`, `AuditChain`, `Membership`, `Certification` and `EnglishArchive` are checked
for safety only; their specifications assume no fairness, since a request may always fail and a
learner need never act.

`ConnectionPool` assumes weak fairness of what the event loop and the pool do for a request that
can go on (Grant, Finish, AskWindow, ReadWindow), and strong fairness of LockRow, because
PostgreSQL queues those who wait for a row and wakes them in turn. Nobody has to send a request,
and no failure is ever forced. `Reminders` assumes weak fairness of the database's answers
(Fetch, FinishRun), of the runners (StartSession, FinishSession) and of the timers (TimesOut);
none of the mail server, and none of Claim.

`AttendanceClients` assumes weak fairness of the server's statements (BulkMark, UpsertMark,
BumpUsersLastActive: it goes on with what it has begun), of answers (GetAnswer) and of a flush
that has begun (FlushGroup). Nothing makes a flush begin: the code begins one on mount, on the
`online` event, on a message of the service worker and on the button, and on nothing else, so
`QueueDrains` is stated under the condition that flushes are under way again and again while
something is queued, and `DrainsByItself`, without it, is violated. The network need not come back,
nobody has to mark anything, and a session the server refuses stays queued for ever, which
`QueueDrains` allows. `EnglishRuns` assumes weak fairness of Work and strong fairness of
a grant or refusal (Lock or Refuse), as PostgreSQL's lock queues give; `RequestsEnd` says that every
request then ends, because a victim is aborted in each cycle of waits. It is not a property of the
run, whose symmetry does not suit it; without symmetry it holds in three small instances: four requests
on one meeting (create, move, cancel, save; 36 thousand states), four on learners
(join, transfer, leave, exam; 65 thousand) and three of every kind (0.1 million).

TLC checks for deadlock in the booking runs, `PoolServes`, `AuditChain`, `AuditFalseAlarm` and
`EnglishArchive`. It does not in the `Waitlist`, `Reminders`, `Membership`, `Certification`,
`EnglishRuns` and `Attendance` configurations, where the bounds end the behaviours (no queue row, stamp,
request or event is left), nor in `PoolExhausted`, whose subject is that requests wait for ever.

## 5. Proofs

All theorems hold for every value of the constants that satisfies the named assumptions of the
modules (`BookingAssumption`, `BodiesAreBodies`, `WaitlistAssumption`, `PoolAssumption`,
`AuditAssumption`, `RemindersAssumption`, `MembershipAssumption`, `AttendanceAssumption`, `AssessmentAssumption`,
`CertificationAssumption`, `EnglishAssumption`, and `SlotsAssumption`, `KeysAssumption`,
`HorizonAssumption`, `BooksAssumption` of the archive), which TLC evaluates in the runs. They give
the constants their kind (finite sets of ids, natural bounds, a Null that is no id) and nothing
else but what the code lets one assume of its data, such as a first roster that fits, slots that
are listed by their hours, or a natural key that names one session.

| theorem | says | further assumption |
|---|---|---|
| `BookingProofs!Typing` | `[]TypeOK` | |
| `BookingProofs!SlotSafety` | `[]OneLivePerSlot` | |
| `BookingProofs!ClaimSafety` | `[]OneClaimPerRoomSlot` | |
| `BookingProofs!CalendarRefinement` | `Booking` implements `SlotCalendar` | |
| `BookingProofs!LeaderCap` | `[]WeeklyCap` | only leaders and cohorts book, nobody edits (`LeadersAlone`) |
| `BookingProofs!RoomsClaimed` | `[]LiveRoomIsClaimed` | at most one request slot edits sessions (`SingleEditor`) |
| `BookingProofs!RoomsExclusive` | `[]RoomExclusive` | the same |
| `WaitlistProofs!Typing` | `[]TypeOK` | |
| `WaitlistProofs!InOrder` | `FirstInFirstOut` | |
| `WaitlistProofs!SeatsFilled` | `[]SeatsAreFilled` | |
| `WaitlistProofs!ToldSeated` | `[]ToldOnceSeated` | |
| `WaitlistProofs!KeptToCap` | `[]RosterWithinCap` | team edits only remove (`NoAdds`), edits write one capacity that is no lower than the first (`Raised`) |
| `SharedServicesProofs!PoolTyping` | `[]PoolTypeOK` of `ConnectionPool` | |
| `SharedServicesProofs!NeverExhausted` | `[]HolderCanGoOn` | fewer editors than clients, both finite |
| `SharedServicesProofs!Typing` | `[]TypeOK` | |
| `SharedServicesProofs!TrailIsChain` | `[]ChainLinked` | |
| `SharedServicesProofs!TrailIsLedger` | `AuditChain` implements `Ledger` | |
| `SharedServicesProofs!VerifyAccepts` | `[]NoFalseAlarm` | no one-sided diff |
| `SharedServicesProofs!EntriesInOrder` | `[]RecordedInOrder` | |
| `RemindersProofs!Typing` | `[]TypeOK` | |
| `RemindersProofs!ClaimHonoured` | `[]ClaimIsHonoured` | |
| `RemindersProofs!Once` | `[]RemindedOnce` | no mail after its time-out, no two runs in one millisecond |
| `MembershipProofs!Typing` | `[]TypeOK` | |
| `MembershipProofs!EnrolledOnceEach` | `[]OneEnrollmentEach` | |
| `MembershipProofs!NobodyLeftBehind` | `TransferArrives` | |
| `MembershipProofs!MembersAgree` | `[]MembersAreEnrolled` | (the property itself speaks of requests that take turns) |
| `MembershipProofs!OneTeamHolds` | `[]OneTeamEach` | (the same) |
| `AttendanceProofs!Typing` | `[]TypeOK` | |
| `AttendanceProofs!SheetMatches` | `[]SheetMatchesSession` | |
| `AttendanceProofs!SubmittedKept` | `[]SubmittedIsKept` | |
| `AttendanceProofs!ExportedOnceHolds` | `[]ExportedOnce` | |
| `AttendanceProofs!ActivityCovers` | `[]ActiveCovers` | |
| `CertificationProofs!Typing` | `[]TypeOK` | |
| `CertificationProofs!OneActive` | `[]OneActiveCertificate` | |
| `CertificationProofs!Recertified` | `[]RecertifiedOnce` | |
| `CertificationProofs!Mailed` | `[]MailedOnce` | |
| `CertificationProofs!AttemptsWithin` | `[]AttemptsBounded` | |
| `EnglishProofs!Typing` | `[]TypeOK` | |
| `EnglishProofs!OneRun` | `[]OneActiveRun` | |
| `EnglishProofs!MembersUseRuns` | `[]MembershipInUse` | |
| `EnglishProofs!Capacities` | `[]CapacityApproved` | |
| `EnglishProofs!OneChain` | `[]TransferChain` | |
| `EnglishProofs!Cycles` | `[]CollisionsAreKnown` | (any number of transactions in a cycle) |
| `EnglishProofs!Evidence` | `[]EvidenceOfHeldSessions` | |
| `EnglishProofs!NoLostUpdate` | `SavedOverSeen` | |
| `EnglishProofs!ArchiveInvariant` | `[]ArchiveInv`, the invariant the next four rest on | |
| `EnglishProofs!ImportsAlign` | `[]ImportAligns` | |
| `EnglishProofs!ImportsReproduce` | `[]Reproducible` | |
| `EnglishProofs!PlansAreCheapest` | `[]SlotPlanIsCheapest` | |
| `EnglishProofs!PlacesAreNearest` | `[]PlacedNearest` | |
| `EnglishProofs!PlansKeepSlots` | a plan starts no two sessions at once and no class twice a day | (of any workbook, not only `Books`) |

The assumptions that exclude behaviour are needed: without them the configurations
`BookingWeeklyCap`, `BookingRooms` with two editors (section 3), `WaitlistOverfill` (a team edit that adds), `WaitlistLowered` (a capacity that
falls), `PoolExhausted`, `AuditFalseAlarm`, `RemindersLate` and `Reminders` with a shared stamp show
the property broken. `SlotSafety`
and `ClaimSafety` are not properties of a run: the first is what the guards of `SlotCalendar`
say of its sessions, so the run checks it as part of `RefinesCalendar`.

*Booking.* `TypeOK` is not inductive: a request that inserts must carry a row with a class and a
start, and one that edits must carry an id. `Underway` says so, and `TypeOK /\ Underway` is
inductive (`TypedUnderway`). Then one lemma, `StepWrites`, sums up every handler: a statement
leaves `schedules` alone, or inserts a live row in a free slot (`Booked`), or cancels one
(`Cancelled`), or edits one to a free slot without touching its status (`Moved`). `SlotSafety` and
`CalendarRefinement` argue about these three shapes only; `StepClaims` does the same for the
ledger. `LeaderCap` needs to know that a count stays true until its INSERT: `CountStillHolds` says
that a request for a team that is past the lock holds the team's row and that the week it counted
is still short of the cap; a booking for a cohort has no team and passes by. Only the holder of the
row inserts for the team, so nobody else can use the place up; cancellations only make room
(`SmallerWeek`, `LargerWeek`). `RoomsExclusive` follows from `ClaimSafety` and from `RoomsClaimed`:
each of two sessions in one room would hold the claim there, and there is one. `RoomsClaimed` needs
`EditorReads`: the row an edit has read is still the row in the table, or was cancelled since; a
request releases claims of its own session alone; and an edit releases any only if it clears the
room or claims it at the new key. With a second editor the first of these is lost. TLC checks
`EditorReads` and `LiveRoomIsClaimed` in the instance of `BookingRooms` as well. The steps of `SlotCalendar` change the calendar by definition, so a
step that edits a session without moving it maps to a stutter.

*Waitlist.* `Named` (an entry that was born has a user, and requests work on such entries) makes
`TypeOK` inductive. `StepEntries` and `StepRequest` then sum up the actions: what becomes of one
entry, and what a step makes of its request's share of the queue. The inductive invariant is what a
request may count on about entries others may write: `Holding` says that whoever is older than an
entry it has marked or will come to is marked too, or ahead in its queue, or cancelled by it, or
settled for good; `Apart` that no entry is cancelled by one transaction and written by another;
`Numbered` that entries are born in order. A commit that promotes resolves all that is marked
(`PromotionResolves`), so nobody older is left waiting. `Filling` relates the two counts of the
code, free seats by learners and the guard by array length: the scan drops nobody before the array
is full. Entries only grow older (`Ageing`), so a promotion that was committed when its learner was
told stays so. `KeptToCap` adds `Seating`: the version of the row that a transaction holds fits its
capacity, which is no lower than the committed one, so capacity never falls; that is what keeps the
comparison true that an edit made before its transaction (`Plans`).

*Pool.* The inductive invariant says that the queue lists each waiting request once and which
clients a request holds at each point. If the pool had no free client and every holder waited for a
second one, each client would be the main client of an edit, so the clients would be the image of
the editors, of which there are fewer (`HoldersCount`, by the cardinality of a surjection's range).

*Audit trail.* A cached head may be stale, a row on its way may be doomed, and neither is a problem
because of one fact, `WasEnd`: the number was once the end of the trail, so its successor is now
either in the trail, and the unique index refuses the row, or is the next number, and the cached
hash is the newest row's. Accepting a row preserves it (`AcceptKeepsEnds`), and the purge preserves
it because it spares rows somebody is about to number (`PastRetention`: the retention is years, and
`created_at` follows `seq`). `VerifyAccepts` adds that every stored row still has the hash it was
written with (`HonestOK`); the two reads of a verification need nothing more, since the rows it
reads are a contiguous piece of the trail.

`EntriesInOrder` follows an entry from the queue to the trail. A process sends only the head of its
queue and sends it until it knows the answer, so what was sent is older than what waits
(`QueueOrder`, `SentBehind`). Several INSERTs of one process may be on their way at once, one lost
and one retried; `WireFollows` says that one whose number is still free is newer than every row of
its process, so whichever is executed first, the others meet the unique index.

*Reminders.* `ClaimHonoured` needs that an answer "ok" comes of a mail that arrived (`OkArrived`)
and that a session under way is sent to its whole roster (`AllSent`); then a stamp that stays has a
reader, a dead run, or a run that still deals with it (`Handling`), and the roll back takes the
stamp away exactly where nobody was reached. `Once` follows a session through its life: as long as
nobody has begun with it (`Pristine`) nobody has its mail and none is on its way; a run deals only
with sessions that carry its own stamp (`Stamps`, `OwnWork`); under way, those whose send did not
go well have no mail (`SendsTrue`); and a mail nobody waits for is of a run that died, whose stamp
stays for ever (`StraysOfDead`). A late mail breaks `StraysOfDead`, a shared stamp breaks `Stamps`.

*Membership.* `Fits` says what a request may count on while others commit: the shape of what it
carries (`Requests`), the edit it will come back to (`Steady`), whose enrollment it has in hand
(`AtHand`), and what its transaction has written. `Adding`: inserted rows are active enrollments in
the team it edits, of learners it is done with, one each. `Ending`: whoever it has marked as
transferred has a row in that team, committed or inserted, or is the learner in hand, whose row
comes next. `FitKept` shows that none of this is disturbed by another commit, since no row
disappears or changes its learner or team (`Grown`). `Apart` says that no two active rows clash,
committed or waiting to be; an INSERT keeps it because it waits for every transaction whose outcome
decides (`Pending`), a commit because what it ends no longer counts and what it adds was apart
(`WrittenFits`). `EnrolledOnceEach` is `Apart`; `NobodyLeftBehind` is `Ending` at the commit, when
nobody is in hand (`WrittenArrives`).

`MembersAgree` and `OneTeamHolds` rest on a second invariant, `Turns`: while requests take turns
(`orderly`), the rows are `Calm`. Committed rows agree between any two statements (`Agree`,
`OneClass`, `OneTeam`), at most one request is at work, and `Knows` says for each point of a
handler what its transaction has written of the change to come: an edit, that the rows are still as
it read them (`Current`) and that it deletes exactly its own members; a synchronisation, which
learners it has moved and dropped so far (`Synced`: `PairsSynced` for the members' rows,
`EnrSynced` for the enrollments), so that at its end both tables change by the same diff; a
deletion, that it ends what the team or the user holds. One lemma per action keeps it
(`StepCalm`), and the three kinds of commit (`SyncCommitCalm`, `RowCommitCalm`,
`DeletionCommitCalm`) show that what was known makes the rows agree again. It is a proof by cases
over one request at a time, but over any number of requests, learners and teams one after the
other: a request may fail anywhere, and an edit that has taken a class from another team and then
fails leaves a state the next request starts from. With overlapping requests `OneTeamPerMember` is
false (section 3).

*Attendance.* `Typed` holds the shape of server rows, posted sheets, device and page together,
since requests pass from one to the other, and that marks and requests at work are of sessions that
exist (`KnownOnly`), so that an import overwrites none. `SheetMatches` is inductive with it. For
`ExportedOnceHolds` a row that was claimed is never pending again although re-marking may rewrite
it (`Filed`). `SubmittedKept` needs that the records a request has left behind are rows, and that
an accepted one has left all behind (`Written`), however many requests write the same key.
`ActivityCovers` says that a mark not yet counted in the learner's last activity is in the hands of
a request that has still to count it (`CoverInv`), with the start it was marked under, unless a
request failed; sessions that move do not touch either.

*Assessment and Certification.* Requests remember rows by id between statements; `Remembered` and
`Sourcing` say that these rows exist. `OneActive` and `Recertified` rest on the unique index and on
the check in the statement itself, for certificates that are re-issued and assignments that are
archived. `Mailed`: the log row is inserted before the mail is sent, so a notice to be sent has its
row, was not sent before and is in the hands of one scan (`MailInv`), and a scan that dies takes
the right to send with it. `AttemptsWithin` counts: while requests stand between the count and the
INSERT, the attempts used plus those requests stay below the largest limit the quiz has had plus the number of requests
(`RoomForAll`), by the cardinalities of finite sets; a grade, which writes a whole row, does not
move an attempt to another learner (`GradesOwn`).

*English operations.* `Typed` says which lists of rows each kind of request may want (`Ordered`),
and that the meeting it has loaded exists. `OneRun` follows from the index and the transfer's
check. `Rosters` says that an active enrollment uses the open membership it names, that only a
learner's last membership in a class can be open, and that an open one is used; each of join, leave
and transfer may open, close or hand over a membership, and two runs of a class share one.
`Capacities` then bounds a run by its class, since its learners are members of it. `Chained` says
that a transferred enrollment is the source of exactly one other.

`Locking` says what a transaction holds: the first rows of its request and nothing else while it takes
them (`Taking`), and afterwards what `Holding` lists per kind. `WaitersHold` reads from it what one
that is waited for, and waits itself, can be. Nobody in a cycle waits for a learner's row
(`NoneAwaitsLearners`), so everyone waits for a class, a meeting, its unit or an index entry. Only a
reschedule, or a new session that waits for its second entry, holds an entry and waits, and both for
another entry; two new sessions never wait in a row (`OneSessionWaits`). Only a move or cancellation
holds a meeting while it wants the unit, and only a save a unit while it wants the meeting; and only a
transfer holds a class while it wants another. In each case `Cycles` names a part of the cycle that
waits for itself, and a cycle has no smaller part that does.

For `Evidence` and `NoLostUpdate`, `Saving` keeps what the second reading of the roster found until it
is written. Status and place of a meeting with a writer at work cannot change (`WriterHolds`: she
holds the meeting, `StatusSteps`), a move that found the meeting planned holds it too (`Moving`), a
meeting that has begun is neither moved nor cancelled, and enrollments keep their first session.

*English archive.* The allocation is a pure function, so most of this proof is about loops. What a
loop computes for every input is an induction, and the library's induction theorems cannot be used
here; the lemmas start from `LeastNumber` instead (a non-empty set of numbers has a least one, by
the library's `WFMin`) and take the least counterexample. `LoopExists` and
`EnumerationExists` show this way that the recursive functions and the `CHOOSE`s of the module
denote something.

For the search, `SolutionsAgree` says what a visited node hands back: the first of the cheapest
among the best way it was given and all the ways that extend its choice by a slot not yet tried.
The measure is the number of sessions and slots left. A branch is cut when its cost exceeds that
of the best way, and costs only grow with each further session, so `CutLosesNothing`: every way
below the branch is dearer too. From the root all ways remain, so `BestIsCheapest`, for any slots
and any sessions no more than them.

For the calendar, `CalendarInv` is the invariant of the loop: dates hold no more than their slots
and classes (`DatesHold`), a session that was moved found no nearer date with room (`Nearest`),
and one still to move has no room at home (`NoRoomAtHome`). Room only shrinks as places are
added, which is why the dates passed over stay closed. That `NoRoomAtHome` holds at first is the
one fact about `chooseSessionsToKeep` that is not local: it keeps as many sessions as there are
slots or classes, so whoever is left meets a full date or his own class (`KeptLeaveNoRoom`).
`PlansKeepSlots` follows: of what `validateArchiveSessionAllocation` refuses, only the order of a
run and a session without a date can ever occur.

The state needs one fact more, `OverlayIsPlanned`: until a repair, the overlay is exactly the
difference between the book and the plan of the import that planned. A second import of that book
applies the overlay, and a session without a row is one the plan left where the book has it
(`ImportsReproduce`). That the meetings are unique is the index's doing, which `Import` states as
the absence of `Knots`. TLC checks `ArchiveInv`, `DatesHold`, `Nearest` and `SlotsKept` in the
instance of the run as well.

*Only model-checked.* The three liveness properties, `Served`, `RunEnds` and `QueueDrains`: they
rest on fairness, and so on `ENABLED`, which is beyond the prover. Every other property of a passing run,
invariant or action property, is stated by a theorem.

## 6. What is not modelled

- Reads: listings, numbering, positions, calendars, reports, dashboards, metrics, search, and the
  exports other than that of attendance (which is one because it claims rows). The English read
  models belong here too.
- CRUD of a single row (organisation, catalogue, custom fields, branding, the question bank,
  evaluation): one statement that decides nothing from an earlier read.
- Authorisation, authentication and request validation: refusals that change nothing; credential
  checks rest on cryptography and on the wall clock.
- The Google calendar, the event bus and the in-app feed: best-effort calls after COMMIT.
- The pages of the React client other than the attendance page and the offline panel: they render
  what the server answers and send one request per click. They, with the reads, CRUD, migrations
  and developer scripts, are most of the repository's lines, which is why the mapped lines are a
  small part of it.
- Parsing of workbooks and of uploads: text to rows, without state.
- Two statements of one transaction seeing different snapshots is modelled; higher isolation
  levels and statement-level details of index locking beyond waiting are not.
- Deadlocks between row locks end in PostgreSQL's abort of a victim, which is `Fail` (and
  `AbortVictim` in `EnglishRuns`, which also says who can meet in one).
- A client's `release(err)`, `ping` and `closePool`; a lost database.

## 7. Plan

Done: the modules of section 2. What remains, in order of weight:

1. `Trainers`: `setTrainers` checks for an overlapping session of a trainer and writes without a
   transaction (`domains/schedule/use-cases.js:418`), and a move does not check trainers at all.
2. `CronRuns`: heartbeats of overlapping runs and the health derived from them.
3. `SlotPolicy`: week bounds and configured windows as functions, against a reference definition;
   the analytics cache and its invalidation.

Abstract specifications worth stating: a roster that only ever seats queue heads, for `Waitlist`;
"at most once" for `Reminders` and the notification log, shared by both.
