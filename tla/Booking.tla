------------------------------ MODULE Booking ------------------------------
(***************************************************************************)
(* The booking component: every request that creates, cancels or edits a   *)
(* session, as the interleaving of its SQL statements.                     *)
(*                                                                         *)
(* A request runs one transaction at READ COMMITTED on its own pool        *)
(* client: each statement reads what is committed when it is issued, the   *)
(* writes become visible together at COMMIT, and a row another transaction *)
(* has written stays locked until that transaction ends. A statement that  *)
(* takes a lock commutes with everything the others can do while the lock  *)
(* is held, so the closing run of writes of a transaction is one action    *)
(* with its COMMIT; every read another request may invalidate is an action *)
(* of its own.                                                             *)
(*                                                                         *)
(* Rosters, capacity and waitlists are the subject of Waitlist.tla; a      *)
(* request refused because of them is Fail here.                           *)
(***************************************************************************)
EXTENDS Naturals, FiniteSets

CONSTANTS Classes,     \* class_id values
          Teams,       \* team ids
          Starts,      \* start instants
          Offices,     \* office ids
          Rooms,       \* room ids
          Sessions,    \* ids the inserts draw from: the bound on rows created
          Requests,    \* request slots of the server
          Null,        \* SQL NULL
          Keep,        \* a field the PUT body leaves out
          ClassOf,     \* teams.class_id
          WeekOf,      \* the ISO week of a start (getWeekBounds)
          OfficeOf,    \* rooms.office_id
          Overlaps,    \* pairs of starts whose windows overlap
          Handlers,    \* Handlers[r]: the handlers request slot r serves
          Bodies       \* the PUT bodies admins send: the bound on edits

WeeklyTeamLimit == 2

HandlerNames == {"book", "cohort", "admin", "cancel", "update"}

ASSUME BookingAssumption ==
    /\ ClassOf \in [Teams -> Classes \cup {Null}]
    /\ OfficeOf \in [Rooms -> Offices]
    /\ DOMAIN WeekOf = Starts
    /\ IsFiniteSet(Sessions)
    /\ Overlaps \subseteq Starts \X Starts
    /\ \A t \in Starts : <<t, t>> \in Overlaps
    /\ Handlers \in [Requests -> SUBSET HandlerNames]
    /\ Null \notin Classes \cup Teams \cup Starts \cup Rooms \cup Offices
    /\ Null \notin Sessions \cup Requests
    /\ Keep \notin Classes \cup Teams \cup Starts \cup Rooms \cup {Null}

VARIABLES sessions,    \* the schedules table, one row per id
          ledger,      \* room_bookings: a set of [room, start, session]
          teamLock,    \* teamLock[t]: request holding SELECT ... FOR UPDATE
          rowLock,     \* rowLock[s]: request whose UPDATE of s is uncommitted
          req          \* each request's progress and what it has read

vars == <<sessions, ledger, teamLock, rowLock, req>>

-----------------------------------------------------------------------------
(* Rows, bookings and the local state of a request.                        *)

Row == [status : {"none", "scheduled", "cancelled"},
        class  : Classes \cup {Null},
        team   : Teams \cup {Null},
        start  : Starts \cup {Null},
        office : Offices \cup {Null},
        room   : Rooms \cup {Null}]

NoRow == [status |-> "none", class |-> Null, team |-> Null, start |-> Null,
          office |-> Null, room |-> Null]

RoomBooking == [room : Rooms, start : Starts, session : Sessions]

\* The PUT body of updateSchedule: Keep where the field is absent.
Body == [class : Classes \cup {Keep}, team : Teams \cup {Keep},
         start : Starts \cup {Keep}, room : Rooms \cup {Null, Keep}]

ASSUME BodiesAreBodies == Bodies \subseteq Body

NoBody == [class |-> Keep, team |-> Keep, start |-> Keep, room |-> Keep]

PCs == {"idle", "lockTeam", "count", "collide", "insert",
        "release", "releasing", "flip",
        "moveCollide", "moveCount", "reassign", "write", "rekey"}

\* want: the row a create inserts, or the row an edit or a cancellation read
\* before its transaction. dead: ledger rows its DELETE has found (releasing)
\* or removed and not committed (afterwards).
Request == [pc : PCs, op : HandlerNames \cup {Null}, sid : Sessions \cup {Null},
            want : Row, body : Bodies \cup {NoBody}, dead : SUBSET RoomBooking]

Idle == [pc |-> "idle", op |-> Null, sid |-> Null, want |-> NoRow,
         body |-> NoBody, dead |-> {}]

TypeOK ==
    /\ sessions \in [Sessions -> Row]
    /\ ledger \subseteq RoomBooking
    /\ teamLock \in [Teams -> Requests \cup {Null}]
    /\ rowLock \in [Sessions -> Requests \cup {Null}]
    /\ req \in [Requests -> Request]

Init ==
    /\ sessions = [s \in Sessions |-> NoRow]
    /\ ledger = {}
    /\ teamLock = [t \in Teams |-> Null]
    /\ rowLock = [s \in Sessions |-> Null]
    /\ req = [r \in Requests |-> Idle]

-----------------------------------------------------------------------------
(* The queries of repository.pg.js, on the committed tables.               *)

Live(s) == sessions[s].status = "scheduled"

TeamWeek(t, st, x) ==
    {s \in Sessions \ {x} : /\ Live(s)
                            /\ sessions[s].team = t
                            /\ WeekOf[sessions[s].start] = WeekOf[st]}

\* countSchedulesForTeamInWeek: no row has booked_team_id = NULL in SQL.
CountSchedulesForTeamInWeek(t, st, x) ==
    IF t = Null THEN 0 ELSE Cardinality(TeamWeek(t, st, x))

FindScheduleForCollision(c, st, x) ==
    \E s \in Sessions \ {x} : /\ Live(s)
                              /\ sessions[s].class = c
                              /\ <<sessions[s].start, st>> \in Overlaps

\* The partial unique index on (class_id, start_time) WHERE scheduled.
SlotTaken(c, st, x) ==
    \E s \in Sessions \ {x} : /\ Live(s)
                              /\ sessions[s].class = c
                              /\ sessions[s].start = st

\* Ledger rows a transaction other than r has deleted and not committed.
HeldByOthers(r) ==
    UNION {req[q].dead : q \in {p \in Requests \ {r} : req[p].pc # "releasing"}}

\* The unique key (room_id, start_time), as r's INSERT finds it.
AtKey(rm, st) == {b \in ledger : b.room = rm /\ b.start = st}

RoomKeyFree(r, rm, st) == AtKey(rm, st) \subseteq req[r].dead

\* The INSERT does not have to wait for another transaction's DELETE.
RoomKeySettled(r, rm, st) == AtKey(rm, st) \cap HeldByOthers(r) = {}

\* assertSameOffice (DELTA A).
SameOffice(rm, off) == off # Null /\ OfficeOf[rm] = off

-----------------------------------------------------------------------------
(* The end of a transaction: COMMIT keeps the tables the action wrote,     *)
(* ROLLBACK leaves them; both release every lock of the request.           *)

ReleaseLocks(r) ==
    /\ teamLock' = [t \in Teams |-> IF teamLock[t] = r THEN Null ELSE teamLock[t]]
    /\ rowLock' = [s \in Sessions |-> IF rowLock[s] = r THEN Null ELSE rowLock[s]]
    /\ req' = [req EXCEPT ![r] = Idle]

Rollback(r) == ReleaseLocks(r) /\ UNCHANGED <<sessions, ledger>>

Goto(r, label) ==
    /\ req' = [req EXCEPT ![r].pc = label]
    /\ UNCHANGED <<sessions, ledger, teamLock, rowLock>>

At(r, label) == req[r].pc = label

\* Any statement may fail, and the guards this module abstracts (booking
\* window, scheduling mode, capacity, attendance, deadlock victim) refuse.
Fail(r) == ~At(r, "idle") /\ Rollback(r)

Start(r, op, label, sid, want, body) ==
    /\ At(r, "idle")
    /\ op \in Handlers[r]
    /\ req' = [req EXCEPT ![r] = [pc |-> label, op |-> op, sid |-> sid,
                                  want |-> want, body |-> body, dead |-> {}]]
    /\ UNCHANGED <<sessions, ledger, teamLock, rowLock>>

NewRow(c, t, st, off, rm) ==
    [status |-> "scheduled", class |-> c, team |-> t, start |-> st,
     office |-> off, room |-> rm]

-----------------------------------------------------------------------------
(* Creating a session: bookSlot, bookCohortSlot and adminCreate.           *)

\* bookSlot takes the team row FOR UPDATE; a team without a class is refused.
BookSlot(r) ==
    \E t \in Teams, st \in Starts :
        /\ ClassOf[t] # Null
        /\ Start(r, "book", "lockTeam", Null,
                 NewRow(ClassOf[t], t, st, Null, Null), NoBody)

\* bookCohortSlot: no team, so no lock and no weekly cap.
BookCohortSlot(r) ==
    \E c \in Classes, st \in Starts, off \in Offices \cup {Null},
       rm \in Rooms \cup {Null} :
        Start(r, "cohort", "collide", Null, NewRow(c, Null, st, off, rm), NoBody)

\* adminCreate loads the team without a lock.
AdminCreate(r) ==
    \E c \in Classes, t \in Teams, st \in Starts, off \in Offices \cup {Null},
       rm \in Rooms \cup {Null} :
        /\ ClassOf[t] \in {c, Null}
        /\ Start(r, "admin", "count", Null, NewRow(c, t, st, off, rm), NoBody)

\* Mutant: the team row is read without FOR UPDATE.
LoadTeamUnlocked(r) == At(r, "lockTeam") /\ Goto(r, "count")

LoadTeamForBooking(r) ==
    LET t == req[r].want.team IN
    /\ At(r, "lockTeam")
    /\ teamLock[t] = Null
    /\ teamLock' = [teamLock EXCEPT ![t] = r]
    /\ req' = [req EXCEPT ![r].pc = "count"]
    /\ UNCHANGED <<sessions, ledger, rowLock>>

\* assertBookable, first the weekly cap, then the class collision.
AssertWeeklyCap(r) ==
    LET w == req[r].want IN
    /\ At(r, "count")
    /\ IF CountSchedulesForTeamInWeek(w.team, w.start, Null) >= WeeklyTeamLimit
       THEN Rollback(r)
       ELSE Goto(r, "collide")

AssertNoCollision(r) ==
    LET w == req[r].want IN
    /\ At(r, "collide")
    /\ IF FindScheduleForCollision(w.class, w.start, Null)
       THEN Rollback(r)
       ELSE Goto(r, "insert")

\* insertSession, acquireRoomLock and COMMIT. Both unique keys are taken here.
RoomAcquirable(r, rm, st, off) ==
    rm # Null => SameOffice(rm, off) /\ RoomKeyFree(r, rm, st)

RoomSettled(r, rm, st) == rm # Null => RoomKeySettled(r, rm, st)

InsertSession(r) ==
    LET w == req[r].want IN
    /\ At(r, "insert")
    /\ RoomSettled(r, w.room, w.start)
    /\ IF \/ SlotTaken(w.class, w.start, Null)
          \/ ~RoomAcquirable(r, w.room, w.start, w.office)
       THEN Rollback(r)
       ELSE /\ \E s \in Sessions :
                 /\ sessions[s].status = "none"
                 /\ sessions' = [sessions EXCEPT ![s] = w]
                 /\ ledger' = IF w.room = Null THEN ledger
                              ELSE ledger \cup {[room |-> w.room, start |-> w.start,
                                                 session |-> s]}
            /\ ReleaseLocks(r)

-----------------------------------------------------------------------------
(* Cancelling: cancelSlot and deleteSchedule. The room is released first,  *)
(* the row is flipped second, each by its own statement.                   *)

CancelSchedule(r) ==
    \E s \in Sessions :
        /\ Live(s)
        /\ Start(r, "cancel", "release", s, sessions[s], NoBody)

\* DELETE FROM room_bookings WHERE schedule_id = s: the rows its snapshot shows.
ReleaseRoomLock(r) ==
    /\ At(r, "release")
    /\ req' = [req EXCEPT ![r].pc = "releasing",
                          ![r].dead = {b \in ledger : b.session = req[r].sid}]
    /\ UNCHANGED <<sessions, ledger, teamLock, rowLock>>

\* It waits for rows another transaction has deleted, and skips those gone.
RoomLockReleased(r) ==
    /\ At(r, "releasing")
    /\ req[r].dead \cap ledger \cap HeldByOthers(r) = {}
    /\ req' = [req EXCEPT ![r].pc = IF req[r].op = "cancel" THEN "flip" ELSE "rekey",
                          ![r].dead = req[r].dead \cap ledger]
    /\ UNCHANGED <<sessions, ledger, teamLock, rowLock>>

CancelScheduleById(r) ==
    LET s == req[r].sid IN
    /\ At(r, "flip")
    /\ rowLock[s] = Null
    /\ IF Live(s)
       THEN /\ sessions' = [sessions EXCEPT ![s].status = "cancelled", ![s].room = Null]
            /\ ledger' = ledger \ req[r].dead
            /\ ReleaseLocks(r)
       ELSE Rollback(r)

-----------------------------------------------------------------------------
(* Editing: updateSchedule. "want" is the row read before the transaction. *)

Given(x, y) == IF x = Keep THEN y ELSE x

FinalStart(r) == Given(req[r].body.start, req[r].want.start)
FinalClass(r) == Given(req[r].body.class, req[r].want.class)
FinalRoom(r)  == Given(req[r].body.room, req[r].want.room)

TeamReassigned(r) == req[r].body.team \notin {Keep, req[r].want.team}

\* The three outcomes of the room section (DELTA A).
KeyMoves(r) ==
    \/ req[r].body.room # Keep /\ req[r].body.room # req[r].want.room
    \/ FinalStart(r) # req[r].want.start
    \/ FinalClass(r) # req[r].want.class

ClearsRoom(r) == req[r].body.room = Null

\* Mutant: a session that only moves keeps the claim of its old start.
RekeysChangedRoom(r) ==
    req[r].body.room \notin {Keep, Null} /\ req[r].body.room # req[r].want.room

RekeysRoom(r) ==
    IF req[r].body.room = Keep
    THEN req[r].want.room # Null /\ (req[r].body.start # Keep \/ req[r].body.class # Keep)
    ELSE req[r].body.room # Null /\ KeyMoves(r)

\* The whitelisted columns the body writes; none makes the UPDATE a SELECT.
WritesRow(r) == \E f \in {"class", "team", "start"} : req[r].body[f] # Keep

AfterChecks(r) == IF TeamReassigned(r) THEN "reassign" ELSE "write"

UpdateSchedule(r) ==
    \E s \in Sessions, b \in Bodies :
        /\ Live(s)
        /\ b # NoBody
        /\ Start(r, "update",
                 IF b.start # Keep THEN "moveCollide"
                 ELSE IF b.team \notin {Keep, sessions[s].team} THEN "reassign"
                 ELSE "write",
                 s, sessions[s], b)

MoveCollision(r) ==
    /\ At(r, "moveCollide")
    /\ IF FindScheduleForCollision(FinalClass(r), FinalStart(r), req[r].sid)
       THEN Rollback(r)
       ELSE Goto(r, "moveCount")

MoveWeeklyCap(r) ==
    LET t == Given(req[r].body.team, req[r].want.team) IN
    /\ At(r, "moveCount")
    /\ IF CountSchedulesForTeamInWeek(t, FinalStart(r), req[r].sid) >= WeeklyTeamLimit
       THEN Rollback(r)
       ELSE Goto(r, AfterChecks(r))

\* The target team's class is compared with the class read before the tx.
ReassignGuard(r) ==
    LET t == req[r].body.team IN
    /\ At(r, "reassign")
    /\ IF \/ ClassOf[t] # req[r].want.class
          \/ CountSchedulesForTeamInWeek(t, FinalStart(r), req[r].sid) >= WeeklyTeamLimit
       THEN Rollback(r)
       ELSE Goto(r, "write")

\* updateScheduleById: WHERE id = s alone, whatever the row's status is now.
UpdateScheduleById(r) ==
    LET s == req[r].sid IN
    /\ At(r, "write")
    /\ IF WritesRow(r)
       THEN /\ rowLock[s] = Null
            /\ rowLock' = [rowLock EXCEPT ![s] = r]
       ELSE UNCHANGED rowLock
    /\ req' = [req EXCEPT ![r].pc = IF ClearsRoom(r) \/ RekeysRoom(r)
                                    THEN "release" ELSE "rekey"]
    /\ UNCHANGED <<sessions, ledger, teamLock>>

EditedResurrects(r, row) ==
    [row EXCEPT !.status = "scheduled", !.start = Given(req[r].body.start, row.start)]

Edited(r, row) ==
    [row EXCEPT !.class = Given(req[r].body.class, row.class),
                !.team  = Given(req[r].body.team, row.team),
                !.start = Given(req[r].body.start, row.start),
                !.room  = IF ClearsRoom(r) THEN Null
                          ELSE IF RekeysRoom(r) THEN FinalRoom(r)
                          ELSE row.room]

\* The unique index watches the edited row only while it is live.
EditClashes(r) ==
    LET s == req[r].sid
        e == Edited(r, sessions[s])
    IN  Live(s) /\ SlotTaken(e.class, e.start, s)

\* acquireRoomLock at the new key when the room section asks for it, and COMMIT.
CommitUpdate(r) ==
    LET s == req[r].sid
        rekeyed == [room |-> FinalRoom(r), start |-> FinalStart(r), session |-> s]
    IN
    /\ At(r, "rekey")
    /\ rowLock[s] \in {Null, r}
    /\ RekeysRoom(r) => RoomKeySettled(r, FinalRoom(r), FinalStart(r))
    /\ IF \/ EditClashes(r)
          \/ /\ RekeysRoom(r)
             /\ ~RoomAcquirable(r, FinalRoom(r), FinalStart(r), req[r].want.office)
       THEN Rollback(r)
       ELSE /\ sessions' = [sessions EXCEPT ![s] = Edited(r, sessions[s])]
            /\ ledger' = (ledger \ req[r].dead)
                           \cup (IF RekeysRoom(r) THEN {rekeyed} ELSE {})
            /\ ReleaseLocks(r)

-----------------------------------------------------------------------------
Step(r) ==
    \/ BookSlot(r) \/ BookCohortSlot(r) \/ AdminCreate(r)
    \/ LoadTeamForBooking(r) \/ AssertWeeklyCap(r) \/ AssertNoCollision(r)
    \/ InsertSession(r)
    \/ CancelSchedule(r) \/ ReleaseRoomLock(r) \/ RoomLockReleased(r)
    \/ CancelScheduleById(r)
    \/ UpdateSchedule(r) \/ MoveCollision(r) \/ MoveWeeklyCap(r)
    \/ ReassignGuard(r) \/ UpdateScheduleById(r) \/ CommitUpdate(r)
    \/ Fail(r)

Next == \E r \in Requests : Step(r)

Spec == Init /\ [][Next]_vars

-----------------------------------------------------------------------------
(* Properties.                                                             *)

\* No two live sessions of a class start at the same instant: whatever the
\* interleaving, a create or a move that lost the race is refused, and an edit
\* that lands on a cancelled row does not bring it back (services/
\* scheduleService.js bookSlot, domains/schedule/use-cases.js updateSchedule).
OneLivePerSlot ==
    \A s1, s2 \in Sessions :
        (/\ s1 # s2
         /\ Live(s1) /\ Live(s2)
         /\ sessions[s1].class = sessions[s2].class)
        => sessions[s1].start # sessions[s2].start

\* A room is claimed by one ledger row per start, although a cancellation deletes
\* its claim before it commits (room-lock-policy.js, room_bookings' unique key).
OneClaimPerRoomSlot ==
    \A b1, b2 \in ledger :
        b1.room = b2.room /\ b1.start = b2.start => b1 = b2

\* A team never owns more than two live sessions of one ISO week, although
\* assertBookable counts and insertSession inserts in two statements.
WeeklyCap ==
    \A t \in Teams, st \in Starts :
        Cardinality(TeamWeek(t, st, Null)) <= WeeklyTeamLimit

\* Two live sessions of a class never overlap in time: findScheduleForCollision
\* looks for overlaps, the unique index only for equal starts.
NoOverlap ==
    \A s1, s2 \in Sessions :
        s1 # s2 /\ Live(s1) /\ Live(s2) /\ sessions[s1].class = sessions[s2].class
        => <<sessions[s1].start, sessions[s2].start>> \notin Overlaps

\* A live session that shows a room holds the claim on it at its own start,
\* through every edit of room and time (updateSchedule's room section).
LiveRoomIsClaimed ==
    \A s \in Sessions :
        Live(s) /\ sessions[s].room # Null =>
            [room |-> sessions[s].room, start |-> sessions[s].start,
             session |-> s] \in ledger

\* Two live sessions never sit in the same room at the same start: what the
\* ledger of room-lock-policy.js exists for.
RoomExclusive ==
    \A s1, s2 \in Sessions :
        s1 # s2 /\ Live(s1) /\ Live(s2) /\ sessions[s1].room # Null
        /\ sessions[s1].room = sessions[s2].room
        => sessions[s1].start # sessions[s2].start

\* Every claim belongs to a live session that shows that room at that start:
\* cancelling and editing leave no orphan in room_bookings.
ClaimsAreLive ==
    \A b \in ledger :
        /\ Live(b.session)
        /\ sessions[b.session].room = b.room
        /\ sessions[b.session].start = b.start

\* A cancelled session is history: no later step changes its row, whatever an
\* edit that read it live still writes (updateScheduleById).
CancelledIsHistory ==
    [][\A s \in Sessions :
          sessions[s].status = "cancelled" => sessions'[s] = sessions[s]]_vars

\* A live session that belongs to a team belongs to that team's class, through
\* every edit of either (adminCreate, updateSchedule).
TeamStaysInClass ==
    \A s \in Sessions :
        Live(s) /\ sessions[s].team # Null
        => ClassOf[sessions[s].team] \in {Null, sessions[s].class}

-----------------------------------------------------------------------------
(* What makes the properties above inductive.                              *)

Creating == {"lockTeam", "count", "collide", "insert"}

\* A row that exists has a class and a start; a request under way carries such
\* a row, the id of the row it cancels or edits, and deletes nothing while it
\* creates (the rows come from the queries, never from the client).
Underway ==
    /\ \A s \in Sessions :
          sessions[s].status # "none" =>
              sessions[s].class \in Classes /\ sessions[s].start \in Starts
    /\ \A r \in Requests :
          ~At(r, "idle") =>
              /\ req[r].want.status = "scheduled"
              /\ req[r].want.class \in Classes
              /\ req[r].want.start \in Starts
              /\ IF req[r].pc \in Creating THEN req[r].dead = {}
                                          ELSE req[r].sid \in Sessions

\* When no administrator books for a team and nobody edits, a request for a team
\* that is past its lock holds it, and its count still leaves room for one session.
LeadersAlone == \A r \in Requests : Handlers[r] \subseteq {"book", "cohort", "cancel"}

CountStillHolds ==
    \A r \in Requests :
        LET w == req[r].want IN
        /\ req[r].pc \in {"lockTeam", "count"} => w.team # Null
        /\ req[r].pc \in {"count", "collide", "insert"} /\ w.team # Null => teamLock[w.team] = r
        /\ req[r].pc \in {"collide", "insert"} /\ w.team # Null =>
               Cardinality(TeamWeek(w.team, w.start, Null)) < WeeklyTeamLimit

-----------------------------------------------------------------------------
(* The sessions as the calendar of SlotCalendar sees them.                 *)

Entry(row) ==
    CASE row.status = "none" -> <<"unborn">>
      [] row.status = "scheduled" -> <<row.class, row.start>>
      [] row.status = "cancelled" -> <<"gone">>

CalendarOf == [s \in Sessions |-> Entry(sessions[s])]

Calendar == INSTANCE SlotCalendar WITH
                Slots <- Classes \X Starts, cal <- CalendarOf

\* Every step of every request is a step of the slot calendar.
RefinesCalendar == Calendar!Spec
=============================================================================
