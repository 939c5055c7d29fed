--------------------------- MODULE BookingProofs ---------------------------
(***************************************************************************)
(* What holds of Booking for every set of sessions, teams, rooms and       *)
(* request slots, every class and week assignment and every set of         *)
(* handlers.                                                               *)
(***************************************************************************)
EXTENDS Booking, FiniteSetTheorems, TLAPS

\* The row a request carries is a row, the body it carries a body.
LEMMA ReqType ==
    ASSUME TypeOK, NEW r \in Requests
    PROVE  /\ req[r] \in Request
           /\ req[r].want \in Row
           /\ req[r].body \in Body
           /\ req[r].dead \subseteq RoomBooking
           /\ req[r].sid \in Sessions \cup {Null}
  BY BodiesAreBodies DEF TypeOK, Request, NoBody, Body

\* Beginning a transaction keeps the types.
LEMMA StartTyped ==
    ASSUME TypeOK, NEW r \in Requests, NEW op \in HandlerNames, NEW l \in PCs,
           NEW s \in Sessions \cup {Null}, NEW w \in Row,
           NEW b \in Bodies \cup {NoBody}, Start(r, op, l, s, w, b)
    PROVE  TypeOK'
  BY DEF TypeOK, Start, Request

\* Releasing the locks of a request keeps the types of locks and requests.
LEMMA ReleaseTyped ==
    ASSUME TypeOK, NEW r \in Requests, ReleaseLocks(r)
    PROVE  /\ teamLock' \in [Teams -> Requests \cup {Null}]
           /\ rowLock' \in [Sessions -> Requests \cup {Null}]
           /\ req' \in [Requests -> Request]
  <1>1. Idle \in Request
    BY DEF Idle, Request, PCs, NoRow, Row
  <1> QED BY <1>1 DEF TypeOK, ReleaseLocks

LEMMA RollbackTyped ==
    ASSUME TypeOK, NEW r \in Requests, Rollback(r)
    PROVE  TypeOK'
  BY ReleaseTyped DEF TypeOK, Rollback

LEMMA GotoTyped ==
    ASSUME TypeOK, NEW r \in Requests, NEW l \in PCs, Goto(r, l)
    PROVE  TypeOK'
  BY DEF TypeOK, Goto, Request

\* An edit turns a row into a row.
LEMMA EditedTyped ==
    ASSUME TypeOK, NEW r \in Requests, NEW row \in Row
    PROVE  Edited(r, row) \in Row
  <1>1. /\ req[r].body.class \in Classes \cup {Keep}
        /\ req[r].body.team \in Teams \cup {Keep}
        /\ req[r].body.start \in Starts \cup {Keep}
        /\ req[r].body.room \in Rooms \cup {Null, Keep}
    BY ReqType DEF Body
  <1>2. req[r].want.room \in Rooms \cup {Null}
    BY ReqType DEF Row
  <1>3. /\ Given(req[r].body.class, row.class) \in Classes \cup {Null}
        /\ Given(req[r].body.team, row.team) \in Teams \cup {Null}
        /\ Given(req[r].body.start, row.start) \in Starts \cup {Null}
        /\ FinalRoom(r) \in Rooms \cup {Null}
        /\ row.room \in Rooms \cup {Null}
    BY <1>1, <1>2 DEF Given, FinalRoom, Row
  <1> DEFINE rm == IF ClearsRoom(r) THEN Null
                   ELSE IF RekeysRoom(r) THEN FinalRoom(r) ELSE row.room
  <1>4. rm \in Rooms \cup {Null}
    BY <1>3
  <1> HIDE DEF rm
  <1>5. Edited(r, row) = [row EXCEPT
             !.class = Given(req[r].body.class, row.class),
             !.team = Given(req[r].body.team, row.team),
             !.start = Given(req[r].body.start, row.start),
             !.room = rm]
    BY DEF Edited, rm
  <1> QED BY <1>3, <1>4, <1>5 DEF Row

\* The claim an edit asks for names a room and a start.
LEMMA RekeyTyped ==
    ASSUME TypeOK, Underway, NEW r \in Requests, ~At(r, "idle")
    PROVE  /\ FinalStart(r) \in Starts
           /\ RekeysRoom(r) => FinalRoom(r) \in Rooms
  <1>1. /\ req[r].body.start \in Starts \cup {Keep}
        /\ req[r].body.room \in Rooms \cup {Null, Keep}
        /\ req[r].want.room \in Rooms \cup {Null}
        /\ req[r].want.start \in Starts
    BY ReqType DEF Body, Row, Underway
  <1> QED BY <1>1 DEF FinalStart, FinalRoom, RekeysRoom, Given

\* Every statement of every handler keeps the types.
LEMMA StepTyped ==
    ASSUME TypeOK, Underway, NEW r \in Requests, Step(r)
    PROVE  TypeOK'
  <1> USE ReqType
  <1>1. CASE BookSlot(r)
    <2>1. PICK t \in Teams, st \in Starts :
            /\ ClassOf[t] # Null
            /\ Start(r, "book", "lockTeam", Null,
                     NewRow(ClassOf[t], t, st, Null, Null), NoBody)
      BY <1>1 DEF BookSlot
    <2>2. NewRow(ClassOf[t], t, st, Null, Null) \in Row
      BY BookingAssumption DEF NewRow, Row
    <2> QED BY <2>1, <2>2, StartTyped DEF HandlerNames, PCs
  <1>2. CASE BookCohortSlot(r)
    <2>1. PICK c \in Classes, st \in Starts, off \in Offices \cup {Null},
               rm \in Rooms \cup {Null} :
            Start(r, "cohort", "collide", Null, NewRow(c, Null, st, off, rm), NoBody)
      BY <1>2 DEF BookCohortSlot
    <2>2. NewRow(c, Null, st, off, rm) \in Row
      BY DEF NewRow, Row
    <2> QED BY <2>1, <2>2, StartTyped DEF HandlerNames, PCs
  <1>3. CASE AdminCreate(r)
    <2>1. PICK c \in Classes, t \in Teams, st \in Starts,
               off \in Offices \cup {Null}, rm \in Rooms \cup {Null} :
            Start(r, "admin", "count", Null, NewRow(c, t, st, off, rm), NoBody)
      BY <1>3 DEF AdminCreate
    <2>2. NewRow(c, t, st, off, rm) \in Row
      BY DEF NewRow, Row
    <2> QED BY <2>1, <2>2, StartTyped DEF HandlerNames, PCs
  <1>4. CASE LoadTeamForBooking(r)
    <2>1. teamLock' \in [Teams -> Requests \cup {Null}]
      BY <1>4 DEF LoadTeamForBooking, TypeOK
    <2>2. [req[r] EXCEPT !.pc = "count"] \in Request
      BY DEF Request, PCs
    <2>3. req' = [req EXCEPT ![r] = [req[r] EXCEPT !.pc = "count"]]
      BY <1>4 DEF LoadTeamForBooking
    <2> QED BY <1>4, <2>1, <2>2, <2>3 DEF LoadTeamForBooking, TypeOK
  <1>5. CASE AssertWeeklyCap(r)
    BY <1>5, RollbackTyped, GotoTyped DEF AssertWeeklyCap, PCs
  <1>6. CASE AssertNoCollision(r)
    BY <1>6, RollbackTyped, GotoTyped DEF AssertNoCollision, PCs
  <1>7. CASE InsertSession(r)
    <2> DEFINE w == req[r].want
    <2>1. CASE Rollback(r)
      BY <2>1, RollbackTyped
    <2>2. CASE ~Rollback(r)
      <3>1. ReleaseLocks(r) /\ At(r, "insert")
        BY <1>7, <2>2 DEF InsertSession
      <3>2. PICK s \in Sessions :
              /\ sessions' = [sessions EXCEPT ![s] = w]
              /\ ledger' = IF w.room = Null THEN ledger
                           ELSE ledger \cup {[room |-> w.room, start |-> w.start,
                                              session |-> s]}
        BY <1>7, <2>2 DEF InsertSession
      <3>3. w.start \in Starts /\ w.room \in Rooms \cup {Null}
        BY <3>1 DEF Underway, At, Row
      <3>4. ledger' \subseteq RoomBooking
        BY <3>2, <3>3 DEF TypeOK, RoomBooking
      <3>5. sessions' \in [Sessions -> Row]
        BY <3>2 DEF TypeOK
      <3> QED BY <3>1, <3>4, <3>5, ReleaseTyped DEF TypeOK
    <2> QED BY <2>1, <2>2
  <1>8. CASE CancelSchedule(r)
    <2>1. PICK s \in Sessions :
            Start(r, "cancel", "release", s, sessions[s], NoBody)
      BY <1>8 DEF CancelSchedule
    <2>2. sessions[s] \in Row
      BY DEF TypeOK
    <2> QED BY <2>1, <2>2, StartTyped DEF HandlerNames, PCs
  <1>9. CASE ReleaseRoomLock(r)
    <2> DEFINE found == {b \in ledger : b.session = req[r].sid}
    <2>1. found \in SUBSET RoomBooking
      BY DEF TypeOK
    <2> HIDE DEF found
    <2>2. [req[r] EXCEPT !.pc = "releasing", !.dead = found] \in Request
      BY <2>1 DEF Request, PCs
    <2>3. req' = [req EXCEPT ![r] =
                    [req[r] EXCEPT !.pc = "releasing", !.dead = found]]
      BY <1>9 DEF ReleaseRoomLock, TypeOK, Request, found
    <2> QED BY <1>9, <2>2, <2>3 DEF ReleaseRoomLock, TypeOK
  <1>10. CASE RoomLockReleased(r)
    <2> DEFINE next == IF req[r].op = "cancel" THEN "flip" ELSE "rekey"
               gone == req[r].dead \cap ledger
    <2>1. gone \in SUBSET RoomBooking /\ next \in PCs
      BY DEF TypeOK, PCs
    <2> HIDE DEF next, gone
    <2>2. [req[r] EXCEPT !.pc = next, !.dead = gone] \in Request
      BY <2>1 DEF Request
    <2>3. req' = [req EXCEPT ![r] = [req[r] EXCEPT !.pc = next, !.dead = gone]]
      BY <1>10 DEF RoomLockReleased, TypeOK, Request, next, gone
    <2> QED BY <1>10, <2>2, <2>3 DEF RoomLockReleased, TypeOK
  <1>11. CASE CancelScheduleById(r)
    <2>1. CASE Rollback(r)
      BY <2>1, RollbackTyped
    <2>2. CASE ~Rollback(r)
      <3> DEFINE s == req[r].sid
      <3>1. /\ At(r, "flip") /\ Live(s)
            /\ sessions' = [sessions EXCEPT ![s].status = "cancelled", ![s].room = Null]
            /\ ledger' = ledger \ req[r].dead
            /\ ReleaseLocks(r)
        BY <1>11, <2>2 DEF CancelScheduleById
      <3>2. s \in Sessions /\ sessions[s] \in Row
        BY <3>1 DEF Underway, At, Creating, TypeOK
      <3>3. [sessions[s] EXCEPT !.status = "cancelled", !.room = Null] \in Row
        BY <3>2 DEF Row
      <3>4. sessions' = [sessions EXCEPT ![s] =
                [sessions[s] EXCEPT !.status = "cancelled", !.room = Null]]
        BY <3>1, <3>2 DEF TypeOK, Row
      <3>5. sessions' \in [Sessions -> Row]
        BY <3>3, <3>4 DEF TypeOK
      <3> QED BY <3>1, <3>5, ReleaseTyped DEF TypeOK
    <2> QED BY <2>1, <2>2
  <1>12. CASE UpdateSchedule(r)
    <2>1. PICK s \in Sessions, b \in Bodies, l \in {"moveCollide", "reassign", "write"} :
            Start(r, "update", l, s, sessions[s], b)
      BY <1>12 DEF UpdateSchedule
    <2>2. sessions[s] \in Row
      BY DEF TypeOK
    <2> QED BY <2>1, <2>2, StartTyped DEF HandlerNames, PCs
  <1>13. CASE MoveCollision(r)
    BY <1>13, RollbackTyped, GotoTyped DEF MoveCollision, PCs
  <1>14. CASE MoveWeeklyCap(r)
    BY <1>14, RollbackTyped, GotoTyped DEF MoveWeeklyCap, AfterChecks, PCs
  <1>15. CASE ReassignGuard(r)
    BY <1>15, RollbackTyped, GotoTyped DEF ReassignGuard, PCs
  <1>16. CASE UpdateScheduleById(r)
    BY <1>16 DEF UpdateScheduleById, TypeOK, Request, PCs
  <1>17. CASE CommitUpdate(r)
    <2>1. CASE Rollback(r)
      BY <2>1, RollbackTyped
    <2>2. CASE ~Rollback(r)
      <3> DEFINE s == req[r].sid
                 rekeyed == [room |-> FinalRoom(r), start |-> FinalStart(r), session |-> s]
      <3>1. /\ At(r, "rekey")
            /\ sessions' = [sessions EXCEPT ![s] = Edited(r, sessions[s])]
            /\ ledger' = (ledger \ req[r].dead)
                           \cup (IF RekeysRoom(r) THEN {rekeyed} ELSE {})
            /\ ReleaseLocks(r)
        BY <1>17, <2>2 DEF CommitUpdate
      <3>2. s \in Sessions
        BY <3>1 DEF Underway, At, Creating
      <3>3. sessions' \in [Sessions -> Row]
        BY <3>1, <3>2, EditedTyped DEF TypeOK
      <3>4. RekeysRoom(r) => rekeyed \in RoomBooking
        BY <3>1, <3>2, RekeyTyped DEF RoomBooking, At
      <3>5. ledger' \subseteq RoomBooking
        BY <3>1, <3>4 DEF TypeOK
      <3> QED BY <3>1, <3>3, <3>5, ReleaseTyped DEF TypeOK
    <2> QED BY <2>1, <2>2
  <1>18. CASE Fail(r)
    BY <1>18, RollbackTyped DEF Fail
  <1> QED
    BY <1>1, <1>2, <1>3, <1>4, <1>5, <1>6, <1>7, <1>8, <1>9, <1>10, <1>11,
       <1>12, <1>13, <1>14, <1>15, <1>16, <1>17, <1>18 DEF Step

-----------------------------------------------------------------------------
(* A request under way carries a real row: Underway is preserved.          *)

\* Beginning a transaction on a live row or with a new one.
LEMMA StartUnderway ==
    ASSUME TypeOK, Underway, NEW r \in Requests, NEW op \in HandlerNames,
           NEW l \in PCs, NEW s \in Sessions \cup {Null}, NEW w \in Row,
           NEW b \in Bodies \cup {NoBody}, Start(r, op, l, s, w, b),
           w.status = "scheduled", w.class \in Classes, w.start \in Starts,
           l \in Creating \/ s \in Sessions
    PROVE  Underway'
  <1>1. req' = [req EXCEPT ![r] = [pc |-> l, op |-> op, sid |-> s, want |-> w,
                                   body |-> b, dead |-> {}]]
        /\ UNCHANGED sessions
    BY DEF Start
  <1> QED BY <1>1 DEF TypeOK, Underway, At

\* Moving on within the transaction.
LEMMA GotoUnderway ==
    ASSUME TypeOK, Underway, NEW r \in Requests, NEW l \in PCs, Goto(r, l),
           ~At(r, "idle"), l \in Creating <=> req[r].pc \in Creating
    PROVE  Underway'
  <1>1. /\ req[r] \in Request
        /\ req' = [req EXCEPT ![r] = [req[r] EXCEPT !.pc = l]]
        /\ UNCHANGED sessions
    BY ReqType DEF Goto
  <1> QED BY <1>1 DEF TypeOK, Request, Underway, At, Creating

\* Ending it with real rows in the table.
LEMMA ReleaseUnderway ==
    ASSUME TypeOK, Underway, NEW r \in Requests, ReleaseLocks(r),
           \A s \in Sessions : sessions'[s].status # "none" =>
              sessions'[s].class \in Classes /\ sessions'[s].start \in Starts
    PROVE  Underway'
  BY DEF TypeOK, Underway, ReleaseLocks, At, Idle

LEMMA RollbackUnderway ==
    ASSUME TypeOK, Underway, NEW r \in Requests, Rollback(r)
    PROVE  Underway'
  BY ReleaseUnderway DEF Rollback, Underway

\* An edit leaves a row that exists with a class and a start.
LEMMA EditedUnderway ==
    ASSUME TypeOK, NEW r \in Requests, NEW row \in Row,
           row.class \in Classes, row.start \in Starts
    PROVE  /\ Edited(r, row).class \in Classes
           /\ Edited(r, row).start \in Starts
           /\ Edited(r, row).status = row.status
           /\ Edited(r, row).class = Given(req[r].body.class, row.class)
           /\ Edited(r, row).start = Given(req[r].body.start, row.start)
  <1>1. /\ req[r].body.class \in Classes \cup {Keep}
        /\ req[r].body.start \in Starts \cup {Keep}
    BY ReqType DEF Body
  <1> DEFINE c == Given(req[r].body.class, row.class)
             t == Given(req[r].body.team, row.team)
             st == Given(req[r].body.start, row.start)
             rm == IF ClearsRoom(r) THEN Null
                   ELSE IF RekeysRoom(r) THEN FinalRoom(r) ELSE row.room
  <1>2. c \in Classes /\ st \in Starts
    BY <1>1 DEF Given
  <1>3. Edited(r, row) = [row EXCEPT !.class = c, !.team = t, !.start = st,
                                     !.room = rm]
    BY DEF Edited
  <1> HIDE DEF c, t, st, rm
  <1>4. /\ Edited(r, row).status = row.status
        /\ Edited(r, row).class = c
        /\ Edited(r, row).start = st
    BY <1>3 DEF Row
  <1> QED BY <1>2, <1>4 DEF c, st

\* An edit never changes a row's status.
LEMMA EditedStatus ==
    ASSUME NEW r \in Requests, NEW row \in Row
    PROVE  Edited(r, row).status = row.status
  <1> DEFINE c == Given(req[r].body.class, row.class)
             t == Given(req[r].body.team, row.team)
             st == Given(req[r].body.start, row.start)
             rm == IF ClearsRoom(r) THEN Null
                   ELSE IF RekeysRoom(r) THEN FinalRoom(r) ELSE row.room
  <1>1. Edited(r, row) = [row EXCEPT !.class = c, !.team = t, !.start = st,
                                     !.room = rm]
    BY DEF Edited
  <1> HIDE DEF c, t, st, rm
  <1> QED BY <1>1 DEF Row

\* Every statement of every handler keeps the carried rows real.
LEMMA StepUnderway ==
    ASSUME TypeOK, Underway, NEW r \in Requests, Step(r)
    PROVE  Underway'
  <1> USE ReqType
  <1>1. CASE BookSlot(r)
    <2>1. PICK t \in Teams, st \in Starts :
            /\ ClassOf[t] # Null
            /\ Start(r, "book", "lockTeam", Null,
                     NewRow(ClassOf[t], t, st, Null, Null), NoBody)
      BY <1>1 DEF BookSlot
    <2>2. /\ NewRow(ClassOf[t], t, st, Null, Null) \in Row
          /\ ClassOf[t] \in Classes
      BY <2>1, BookingAssumption DEF NewRow, Row
    <2> QED BY <2>1, <2>2, StartUnderway DEF HandlerNames, PCs, Creating, NewRow
  <1>2. CASE BookCohortSlot(r)
    <2>1. PICK c \in Classes, st \in Starts, off \in Offices \cup {Null},
               rm \in Rooms \cup {Null} :
            Start(r, "cohort", "collide", Null, NewRow(c, Null, st, off, rm), NoBody)
      BY <1>2 DEF BookCohortSlot
    <2>2. NewRow(c, Null, st, off, rm) \in Row
      BY DEF NewRow, Row
    <2> QED BY <2>1, <2>2, StartUnderway DEF HandlerNames, PCs, Creating, NewRow
  <1>3. CASE AdminCreate(r)
    <2>1. PICK c \in Classes, t \in Teams, st \in Starts,
               off \in Offices \cup {Null}, rm \in Rooms \cup {Null} :
            Start(r, "admin", "count", Null, NewRow(c, t, st, off, rm), NoBody)
      BY <1>3 DEF AdminCreate
    <2>2. NewRow(c, t, st, off, rm) \in Row
      BY DEF NewRow, Row
    <2> QED BY <2>1, <2>2, StartUnderway DEF HandlerNames, PCs, Creating, NewRow
  <1>4. CASE LoadTeamForBooking(r)
    <2>1. /\ req' = [req EXCEPT ![r] = [req[r] EXCEPT !.pc = "count"]]
          /\ UNCHANGED sessions
          /\ At(r, "lockTeam")
      BY <1>4 DEF LoadTeamForBooking
    <2> QED BY <2>1 DEF TypeOK, Request, Underway, At, Creating
  <1>5. CASE AssertWeeklyCap(r)
    BY <1>5, RollbackUnderway, GotoUnderway DEF AssertWeeklyCap, PCs, At, Creating
  <1>6. CASE AssertNoCollision(r)
    BY <1>6, RollbackUnderway, GotoUnderway DEF AssertNoCollision, PCs, At, Creating
  <1>7. CASE InsertSession(r)
    <2>1. CASE Rollback(r)
      BY <2>1, RollbackUnderway
    <2>2. CASE ~Rollback(r)
      <3>1. At(r, "insert") /\ ReleaseLocks(r)
            /\ \E s \in Sessions : sessions' = [sessions EXCEPT ![s] = req[r].want]
        BY <1>7, <2>2 DEF InsertSession
      <3>2. req[r].want.class \in Classes /\ req[r].want.start \in Starts
        BY <3>1 DEF Underway, At
      <3>3. \A s \in Sessions : sessions'[s].status # "none" =>
              sessions'[s].class \in Classes /\ sessions'[s].start \in Starts
        BY <3>1, <3>2 DEF TypeOK, Underway
      <3> QED BY <3>1, <3>3, ReleaseUnderway
    <2> QED BY <2>1, <2>2
  <1>8. CASE CancelSchedule(r)
    <2>1. PICK s \in Sessions :
            Live(s) /\ Start(r, "cancel", "release", s, sessions[s], NoBody)
      BY <1>8 DEF CancelSchedule
    <2>2. /\ sessions[s] \in Row /\ sessions[s].status = "scheduled"
          /\ sessions[s].class \in Classes /\ sessions[s].start \in Starts
      BY <2>1 DEF TypeOK, Live, Underway
    <2> QED BY <2>1, <2>2, StartUnderway DEF HandlerNames, PCs
  <1>9. CASE ReleaseRoomLock(r)
    <2> DEFINE found == {b \in ledger : b.session = req[r].sid}
    <2>1. req' = [req EXCEPT ![r] = [req[r] EXCEPT !.pc = "releasing", !.dead = found]]
      BY <1>9 DEF ReleaseRoomLock, TypeOK, Request
    <2> HIDE DEF found
    <2> QED BY <1>9, <2>1 DEF ReleaseRoomLock, TypeOK, Request, Underway, At, Creating
  <1>10. CASE RoomLockReleased(r)
    <2> DEFINE next == IF req[r].op = "cancel" THEN "flip" ELSE "rekey"
               gone == req[r].dead \cap ledger
    <2>1. req' = [req EXCEPT ![r] = [req[r] EXCEPT !.pc = next, !.dead = gone]]
      BY <1>10 DEF RoomLockReleased, TypeOK, Request
    <2>2. next \in {"flip", "rekey"}
      OBVIOUS
    <2> HIDE DEF next, gone
    <2> QED BY <1>10, <2>1, <2>2 DEF RoomLockReleased, TypeOK, Request, Underway, At, Creating
  <1>11. CASE CancelScheduleById(r)
    <2>1. CASE Rollback(r)
      BY <2>1, RollbackUnderway
    <2>2. CASE ~Rollback(r)
      <3> DEFINE s == req[r].sid
      <3>1. /\ At(r, "flip") /\ Live(s)
            /\ sessions' = [sessions EXCEPT ![s].status = "cancelled", ![s].room = Null]
            /\ ReleaseLocks(r)
        BY <1>11, <2>2 DEF CancelScheduleById
      <3>2. s \in Sessions /\ sessions[s] \in Row /\ sessions[s].status = "scheduled"
        BY <3>1 DEF Underway, At, Creating, TypeOK, Live
      <3>3. sessions' = [sessions EXCEPT ![s] =
                [sessions[s] EXCEPT !.status = "cancelled", !.room = Null]]
        BY <3>1, <3>2 DEF TypeOK, Row
      <3>4. \A x \in Sessions : sessions'[x].status # "none" =>
              sessions'[x].class \in Classes /\ sessions'[x].start \in Starts
        BY <3>2, <3>3 DEF TypeOK, Underway, Row
      <3> QED BY <3>1, <3>4, ReleaseUnderway
    <2> QED BY <2>1, <2>2
  <1>12. CASE UpdateSchedule(r)
    <2>1. PICK s \in Sessions, b \in Bodies, l \in {"moveCollide", "reassign", "write"} :
            Live(s) /\ Start(r, "update", l, s, sessions[s], b)
      BY <1>12 DEF UpdateSchedule
    <2>2. /\ sessions[s] \in Row /\ sessions[s].status = "scheduled"
          /\ sessions[s].class \in Classes /\ sessions[s].start \in Starts
      BY <2>1 DEF TypeOK, Live, Underway
    <2> QED BY <2>1, <2>2, StartUnderway DEF HandlerNames, PCs
  <1>13. CASE MoveCollision(r)
    BY <1>13, RollbackUnderway, GotoUnderway DEF MoveCollision, PCs, At, Creating
  <1>14. CASE MoveWeeklyCap(r)
    BY <1>14, RollbackUnderway, GotoUnderway
       DEF MoveWeeklyCap, AfterChecks, PCs, At, Creating
  <1>15. CASE ReassignGuard(r)
    BY <1>15, RollbackUnderway, GotoUnderway DEF ReassignGuard, PCs, At, Creating
  <1>16. CASE UpdateScheduleById(r)
    <2> DEFINE next == IF ClearsRoom(r) \/ RekeysRoom(r) THEN "release" ELSE "rekey"
    <2>1. /\ req' = [req EXCEPT ![r] = [req[r] EXCEPT !.pc = next]]
          /\ UNCHANGED sessions
          /\ At(r, "write")
      BY <1>16 DEF UpdateScheduleById
    <2>2. next \in {"release", "rekey"}
      OBVIOUS
    <2> HIDE DEF next
    <2> QED BY <2>1, <2>2 DEF TypeOK, Request, Underway, At, Creating
  <1>17. CASE CommitUpdate(r)
    <2>1. CASE Rollback(r)
      BY <2>1, RollbackUnderway
    <2>2. CASE ~Rollback(r)
      <3> DEFINE s == req[r].sid
      <3>1. /\ At(r, "rekey") /\ ReleaseLocks(r)
            /\ sessions' = [sessions EXCEPT ![s] = Edited(r, sessions[s])]
        BY <1>17, <2>2 DEF CommitUpdate
      <3>2. s \in Sessions /\ sessions[s] \in Row
        BY <3>1 DEF Underway, At, Creating, TypeOK
      <3>3. sessions'[s].status # "none" =>
              sessions'[s].class \in Classes /\ sessions'[s].start \in Starts
        BY <3>1, <3>2, EditedStatus, EditedUnderway DEF TypeOK, Underway
      <3>4. \A x \in Sessions : sessions'[x].status # "none" =>
              sessions'[x].class \in Classes /\ sessions'[x].start \in Starts
        BY <3>1, <3>2, <3>3 DEF TypeOK, Underway
      <3> QED BY <3>1, <3>4, ReleaseUnderway
    <2> QED BY <2>1, <2>2
  <1>18. CASE Fail(r)
    BY <1>18, RollbackUnderway DEF Fail
  <1> QED
    BY <1>1, <1>2, <1>3, <1>4, <1>5, <1>6, <1>7, <1>8, <1>9, <1>10, <1>11,
       <1>12, <1>13, <1>14, <1>15, <1>16, <1>17, <1>18 DEF Step

\* TypeOK together with Underway is inductive.
LEMMA TypedUnderway == Spec => [](TypeOK /\ Underway)
  <1>1. Init => TypeOK /\ Underway
    BY DEF Init, TypeOK, Underway, At, Idle, Request, PCs, NoRow, Row, Creating
  <1>2. TypeOK /\ Underway /\ [Next]_vars => (TypeOK /\ Underway)'
    <2> SUFFICES ASSUME TypeOK, Underway, [Next]_vars
                 PROVE  (TypeOK /\ Underway)'
      OBVIOUS
    <2>1. CASE Next
      BY <2>1, StepTyped, StepUnderway DEF Next
    <2>2. CASE UNCHANGED vars
      BY <2>2 DEF vars, TypeOK, Underway, At
    <2> QED BY <2>1, <2>2
  <1> QED BY <1>1, <1>2, PTL DEF Spec

\* Every table, lock and request keeps its type in every reachable state.
THEOREM Typing == Spec => []TypeOK
  BY TypedUnderway, PTL

-----------------------------------------------------------------------------
(* What a step may commit to the schedules table and to the ledger.        *)

\* A new live row in a free slot.
Booked(s) ==
    \E w \in Row : /\ sessions[s].status = "none"
                   /\ w.status = "scheduled" /\ w.class \in Classes /\ w.start \in Starts
                   /\ ~SlotTaken(w.class, w.start, Null)
                   /\ sessions' = [sessions EXCEPT ![s] = w]

\* A live row turned to cancelled.
Cancelled(s) ==
    \E w \in Row : /\ Live(s)
                   /\ w.status = "cancelled"
                   /\ sessions' = [sessions EXCEPT ![s] = w]

\* A row edited in its own status, into a free slot while it is live.
Moved(s) ==
    \E w \in Row : /\ w.status = sessions[s].status
                   /\ Live(s) => /\ w.class \in Classes /\ w.start \in Starts
                                 /\ ~SlotTaken(w.class, w.start, s)
                   /\ sessions' = [sessions EXCEPT ![s] = w]

\* A statement writes at most one row, in one of these three ways.
LEMMA StepWrites ==
    ASSUME TypeOK, Underway, NEW r \in Requests, Step(r)
    PROVE  \/ UNCHANGED sessions
           \/ \E s \in Sessions : Booked(s) \/ Cancelled(s) \/ Moved(s)
  <1>1. CASE InsertSession(r) /\ ~Rollback(r)
    <2>1. /\ At(r, "insert")
          /\ ~SlotTaken(req[r].want.class, req[r].want.start, Null)
          /\ \E s \in Sessions : /\ sessions[s].status = "none"
                                 /\ sessions' = [sessions EXCEPT ![s] = req[r].want]
      BY <1>1 DEF InsertSession
    <2>2. /\ req[r].want \in Row /\ req[r].want.status = "scheduled"
          /\ req[r].want.class \in Classes /\ req[r].want.start \in Starts
      BY <2>1, ReqType DEF Underway, At
    <2> QED BY <2>1, <2>2 DEF Booked
  <1>2. CASE CancelScheduleById(r) /\ ~Rollback(r)
    <2> DEFINE s == req[r].sid
               w == [sessions[s] EXCEPT !.status = "cancelled", !.room = Null]
    <2>1. /\ At(r, "flip") /\ Live(s)
          /\ sessions' = [sessions EXCEPT ![s].status = "cancelled", ![s].room = Null]
      BY <1>2 DEF CancelScheduleById
    <2>2. s \in Sessions /\ sessions[s] \in Row
      BY <2>1 DEF Underway, At, Creating, TypeOK
    <2>3. w \in Row /\ w.status = "cancelled"
      BY <2>2 DEF Row
    <2>4. sessions' = [sessions EXCEPT ![s] = w]
      BY <2>1, <2>2 DEF TypeOK, Row
    <2> HIDE DEF w
    <2>5. Cancelled(s)
      BY <2>1, <2>3, <2>4 DEF Cancelled
    <2> QED BY <2>2, <2>5
  <1>3. CASE CommitUpdate(r) /\ ~Rollback(r)
    <2> DEFINE s == req[r].sid
               w == Edited(r, sessions[s])
    <2>1. /\ At(r, "rekey") /\ ~EditClashes(r)
          /\ sessions' = [sessions EXCEPT ![s] = w]
      BY <1>3 DEF CommitUpdate
    <2>2. s \in Sessions /\ sessions[s] \in Row
      BY <2>1 DEF Underway, At, Creating, TypeOK
    <2>3. w \in Row /\ w.status = sessions[s].status
      BY <2>2, EditedTyped, EditedStatus
    <2>4. Live(s) => w.class \in Classes /\ w.start \in Starts
      BY <2>2, EditedUnderway DEF Live, Underway
    <2>5. Live(s) => ~SlotTaken(w.class, w.start, s)
      BY <2>1 DEF EditClashes
    <2> HIDE DEF w
    <2>6. Moved(s)
      BY <2>1, <2>3, <2>4, <2>5 DEF Moved
    <2> QED BY <2>2, <2>6
  <1>4. CASE Rollback(r)
    BY <1>4 DEF Rollback
  <1>5. CASE ~(InsertSession(r) \/ CancelScheduleById(r) \/ CommitUpdate(r)) /\ ~Rollback(r)
    BY <1>5 DEF Step, Start, Goto, BookSlot, BookCohortSlot, AdminCreate,
                LoadTeamForBooking, AssertWeeklyCap, AssertNoCollision, CancelSchedule,
                ReleaseRoomLock, RoomLockReleased, UpdateSchedule, MoveCollision,
                MoveWeeklyCap, ReassignGuard, UpdateScheduleById, Fail
  <1> QED BY <1>1, <1>2, <1>3, <1>4, <1>5

\* A statement only ever adds one claim, at a key it has just freed.
LEMMA StepClaims ==
    ASSUME TypeOK, Underway, NEW r \in Requests, Step(r)
    PROVE  \/ ledger' \subseteq ledger
           \/ \E b \in RoomBooking, gone \in SUBSET RoomBooking :
                 /\ ledger' = (ledger \ gone) \cup {b}
                 /\ AtKey(b.room, b.start) \subseteq gone
  <1>1. CASE InsertSession(r) /\ ~Rollback(r)
    <2> DEFINE w == req[r].want
    <2>1. PICK s \in Sessions :
            /\ At(r, "insert")
            /\ RoomAcquirable(r, w.room, w.start, w.office)
            /\ ledger' = IF w.room = Null THEN ledger
                         ELSE ledger \cup {[room |-> w.room, start |-> w.start,
                                            session |-> s]}
      BY <1>1 DEF InsertSession
    <2>2. w \in Row /\ w.start \in Starts /\ req[r].dead = {}
      BY <2>1, ReqType DEF Underway, At, Creating
    <2>3. CASE w.room = Null
      BY <2>1, <2>3
    <2>4. CASE w.room # Null
      <3> DEFINE b == [room |-> w.room, start |-> w.start, session |-> s]
      <3>1. b \in RoomBooking
        BY <2>2, <2>4 DEF Row, RoomBooking
      <3>2. AtKey(b.room, b.start) \subseteq {}
        BY <2>1, <2>2, <2>4 DEF RoomAcquirable, RoomKeyFree
      <3>3. ledger' = (ledger \ {}) \cup {b}
        BY <2>1, <2>4
      <3> QED BY <3>1, <3>2, <3>3
    <2> QED BY <2>3, <2>4
  <1>2. CASE CommitUpdate(r) /\ ~Rollback(r)
    <2> DEFINE b == [room |-> FinalRoom(r), start |-> FinalStart(r),
                     session |-> req[r].sid]
               gone == req[r].dead
    <2>1. /\ At(r, "rekey")
          /\ RekeysRoom(r) => RoomAcquirable(r, FinalRoom(r), FinalStart(r),
                                             req[r].want.office)
          /\ ledger' = (ledger \ gone) \cup (IF RekeysRoom(r) THEN {b} ELSE {})
      BY <1>2 DEF CommitUpdate
    <2>2. CASE ~RekeysRoom(r)
      BY <2>1, <2>2
    <2>3. CASE RekeysRoom(r)
      <3>1. /\ FinalRoom(r) \in Rooms /\ FinalStart(r) \in Starts
            /\ req[r].sid \in Sessions /\ gone \in SUBSET RoomBooking
        BY <2>1, <2>3, RekeyTyped, ReqType DEF Underway, At, Creating
      <3>2. b \in RoomBooking
        BY <3>1 DEF RoomBooking
      <3>3. AtKey(b.room, b.start) \subseteq gone
        BY <2>1, <2>3, <3>1, BookingAssumption DEF RoomAcquirable, RoomKeyFree
      <3>4. ledger' = (ledger \ gone) \cup {b}
        BY <2>1, <2>3
      <3> QED BY <3>1, <3>2, <3>3, <3>4
    <2> QED BY <2>2, <2>3
  <1>3. CASE CancelScheduleById(r) \/ Rollback(r)
    BY <1>3 DEF CancelScheduleById, Rollback
  <1>4. CASE ~(InsertSession(r) \/ CancelScheduleById(r) \/ CommitUpdate(r)) /\ ~Rollback(r)
    BY <1>4 DEF Step, Start, Goto, BookSlot, BookCohortSlot, AdminCreate,
                LoadTeamForBooking, AssertWeeklyCap, AssertNoCollision, CancelSchedule,
                ReleaseRoomLock, RoomLockReleased, UpdateSchedule, MoveCollision,
                MoveWeeklyCap, ReassignGuard, UpdateScheduleById, Fail
  <1> QED BY <1>1, <1>2, <1>3, <1>4

-----------------------------------------------------------------------------
(* The two unique keys, whatever requests run and however they interleave. *)

\* No class ever has two live sessions at the same start.
THEOREM SlotSafety == Spec => []OneLivePerSlot
  <1>1. Init => OneLivePerSlot
    BY DEF Init, OneLivePerSlot, Live, NoRow
  <1>2. TypeOK /\ Underway /\ OneLivePerSlot /\ [Next]_vars => OneLivePerSlot'
    <2> SUFFICES ASSUME TypeOK, Underway, OneLivePerSlot, [Next]_vars
                 PROVE  OneLivePerSlot'
      OBVIOUS
    <2>1. CASE UNCHANGED sessions
      BY <2>1 DEF OneLivePerSlot, Live
    <2>2. ASSUME NEW s \in Sessions, Booked(s)
          PROVE  OneLivePerSlot'
      BY <2>2, BookingAssumption DEF Booked, OneLivePerSlot, Live, SlotTaken, TypeOK
    <2>3. ASSUME NEW s \in Sessions, Cancelled(s)
          PROVE  OneLivePerSlot'
      BY <2>3 DEF Cancelled, OneLivePerSlot, Live, TypeOK
    <2>4. ASSUME NEW s \in Sessions, Moved(s)
          PROVE  OneLivePerSlot'
      BY <2>4 DEF Moved, OneLivePerSlot, Live, SlotTaken, TypeOK
    <2> QED BY <2>1, <2>2, <2>3, <2>4, StepWrites DEF Next, vars
  <1> QED BY <1>1, <1>2, TypedUnderway, PTL DEF Spec

\* No room is claimed twice at the same start.
THEOREM ClaimSafety == Spec => []OneClaimPerRoomSlot
  <1>1. Init => OneClaimPerRoomSlot
    BY DEF Init, OneClaimPerRoomSlot
  <1>2. TypeOK /\ Underway /\ OneClaimPerRoomSlot /\ [Next]_vars => OneClaimPerRoomSlot'
    <2> SUFFICES ASSUME TypeOK, Underway, OneClaimPerRoomSlot, [Next]_vars
                 PROVE  OneClaimPerRoomSlot'
      OBVIOUS
    <2>1. CASE ledger' \subseteq ledger
      BY <2>1 DEF OneClaimPerRoomSlot
    <2>2. ASSUME NEW b \in RoomBooking, NEW gone \in SUBSET RoomBooking,
                 ledger' = (ledger \ gone) \cup {b},
                 AtKey(b.room, b.start) \subseteq gone
          PROVE  OneClaimPerRoomSlot'
      BY <2>2 DEF OneClaimPerRoomSlot, AtKey
    <2> QED BY <2>1, <2>2, StepClaims DEF Next, vars
  <1> QED BY <1>1, <1>2, TypedUnderway, PTL DEF Spec

-----------------------------------------------------------------------------
(* The booking transactions implement the slot calendar.                   *)

\* A live row holds a slot of the calendar, any other row holds none.
LEMMA CalendarEntry ==
    ASSUME TypeOK, Underway, NEW s \in Sessions
    PROVE  /\ sessions[s].status = "none" => CalendarOf[s] = Calendar!Unborn
           /\ Live(s) => /\ CalendarOf[s] = <<sessions[s].class, sessions[s].start>>
                         /\ CalendarOf[s] \in Classes \X Starts
           /\ sessions[s].status = "cancelled" => CalendarOf[s] = Calendar!Gone
           /\ sessions[s].status \in {"none", "scheduled", "cancelled"}
  BY DEF TypeOK, Row, Underway, Live, CalendarOf, Entry, Calendar!Unborn, Calendar!Gone

\* A slot no other live row of the class holds is free in the calendar.
LEMMA FreeSlot ==
    ASSUME TypeOK, Underway, NEW c \in Classes, NEW st \in Starts, NEW x,
           ~SlotTaken(c, st, x), x \in Sessions => CalendarOf[x] # <<c, st>>
    PROVE  Calendar!Free(<<c, st>>)
  <1>1. ASSUME NEW s \in Sessions, s # x
        PROVE  CalendarOf[s] # <<c, st>>
    <2>1. CASE Live(s)
      BY <1>1, <2>1, CalendarEntry DEF SlotTaken
    <2>2. CASE ~Live(s)
      <3>1. CalendarOf[s] = <<"unborn">> \/ CalendarOf[s] = <<"gone">>
        BY <2>2, CalendarEntry DEF Live, Calendar!Unborn, Calendar!Gone
      <3>2. <<"unborn">> # <<c, st>> /\ <<"gone">> # <<c, st>>
        OBVIOUS
      <3> QED BY <3>1, <3>2
    <2> QED BY <2>1, <2>2
  <1> QED BY <1>1 DEF Calendar!Free

\* Only the calendar entry of the written row changes.
LEMMA CalendarWrite ==
    ASSUME TypeOK, NEW s \in Sessions, NEW w \in Row,
           sessions' = [sessions EXCEPT ![s] = w]
    PROVE  CalendarOf' = [CalendarOf EXCEPT ![s] = Entry(w)]
  BY DEF CalendarOf, TypeOK

\* Every step of a request is a step of the calendar or leaves it alone.
THEOREM CalendarRefinement == Spec => RefinesCalendar
  <1>1. Init => Calendar!Init
    BY DEF Init, Calendar!Init, Calendar!Unborn, CalendarOf, Entry, NoRow
  <1>2. TypeOK /\ Underway /\ [Next]_vars => [Calendar!Next]_CalendarOf
    <2> SUFFICES ASSUME TypeOK, Underway, [Next]_vars, CalendarOf' # CalendarOf
                 PROVE  Calendar!Next
      OBVIOUS
    <2>1. ~UNCHANGED sessions
      BY DEF CalendarOf
    <2>2. ASSUME NEW s \in Sessions, Booked(s)
          PROVE  Calendar!Next
      <3>1. PICK w \in Row :
              /\ sessions[s].status = "none"
              /\ w.status = "scheduled" /\ w.class \in Classes /\ w.start \in Starts
              /\ ~SlotTaken(w.class, w.start, Null)
              /\ sessions' = [sessions EXCEPT ![s] = w]
        BY <2>2 DEF Booked
      <3> DEFINE k == <<w.class, w.start>>
      <3>2. CalendarOf' = [CalendarOf EXCEPT ![s] = k]
        BY <3>1, CalendarWrite DEF Entry
      <3>3. CalendarOf[s] = Calendar!Unborn
        BY <3>1, CalendarEntry
      <3>4. Calendar!Free(k)
        BY <3>1, FreeSlot, BookingAssumption
      <3>5. Calendar!Book(s, k)
        BY <3>2, <3>3, <3>4 DEF Calendar!Book
      <3>6. k \in Classes \X Starts
        BY <3>1
      <3> QED BY <3>5, <3>6 DEF Calendar!Next
    <2>3. ASSUME NEW s \in Sessions, Cancelled(s)
          PROVE  Calendar!Next
      <3>1. PICK w \in Row :
              /\ Live(s)
              /\ w.status = "cancelled"
              /\ sessions' = [sessions EXCEPT ![s] = w]
        BY <2>3 DEF Cancelled
      <3>2. CalendarOf' = [CalendarOf EXCEPT ![s] = Calendar!Gone]
        BY <3>1, CalendarWrite DEF Calendar!Gone, Entry
      <3>3. Calendar!Leave(s)
        BY <3>1, <3>2, CalendarEntry DEF Calendar!Leave
      <3> QED BY <3>3 DEF Calendar!Next
    <2>4. ASSUME NEW s \in Sessions, Moved(s)
          PROVE  Calendar!Next
      <3>1. PICK w \in Row :
              /\ w.status = sessions[s].status
              /\ Live(s) => /\ w.class \in Classes /\ w.start \in Starts
                            /\ ~SlotTaken(w.class, w.start, s)
              /\ sessions' = [sessions EXCEPT ![s] = w]
        BY <2>4 DEF Moved
      <3>2. CASE ~Live(s)
        <4>1. CalendarOf' = [CalendarOf EXCEPT ![s] = CalendarOf[s]]
          BY <3>1, <3>2, CalendarWrite, CalendarEntry
             DEF Live, Entry, Calendar!Unborn, Calendar!Gone
        <4> QED BY <4>1 DEF CalendarOf
      <3>3. CASE Live(s)
        <4> DEFINE k == <<w.class, w.start>>
        <4>1. CalendarOf' = [CalendarOf EXCEPT ![s] = k]
          BY <3>1, <3>3, CalendarWrite DEF Live, Entry
        <4>2. CASE CalendarOf[s] = k
          BY <4>1, <4>2 DEF CalendarOf
        <4>3. CASE CalendarOf[s] # k
          <5>1. Calendar!Free(k)
            BY <3>1, <3>3, <4>3, FreeSlot
          <5>2. CalendarOf[s] \in Classes \X Starts /\ k \in Classes \X Starts
            BY <3>1, <3>3, CalendarEntry
          <5>3. Calendar!Move(s, k)
            BY <4>1, <5>1, <5>2 DEF Calendar!Move
          <5> QED BY <5>2, <5>3 DEF Calendar!Next
        <4> QED BY <4>2, <4>3
      <3> QED BY <3>2, <3>3
    <2> QED BY <2>1, <2>2, <2>3, <2>4, StepWrites DEF Next, vars
  <1> QED BY <1>1, <1>2, TypedUnderway, PTL DEF Spec, RefinesCalendar, Calendar!Spec

-----------------------------------------------------------------------------
(* The weekly cap, when only leaders book for teams and nobody edits.       *)

\* Then no request is ever in the statements of another handler.
LeaderStatements ==
    \A r \in Requests :
        /\ req[r].pc \in {"idle", "release", "releasing", "flip"} \cup Creating
        /\ req[r].pc \in {"release", "releasing"} => req[r].op = "cancel"

\* A team's week is a finite set; the count of a team reads its cardinality.
LEMMA TeamWeekFinite ==
    ASSUME NEW t, NEW st, NEW x
    PROVE  /\ IsFiniteSet(TeamWeek(t, st, x))
           /\ Cardinality(TeamWeek(t, st, x)) \in Nat
  <1>1. TeamWeek(t, st, x) \subseteq Sessions
    BY DEF TeamWeek
  <1> QED BY <1>1, BookingAssumption, FS_Subset, FS_CardinalityType

\* A week that loses sessions counts no more of them.
LEMMA SmallerWeek ==
    ASSUME NEW t, NEW st, TeamWeek(t, st, Null)' \subseteq TeamWeek(t, st, Null)
    PROVE  /\ Cardinality(TeamWeek(t, st, Null))' \in Nat
           /\ Cardinality(TeamWeek(t, st, Null))' <= Cardinality(TeamWeek(t, st, Null))
  BY TeamWeekFinite, FS_Subset, FS_CardinalityType

\* One more session is one more at most.
LEMMA LargerWeek ==
    ASSUME NEW t, NEW st, NEW s,
           TeamWeek(t, st, Null)' \subseteq TeamWeek(t, st, Null) \cup {s}
    PROVE  /\ Cardinality(TeamWeek(t, st, Null))' \in Nat
           /\ Cardinality(TeamWeek(t, st, Null))' <= Cardinality(TeamWeek(t, st, Null)) + 1
  <1> DEFINE W == TeamWeek(t, st, Null)
  <1>1. IsFiniteSet(W) /\ Cardinality(W) \in Nat
    BY TeamWeekFinite
  <1>2. /\ IsFiniteSet(W \cup {s})
        /\ Cardinality(W \cup {s}) \in {Cardinality(W), Cardinality(W) + 1}
    BY <1>1, FS_AddElement
  <1>3. /\ Cardinality(W') \in Nat
        /\ Cardinality(W') <= Cardinality(W \cup {s})
    BY <1>2, FS_Subset, FS_CardinalityType
  <1> QED BY <1>1, <1>2, <1>3

\* Rolling back keeps the cap and every other request's count.
LEMMA RollbackCap ==
    ASSUME TypeOK, LeaderStatements, CountStillHolds, WeeklyCap,
           NEW r \in Requests, Rollback(r)
    PROVE  (LeaderStatements /\ CountStillHolds /\ WeeklyCap)'
  <1>0. \A q \in Requests : req[q].want.team \in Teams \cup {Null}
    BY DEF TypeOK, Request, Row
  <1>1. /\ \A t, st : TeamWeek(t, st, Null)' = TeamWeek(t, st, Null)
        /\ req' = [req EXCEPT ![r] = Idle]
        /\ \A t \in Teams : teamLock[t] # r => teamLock'[t] = teamLock[t]
    BY DEF Rollback, ReleaseLocks, TeamWeek, Live
  <1>2. WeeklyCap'
    BY <1>1 DEF WeeklyCap
  <1>3. req'[r] = Idle /\ \A q \in Requests \ {r} : req'[q] = req[q]
    BY <1>1 DEF TypeOK
  <1>4. LeaderStatements'
    BY <1>3 DEF LeaderStatements, Idle
  <1>5. CountStillHolds'
    BY <1>0, <1>1, <1>3 DEF CountStillHolds, Idle
  <1> QED BY <1>2, <1>4, <1>5

\* Every statement of a leader's request keeps the cap.
LEMMA StepCap ==
    ASSUME LeadersAlone, TypeOK, Underway, LeaderStatements, CountStillHolds,
           WeeklyCap, NEW r \in Requests, Step(r)
    PROVE  (LeaderStatements /\ CountStillHolds /\ WeeklyCap)'
  <1> USE ReqType
  <1>t. \A q \in Requests : req[q].want.team \in Teams \cup {Null}
    BY DEF TypeOK, Request, Row
  <1> DEFINE Frame == \A t, st : TeamWeek(t, st, Null)' = TeamWeek(t, st, Null)
  <1>f. ASSUME UNCHANGED sessions
        PROVE  Frame /\ WeeklyCap'
    BY <1>f DEF TeamWeek, Live, WeeklyCap
  <1> HIDE DEF Frame
  <1>1. CASE BookSlot(r)
    <2>1. PICK t \in Teams, st \in Starts :
            Start(r, "book", "lockTeam", Null, NewRow(ClassOf[t], t, st, Null, Null), NoBody)
      BY <1>1 DEF BookSlot
    <2>2. /\ UNCHANGED <<sessions, teamLock>>
          /\ req'[r].pc = "lockTeam" /\ req'[r].want.team = t
          /\ \A q \in Requests \ {r} : req'[q] = req[q]
      BY <2>1 DEF Start, NewRow, TypeOK
    <2>3. LeaderStatements'
      BY <2>2 DEF LeaderStatements, Creating
    <2>4. CountStillHolds'
      BY <1>f, <2>2, BookingAssumption DEF CountStillHolds, Frame
    <2> QED BY <1>f, <2>2, <2>3, <2>4
  <1>2. CASE BookCohortSlot(r)
    <2>1. PICK c \in Classes, st \in Starts, off \in Offices \cup {Null}, rm \in Rooms \cup {Null} :
            Start(r, "cohort", "collide", Null, NewRow(c, Null, st, off, rm), NoBody)
      BY <1>2 DEF BookCohortSlot
    <2>2. /\ UNCHANGED <<sessions, teamLock>>
          /\ req'[r].pc = "collide" /\ req'[r].want.team = Null
          /\ \A q \in Requests \ {r} : req'[q] = req[q]
      BY <2>1 DEF Start, NewRow, TypeOK
    <2>3. LeaderStatements'
      BY <2>2 DEF LeaderStatements, Creating
    <2>4. CountStillHolds'
      BY <1>f, <2>2 DEF CountStillHolds, Frame
    <2> QED BY <1>f, <2>2, <2>3, <2>4
  <1>2a. CASE AdminCreate(r) \/ UpdateSchedule(r)
    BY <1>2a DEF AdminCreate, UpdateSchedule, Start, LeadersAlone
  <1>3. CASE LoadTeamForBooking(r)
    <2> DEFINE t == req[r].want.team
    <2>1. /\ At(r, "lockTeam") /\ teamLock[t] = Null
          /\ UNCHANGED sessions
          /\ teamLock' = [teamLock EXCEPT ![t] = r]
          /\ req' = [req EXCEPT ![r] = [req[r] EXCEPT !.pc = "count"]]
      BY <1>3 DEF LoadTeamForBooking
    <2>2. /\ req'[r].pc = "count" /\ req'[r].want = req[r].want
          /\ \A q \in Requests \ {r} : req'[q] = req[q]
      BY <2>1 DEF TypeOK, Request
    <2>3. t \in Teams
      BY <1>t, <2>1 DEF CountStillHolds, At
    <2>4. /\ teamLock'[t] = r
          /\ \A q \in Requests \ {r} : teamLock[req[q].want.team] = q =>
                teamLock'[req[q].want.team] = q
      BY <2>1, <2>3, BookingAssumption DEF TypeOK
    <2>5. LeaderStatements'
      BY <2>2 DEF LeaderStatements, Creating
    <2>6. CountStillHolds'
      BY <1>f, <1>t, <2>1, <2>2, <2>3, <2>4, BookingAssumption DEF CountStillHolds, Frame
    <2> QED BY <1>f, <2>1, <2>5, <2>6
  <1>4. CASE AssertWeeklyCap(r) /\ ~Rollback(r)
    <2> DEFINE w == req[r].want
    <2>1. /\ At(r, "count")
          /\ ~(CountSchedulesForTeamInWeek(w.team, w.start, Null) >= WeeklyTeamLimit)
          /\ Goto(r, "collide")
      BY <1>4 DEF AssertWeeklyCap
    <2>2. /\ UNCHANGED <<sessions, teamLock>>
          /\ req'[r].pc = "collide" /\ req'[r].want = w
          /\ \A q \in Requests \ {r} : req'[q] = req[q]
      BY <2>1 DEF Goto, TypeOK, Request
    <2>3. w.team \in Teams /\ w.team # Null /\ teamLock[w.team] = r
      BY <1>t, <2>1, BookingAssumption DEF CountStillHolds, At
    <2>4. Cardinality(TeamWeek(w.team, w.start, Null)) < WeeklyTeamLimit
      BY <2>1, <2>3, TeamWeekFinite DEF CountSchedulesForTeamInWeek, WeeklyTeamLimit
    <2>5. LeaderStatements'
      BY <2>2 DEF LeaderStatements, Creating
    <2>6. CountStillHolds'
      BY <1>f, <2>2, <2>3, <2>4 DEF CountStillHolds, Frame
    <2> QED BY <1>f, <2>2, <2>5, <2>6
  <1>5. CASE AssertNoCollision(r) /\ ~Rollback(r)
    <2>1. At(r, "collide") /\ Goto(r, "insert")
      BY <1>5 DEF AssertNoCollision
    <2>2. /\ UNCHANGED <<sessions, teamLock>>
          /\ req'[r].pc = "insert" /\ req'[r].want = req[r].want
          /\ \A q \in Requests \ {r} : req'[q] = req[q]
      BY <2>1 DEF Goto, TypeOK, Request
    <2>3. LeaderStatements'
      BY <2>2 DEF LeaderStatements, Creating
    <2>4. CountStillHolds'
      BY <1>f, <2>1, <2>2 DEF CountStillHolds, Frame, At
    <2> QED BY <1>f, <2>2, <2>3, <2>4
  <1>6. CASE InsertSession(r) /\ ~Rollback(r)
    <2> DEFINE w == req[r].want
    <2>1. PICK s \in Sessions :
            /\ At(r, "insert") /\ ReleaseLocks(r)
            /\ sessions[s].status = "none"
            /\ sessions' = [sessions EXCEPT ![s] = w]
      BY <1>6 DEF InsertSession
    <2>2. w.team # Null => /\ teamLock[w.team] = r
                           /\ Cardinality(TeamWeek(w.team, w.start, Null)) < WeeklyTeamLimit
      BY <2>1 DEF CountStillHolds, At
    <2>3. ASSUME NEW t, NEW st, t # w.team \/ WeekOf[st] # WeekOf[w.start]
          PROVE  TeamWeek(t, st, Null)' \subseteq TeamWeek(t, st, Null)
      BY <2>1, <2>3 DEF TeamWeek, Live, TypeOK
    <2>4. ASSUME NEW t, NEW st, t = w.team, WeekOf[st] = WeekOf[w.start]
          PROVE  /\ TeamWeek(t, st, Null)' \subseteq TeamWeek(t, st, Null) \cup {s}
                 /\ TeamWeek(t, st, Null) = TeamWeek(t, w.start, Null)
      BY <2>1, <2>4 DEF TeamWeek, Live, TypeOK
    <2>5. ASSUME NEW t \in Teams, NEW st \in Starts
          PROVE  Cardinality(TeamWeek(t, st, Null))' <= WeeklyTeamLimit
      <3>1. CASE t # w.team \/ WeekOf[st] # WeekOf[w.start]
        BY <2>3, <3>1, SmallerWeek, TeamWeekFinite DEF WeeklyCap, WeeklyTeamLimit
      <3>2. CASE t = w.team /\ WeekOf[st] = WeekOf[w.start]
        <4>1. /\ Cardinality(TeamWeek(t, st, Null))' \in Nat
              /\ Cardinality(TeamWeek(t, st, Null))' <=
                   Cardinality(TeamWeek(t, st, Null)) + 1
          BY <2>4, <3>2, LargerWeek
        <4>2. Cardinality(TeamWeek(t, st, Null)) < WeeklyTeamLimit
          BY <2>2, <2>4, <3>2, BookingAssumption
        <4> QED BY <4>1, <4>2, TeamWeekFinite DEF WeeklyTeamLimit
      <3> QED BY <3>1, <3>2
    <2>6. WeeklyCap'
      BY <2>5 DEF WeeklyCap
    <2>7. /\ req'[r] = Idle
          /\ \A q \in Requests \ {r} : req'[q] = req[q]
          /\ \A t \in Teams : teamLock[t] # r => teamLock'[t] = teamLock[t]
      BY <2>1 DEF ReleaseLocks, TypeOK
    <2>8. LeaderStatements'
      BY <2>7 DEF LeaderStatements, Idle
    <2>9. ASSUME NEW q \in Requests \ {r}, req[q].pc \in {"collide", "insert"},
                 req[q].want.team # Null
          PROVE  Cardinality(TeamWeek(req[q].want.team, req[q].want.start, Null))'
                   < WeeklyTeamLimit
      <3> DEFINE v == req[q].want
      <3>1. /\ v.team # w.team
            /\ Cardinality(TeamWeek(v.team, v.start, Null)) < WeeklyTeamLimit
        BY <2>2, <2>9 DEF CountStillHolds
      <3>2. TeamWeek(v.team, v.start, Null)' \subseteq TeamWeek(v.team, v.start, Null)
            /\ req'[q].want = v
        BY <2>3, <2>7, <3>1
      <3> QED BY <3>1, <3>2, SmallerWeek, TeamWeekFinite, <2>7 DEF WeeklyTeamLimit
    <2>10. CountStillHolds'
      BY <1>t, <2>7, <2>9 DEF CountStillHolds, Idle
    <2> QED BY <2>6, <2>8, <2>10
  <1>7. CASE CancelSchedule(r)
    <2>1. PICK s \in Sessions :
            Start(r, "cancel", "release", s, sessions[s], NoBody)
      BY <1>7 DEF CancelSchedule
    <2>2. /\ UNCHANGED <<sessions, teamLock>>
          /\ req'[r].pc = "release" /\ req'[r].op = "cancel"
          /\ \A q \in Requests \ {r} : req'[q] = req[q]
      BY <2>1 DEF Start, TypeOK
    <2>3. LeaderStatements'
      BY <2>2 DEF LeaderStatements
    <2>4. CountStillHolds'
      BY <1>f, <2>2 DEF CountStillHolds, Frame
    <2> QED BY <1>f, <2>2, <2>3, <2>4
  <1>8. CASE ReleaseRoomLock(r)
    <2> DEFINE found == {b \in ledger : b.session = req[r].sid}
    <2>1. /\ At(r, "release") /\ UNCHANGED <<sessions, teamLock>>
          /\ req' = [req EXCEPT ![r] = [req[r] EXCEPT !.pc = "releasing", !.dead = found]]
      BY <1>8 DEF ReleaseRoomLock, TypeOK, Request
    <2> HIDE DEF found
    <2>2. /\ req'[r].pc = "releasing" /\ req'[r].op = req[r].op
          /\ \A q \in Requests \ {r} : req'[q] = req[q]
      BY <2>1 DEF TypeOK, Request
    <2>3. LeaderStatements'
      BY <2>1, <2>2 DEF LeaderStatements, At
    <2>4. CountStillHolds'
      BY <1>f, <2>1, <2>2 DEF CountStillHolds, Frame
    <2> QED BY <1>f, <2>1, <2>3, <2>4
  <1>9. CASE RoomLockReleased(r)
    <2> DEFINE gone == req[r].dead \cap ledger
    <2>1. /\ At(r, "releasing") /\ UNCHANGED <<sessions, teamLock>>
          /\ req[r].op = "cancel"
      BY <1>9 DEF RoomLockReleased, LeaderStatements, At
    <2>2. req' = [req EXCEPT ![r] = [req[r] EXCEPT !.pc = "flip", !.dead = gone]]
      BY <1>9, <2>1 DEF RoomLockReleased, TypeOK, Request
    <2> HIDE DEF gone
    <2>3. /\ req'[r].pc = "flip"
          /\ \A q \in Requests \ {r} : req'[q] = req[q]
      BY <2>2 DEF TypeOK, Request
    <2>4. LeaderStatements'
      BY <2>3 DEF LeaderStatements
    <2>5. CountStillHolds'
      BY <1>f, <2>1, <2>3 DEF CountStillHolds, Frame
    <2> QED BY <1>f, <2>1, <2>4, <2>5
  <1>10. CASE CancelScheduleById(r) /\ ~Rollback(r)
    <2> DEFINE s == req[r].sid
               w == [sessions[s] EXCEPT !.status = "cancelled", !.room = Null]
    <2>1. /\ At(r, "flip") /\ ReleaseLocks(r)
          /\ sessions' = [sessions EXCEPT ![s].status = "cancelled", ![s].room = Null]
      BY <1>10 DEF CancelScheduleById
    <2>2. s \in Sessions /\ sessions[s] \in Row
      BY <2>1 DEF Underway, At, Creating, TypeOK
    <2>3. w.status = "cancelled"
      BY <2>2 DEF Row
    <2>4. sessions' = [sessions EXCEPT ![s] = w]
      BY <2>1, <2>2 DEF TypeOK, Row
    <2> HIDE DEF w
    <2>5. ASSUME NEW t, NEW st
          PROVE  TeamWeek(t, st, Null)' \subseteq TeamWeek(t, st, Null)
      BY <2>2, <2>3, <2>4 DEF TeamWeek, Live, TypeOK
    <2>6. WeeklyCap'
      BY <2>5, SmallerWeek, TeamWeekFinite DEF WeeklyCap, WeeklyTeamLimit
    <2>7. /\ req'[r] = Idle
          /\ \A q \in Requests \ {r} : req'[q] = req[q]
          /\ \A t \in Teams : teamLock[t] # r => teamLock'[t] = teamLock[t]
      BY <2>1 DEF ReleaseLocks, TypeOK
    <2>8. LeaderStatements'
      BY <2>7 DEF LeaderStatements, Idle
    <2>9. ASSUME NEW q \in Requests \ {r}, req[q].pc \in {"collide", "insert"},
                 req[q].want.team # Null
          PROVE  Cardinality(TeamWeek(req[q].want.team, req[q].want.start, Null))'
                   < WeeklyTeamLimit
      <3> DEFINE v == req[q].want
      <3>1. /\ Cardinality(TeamWeek(v.team, v.start, Null)) < WeeklyTeamLimit
            /\ TeamWeek(v.team, v.start, Null)' \subseteq TeamWeek(v.team, v.start, Null)
            /\ req'[q].want = v
        BY <2>5, <2>7, <2>9 DEF CountStillHolds
      <3> QED BY <2>7, <3>1, SmallerWeek, TeamWeekFinite DEF WeeklyTeamLimit
    <2>10. CountStillHolds'
      BY <1>t, <2>7, <2>9 DEF CountStillHolds, Idle
    <2> QED BY <2>6, <2>8, <2>10
  <1>11. CASE \/ MoveCollision(r) \/ MoveWeeklyCap(r) \/ ReassignGuard(r)
              \/ UpdateScheduleById(r) \/ CommitUpdate(r)
    BY <1>11 DEF MoveCollision, MoveWeeklyCap, ReassignGuard, UpdateScheduleById,
                 CommitUpdate, LeaderStatements, At, Creating
  <1>12. CASE Rollback(r)
    BY <1>12, RollbackCap
  <1> QED
    BY <1>1, <1>2, <1>2a, <1>3, <1>4, <1>5, <1>6, <1>7, <1>8, <1>9, <1>10, <1>11, <1>12
       DEF Step, Fail

\* With bookSlot, bookCohortSlot and cancelSlot running, no interleaving gives a
\* team a third session in a week: leaders count under the team row lock.
THEOREM LeaderCap ==
    ASSUME LeadersAlone
    PROVE  Spec => []WeeklyCap
  <1> DEFINE CapInv == LeaderStatements /\ CountStillHolds /\ WeeklyCap
  <1>1. Init => CapInv
    <2> SUFFICES ASSUME Init PROVE CapInv
      OBVIOUS
    <2>1. LeaderStatements /\ CountStillHolds
      BY DEF Init, LeaderStatements, CountStillHolds, Idle
    <2>2. \A t \in Teams, st \in Starts : TeamWeek(t, st, Null) = {}
      BY DEF Init, TeamWeek, Live, NoRow
    <2>3. WeeklyCap
      BY <2>2, FS_EmptySet DEF WeeklyCap, WeeklyTeamLimit
    <2> QED BY <2>1, <2>3
  <1>2. TypeOK /\ Underway /\ CapInv /\ [Next]_vars => CapInv'
    <2> SUFFICES ASSUME TypeOK, Underway, CapInv, [Next]_vars
                 PROVE  CapInv'
      OBVIOUS
    <2>1. CASE Next
      BY <2>1, StepCap DEF Next
    <2>2. CASE UNCHANGED vars
      <3>1. \A t, st : TeamWeek(t, st, Null)' = TeamWeek(t, st, Null)
        BY <2>2 DEF vars, TeamWeek, Live
      <3>2. WeeklyCap'
        BY <3>1 DEF WeeklyCap
      <3>3. LeaderStatements' /\ CountStillHolds'
        BY <2>2, <3>1 DEF vars, LeaderStatements, CountStillHolds
      <3> QED BY <3>2, <3>3
    <2> QED BY <2>1, <2>2
  <1>3. CapInv => WeeklyCap
    OBVIOUS
  <1> QED BY <1>1, <1>2, <1>3, TypedUnderway, PTL DEF Spec

-----------------------------------------------------------------------------
(* A room is shown once, when one request slot edits sessions.              *)

\* Edits come one at a time: at most one request slot serves updateSchedule.
SingleEditor ==
    \A r, q \in Requests : "update" \in Handlers[r] /\ "update" \in Handlers[q] => r = q

Editing == {"moveCollide", "moveCount", "reassign", "write", "rekey"}

Releasing == {"release", "releasing"}

\* An edit under way still has the row it read, or that row was cancelled; a
\* request releases claims of its own session alone, and an edit releases them
\* only to clear the room or to claim one at the new key.
EditorOf(r) ==
    /\ req[r].pc \in Editing => req[r].op = "update"
    /\ req[r].pc \in Releasing => req[r].op \in {"cancel", "update"}
    /\ \A b \in req[r].dead : b.session = req[r].sid
    /\ req[r].pc # "idle" /\ req[r].op = "update" =>
          /\ "update" \in Handlers[r]
          /\ req[r].pc \notin Creating
          /\ sessions[req[r].sid].status # "none"
          /\ Live(req[r].sid) => sessions[req[r].sid] = req[r].want
          /\ req[r].pc \in Releasing \/ req[r].dead # {} => ClearsRoom(r) \/ RekeysRoom(r)

EditorReads == \A r \in Requests : EditorOf(r)

\* A step of another request that leaves the edited row, or cancels it.
LEMMA EditorElsewhere ==
    ASSUME EditorReads, NEW q \in Requests, req'[q] = req[q],
           req[q].pc # "idle" /\ req[q].op = "update" =>
              \/ sessions'[req[q].sid] = sessions[req[q].sid]
              \/ sessions'[req[q].sid].status = "cancelled"
    PROVE  EditorOf(q)'
  BY DEF EditorReads, EditorOf, Live, ClearsRoom, RekeysRoom, KeyMoves, FinalStart,
         FinalClass, FinalRoom

\* Ending a transaction leaves nothing to say of it.
LEMMA EditorEnds ==
    ASSUME TypeOK, NEW r \in Requests, ReleaseLocks(r)
    PROVE  /\ EditorOf(r)'
           /\ \A q \in Requests \ {r} : req'[q] = req[q]
  BY DEF TypeOK, ReleaseLocks, Idle, EditorOf, Editing, Releasing

\* Going on with the same row and body, releasing nothing unless an edit of the
\* room or its key asks for it.
LEMMA EditorGoesOn ==
    ASSUME TypeOK, EditorReads, NEW r \in Requests, NEW l \in PCs, NEW d,
           req' = [req EXCEPT ![r] = [req[r] EXCEPT !.pc = l, !.dead = d]],
           UNCHANGED sessions, req[r].pc # "idle",
           \A b \in d : b.session = req[r].sid,
           l \in Editing => req[r].op = "update",
           l \in Releasing => req[r].op \in {"cancel", "update"},
           l \in Creating => req[r].op # "update" \/ req[r].pc \in Creating,
           req[r].op = "update" /\ (l \in Releasing \/ d # {}) => ClearsRoom(r) \/ RekeysRoom(r)
    PROVE  EditorReads'
  <1>1. /\ req'[r].pc = l /\ req'[r].dead = d
        /\ req'[r].op = req[r].op /\ req'[r].sid = req[r].sid
        /\ req'[r].want = req[r].want /\ req'[r].body = req[r].body
        /\ \A q \in Requests \ {r} : req'[q] = req[q]
    BY DEF TypeOK, Request
  <1>2. (ClearsRoom(r) \/ RekeysRoom(r)) = (ClearsRoom(r) \/ RekeysRoom(r))'
    BY <1>1 DEF ClearsRoom, RekeysRoom, KeyMoves, FinalStart, FinalClass, FinalRoom
  <1>3. EditorOf(r)'
    BY <1>1, <1>2 DEF EditorReads, EditorOf, Live
  <1>4. \A q \in Requests \ {r} : EditorOf(q)'
    BY <1>1, EditorElsewhere
  <1> QED BY <1>3, <1>4 DEF EditorReads

\* Going on to the next check of a creation or of an edit.
LEMMA EditorGoto ==
    ASSUME TypeOK, EditorReads, NEW r \in Requests, NEW l, Goto(r, l),
           \/ l \in Creating /\ req[r].pc \in Creating
           \/ l \in Editing /\ req[r].pc \in Editing
    PROVE  EditorReads'
  <1>1. /\ UNCHANGED sessions
        /\ req' = [req EXCEPT ![r] = [req[r] EXCEPT !.pc = l, !.dead = req[r].dead]]
    BY ReqType DEF Goto, Request
  <1>2. /\ l \in PCs /\ req[r].pc # "idle"
        /\ l \notin Releasing /\ (l \in Creating => l \notin Editing)
    BY DEF PCs, Creating, Editing, Releasing
  <1>3. /\ \A b \in req[r].dead : b.session = req[r].sid
        /\ l \in Editing => req[r].op = "update"
        /\ req[r].op = "update" /\ req[r].dead # {} => ClearsRoom(r) \/ RekeysRoom(r)
    BY <1>2 DEF EditorReads, EditorOf, Creating, Editing
  <1> QED BY <1>1, <1>2, <1>3, EditorGoesOn

\* Beginning a request: an edit has just read its row.
LEMMA EditorBegins ==
    ASSUME TypeOK, EditorReads, NEW r \in Requests, NEW op, NEW l, NEW s, NEW w, NEW b,
           Start(r, op, l, s, w, b),
           \/ l \in Creating /\ op # "update"
           \/ l = "release" /\ op = "cancel"
           \/ l \in Editing /\ op = "update" /\ s \in Sessions /\ Live(s) /\ w = sessions[s]
    PROVE  EditorReads'
  <1>1. /\ UNCHANGED sessions /\ op \in Handlers[r]
        /\ req'[r] = [pc |-> l, op |-> op, sid |-> s, want |-> w, body |-> b, dead |-> {}]
        /\ \A q \in Requests \ {r} : req'[q] = req[q]
    BY DEF Start, TypeOK
  <1>2. /\ req'[r].pc = l /\ req'[r].op = op /\ req'[r].sid = s /\ req'[r].want = w
        /\ req'[r].dead = {}
    BY <1>1
  <1>3. EditorOf(r)'
    BY <1>1, <1>2 DEF EditorOf, Editing, Releasing, Creating, Live
  <1>4. \A q \in Requests \ {r} : EditorOf(q)'
    BY <1>1, EditorElsewhere
  <1> QED BY <1>3, <1>4 DEF EditorReads

\* Ending a request that has written no row.
LEMMA EditorRollsBack ==
    ASSUME TypeOK, EditorReads, NEW r \in Requests, Rollback(r)
    PROVE  EditorReads'
  <1>1. UNCHANGED sessions /\ ReleaseLocks(r)
    BY DEF Rollback
  <1>2. \A q \in Requests \ {r} : EditorOf(q)'
    BY <1>1, EditorEnds, EditorElsewhere
  <1> QED BY <1>1, <1>2, EditorEnds DEF EditorReads

\* With one editor, what an edit has read is outdated only by a cancellation.
LEMMA EditorStep ==
    ASSUME SingleEditor, TypeOK, Underway, EditorReads, NEW r \in Requests, Step(r)
    PROVE  EditorReads'
  <1> USE DEF At
  <1>0. req[r] \in Request
    BY ReqType
  <1>r. EditorOf(r)
    BY DEF EditorReads
  <1>1. CASE BookSlot(r)
    BY <1>1, EditorBegins DEF BookSlot, Creating
  <1>2. CASE BookCohortSlot(r)
    BY <1>2, EditorBegins DEF BookCohortSlot, Creating
  <1>3. CASE AdminCreate(r)
    BY <1>3, EditorBegins DEF AdminCreate, Creating
  <1>4. CASE CancelSchedule(r)
    BY <1>4, EditorBegins DEF CancelSchedule
  <1>5. CASE UpdateSchedule(r)
    <2>1. PICK s \in Sessions, b \in Bodies, l \in {"moveCollide", "reassign", "write"} :
            Live(s) /\ Start(r, "update", l, s, sessions[s], b)
      BY <1>5 DEF UpdateSchedule
    <2> QED BY <2>1, EditorBegins DEF Editing
  <1>6. CASE LoadTeamForBooking(r)
    <2>1. /\ UNCHANGED sessions /\ req[r].pc = "lockTeam"
          /\ req' = [req EXCEPT ![r] = [req[r] EXCEPT !.pc = "count", !.dead = req[r].dead]]
      BY <1>0, <1>6 DEF LoadTeamForBooking, Request
    <2> QED BY <1>r, <2>1, EditorGoesOn DEF EditorOf, PCs, Creating, Editing, Releasing
  <1>7. CASE (AssertWeeklyCap(r) \/ AssertNoCollision(r)) /\ ~Rollback(r)
    <2>1. PICK l \in {"collide", "insert"} : Goto(r, l) /\ req[r].pc \in Creating
      BY <1>7 DEF AssertWeeklyCap, AssertNoCollision, Creating
    <2> QED BY <2>1, EditorGoto DEF Creating
  <1>8. CASE (MoveCollision(r) \/ MoveWeeklyCap(r) \/ ReassignGuard(r)) /\ ~Rollback(r)
    <2>1. PICK l \in {"moveCount", "reassign", "write"} :
            Goto(r, l) /\ req[r].pc \in {"moveCollide", "moveCount", "reassign"}
      BY <1>8 DEF MoveCollision, MoveWeeklyCap, ReassignGuard, AfterChecks
    <2> QED BY <2>1, EditorGoto DEF Editing
  <1>9. CASE UpdateScheduleById(r)
    <2> DEFINE l == IF ClearsRoom(r) \/ RekeysRoom(r) THEN "release" ELSE "rekey"
    <2>1. /\ UNCHANGED sessions /\ req[r].pc = "write"
          /\ req' = [req EXCEPT ![r] = [req[r] EXCEPT !.pc = l, !.dead = req[r].dead]]
      BY <1>0, <1>9 DEF UpdateScheduleById, Request
    <2>2. /\ l \in {"release", "rekey"}
          /\ l = "release" => ClearsRoom(r) \/ RekeysRoom(r)
      OBVIOUS
    <2> HIDE DEF l
    <2> QED BY <1>r, <2>1, <2>2, EditorGoesOn DEF EditorOf, PCs, Creating, Editing, Releasing
  <1>10. CASE ReleaseRoomLock(r)
    <2> DEFINE found == {b \in ledger : b.session = req[r].sid}
    <2>1. /\ UNCHANGED sessions /\ req[r].pc = "release"
          /\ req' = [req EXCEPT ![r] = [req[r] EXCEPT !.pc = "releasing", !.dead = found]]
      BY <1>0, <1>10 DEF ReleaseRoomLock, Request, TypeOK
    <2>2. \A b \in found : b.session = req[r].sid
      OBVIOUS
    <2> HIDE DEF found
    <2> QED BY <1>r, <2>1, <2>2, EditorGoesOn DEF EditorOf, PCs, Creating, Editing, Releasing
  <1>11. CASE RoomLockReleased(r)
    <2> DEFINE l == IF req[r].op = "cancel" THEN "flip" ELSE "rekey"
               gone == req[r].dead \cap ledger
    <2>1. /\ UNCHANGED sessions /\ req[r].pc = "releasing"
          /\ req' = [req EXCEPT ![r] = [req[r] EXCEPT !.pc = l, !.dead = gone]]
      BY <1>0, <1>11 DEF RoomLockReleased, Request, TypeOK
    <2>2. /\ \A b \in gone : b.session = req[r].sid
          /\ l = "flip" \/ (l = "rekey" /\ req[r].op # "cancel")
      BY <1>r DEF EditorOf
    <2> HIDE DEF l, gone
    <2>3. /\ req[r].op = "update" => ClearsRoom(r) \/ RekeysRoom(r)
          /\ l = "rekey" => req[r].op = "update"
          /\ l \in PCs /\ l \notin Releasing \cup Creating
      BY <1>r, <2>1, <2>2 DEF EditorOf, PCs, Creating, Releasing
    <2> QED BY <2>1, <2>2, <2>3, EditorGoesOn DEF Editing
  <1>12. CASE InsertSession(r) /\ ~Rollback(r)
    <2>1. PICK s \in Sessions :
            /\ ReleaseLocks(r) /\ sessions[s].status = "none"
            /\ sessions' = [sessions EXCEPT ![s] = req[r].want]
      BY <1>12 DEF InsertSession
    <2>2. ASSUME NEW q \in Requests \ {r} PROVE EditorOf(q)'
      <3>1. req[q].pc # "idle" /\ req[q].op = "update" => req[q].sid # s
        BY <2>1 DEF EditorReads, EditorOf
      <3>2. req[q].pc # "idle" /\ req[q].op = "update" =>
               sessions'[req[q].sid] = sessions[req[q].sid]
        BY <2>1, <3>1 DEF TypeOK
      <3> QED BY <2>1, <3>2, EditorEnds, EditorElsewhere
    <2> QED BY <2>1, <2>2, EditorEnds DEF EditorReads
  <1>13. CASE CancelScheduleById(r) /\ ~Rollback(r)
    <2> DEFINE s == req[r].sid
               w == [sessions[s] EXCEPT !.status = "cancelled", !.room = Null]
    <2>1. /\ ReleaseLocks(r) /\ req[r].pc = "flip"
          /\ sessions' = [sessions EXCEPT ![s].status = "cancelled", ![s].room = Null]
      BY <1>13 DEF CancelScheduleById
    <2>2. s \in Sessions /\ sessions[s] \in Row
      BY <2>1 DEF Underway, Creating, TypeOK
    <2>3. w.status = "cancelled"
      BY <2>2 DEF Row
    <2>4. sessions' = [sessions EXCEPT ![s] = w]
      BY <2>1, <2>2 DEF TypeOK, Row
    <2> HIDE DEF w
    <2>5. \A x \in Sessions : sessions'[x] = sessions[x] \/ sessions'[x].status = "cancelled"
      BY <2>2, <2>3, <2>4 DEF TypeOK
    <2>6. ASSUME NEW q \in Requests \ {r} PROVE EditorOf(q)'
      <3>1. req[q].pc # "idle" /\ req[q].op = "update" => req[q].sid \in Sessions
        BY DEF EditorReads, EditorOf, Underway
      <3> QED BY <2>1, <2>5, <3>1, EditorEnds, EditorElsewhere
    <2> QED BY <2>1, <2>6, EditorEnds DEF EditorReads
  <1>14. CASE CommitUpdate(r) /\ ~Rollback(r)
    <2>1. ReleaseLocks(r) /\ req[r].pc = "rekey"
      BY <1>14 DEF CommitUpdate
    <2>2. "update" \in Handlers[r]
      BY <1>r, <2>1 DEF EditorOf, Editing
    <2>3. ASSUME NEW q \in Requests \ {r} PROVE EditorOf(q)'
      <3>1. ~(req[q].pc # "idle" /\ req[q].op = "update")
        BY <2>2 DEF EditorReads, EditorOf, SingleEditor
      <3> QED BY <2>1, <3>1, EditorEnds, EditorElsewhere
    <2> QED BY <2>1, <2>3, EditorEnds DEF EditorReads
  <1>15. CASE Rollback(r)
    BY <1>15, EditorRollsBack
  <1> QED
    BY <1>1, <1>2, <1>3, <1>4, <1>5, <1>6, <1>7, <1>8, <1>9, <1>10, <1>11, <1>12, <1>13,
       <1>14, <1>15 DEF Step, Fail

\* An edit of a live row leaves it without a room, or with its claim.
LEMMA EditedAtClaim ==
    ASSUME TypeOK, Underway, LiveRoomIsClaimed, NEW r \in Requests, EditorOf(r),
           CommitUpdate(r), ~Rollback(r), Live(req[r].sid),
           NEW w, w = Edited(r, sessions[req[r].sid]), w.room # Null
    PROVE  [room |-> w.room, start |-> w.start, session |-> req[r].sid] \in ledger'
  <1> DEFINE s    == req[r].sid
             want == req[r].want
             body == req[r].body
  <1>1. /\ At(r, "rekey")
        /\ ledger' = (ledger \ req[r].dead)
                       \cup (IF RekeysRoom(r)
                             THEN {[room |-> FinalRoom(r), start |-> FinalStart(r), session |-> s]}
                             ELSE {})
    BY DEF CommitUpdate
  <1>2. /\ s \in Sessions /\ sessions[s] = want /\ want \in Row
        /\ req[r].dead # {} => ClearsRoom(r) \/ RekeysRoom(r)
    BY <1>1, ReqType DEF EditorOf, Editing, Underway, At, Creating
  <1>3. /\ w.start = FinalStart(r)
        /\ w.room = IF ClearsRoom(r) THEN Null
                    ELSE IF RekeysRoom(r) THEN FinalRoom(r) ELSE want.room
    <2> DEFINE c  == Given(body.class, want.class)
               t  == Given(body.team, want.team)
               st == Given(body.start, want.start)
               rm == IF ClearsRoom(r) THEN Null
                     ELSE IF RekeysRoom(r) THEN FinalRoom(r) ELSE want.room
    <2>1. w = [want EXCEPT !.class = c, !.team = t, !.start = st, !.room = rm]
      BY <1>2 DEF Edited
    <2>2. st = FinalStart(r)
      BY DEF FinalStart
    <2> HIDE DEF c, t, st, rm
    <2>3. w.start = st /\ w.room = rm
      BY <1>2, <2>1 DEF Row
    <2> QED BY <2>2, <2>3 DEF rm
  <1>4. CASE RekeysRoom(r)
    BY <1>1, <1>3, <1>4
  <1>5. CASE ~RekeysRoom(r)
    <2>1. ~ClearsRoom(r) /\ w.room = want.room
      BY <1>3, <1>5
    <2>2. w.start = want.start
      BY <1>3, <1>5, <2>1 DEF RekeysRoom, ClearsRoom, KeyMoves, FinalStart, Given
    <2>3. [room |-> want.room, start |-> want.start, session |-> s] \in ledger
      BY <1>2, <2>1 DEF LiveRoomIsClaimed
    <2>4. ledger' = ledger
      BY <1>1, <1>2, <1>5, <2>1
    <2> QED BY <2>1, <2>2, <2>3, <2>4
  <1> QED BY <1>4, <1>5

\* Every statement keeps a live session with a room at its claim.
LEMMA StepClaimed ==
    ASSUME TypeOK, Underway, EditorReads, LiveRoomIsClaimed, NEW r \in Requests, Step(r)
    PROVE  LiveRoomIsClaimed'
  <1>1. CASE InsertSession(r) /\ ~Rollback(r)
    <2> DEFINE w == req[r].want
    <2>1. PICK s \in Sessions :
            /\ sessions[s].status = "none"
            /\ sessions' = [sessions EXCEPT ![s] = w]
            /\ ledger' = IF w.room = Null THEN ledger
                         ELSE ledger \cup {[room |-> w.room, start |-> w.start,
                                            session |-> s]}
      BY <1>1 DEF InsertSession
    <2>2. sessions'[s] = w /\ \A x \in Sessions \ {s} : sessions'[x] = sessions[x]
      BY <2>1 DEF TypeOK
    <2>3. ledger \subseteq ledger'
      BY <2>1
    <2>4. w.room # Null =>
            [room |-> w.room, start |-> w.start, session |-> s] \in ledger'
      BY <2>1
    <2> QED BY <2>2, <2>3, <2>4 DEF LiveRoomIsClaimed, Live
  <1>2. CASE CancelScheduleById(r) /\ ~Rollback(r)
    <2> DEFINE s == req[r].sid
               w == [sessions[s] EXCEPT !.status = "cancelled", !.room = Null]
    <2>1. /\ At(r, "flip") /\ ledger' = ledger \ req[r].dead
          /\ sessions' = [sessions EXCEPT ![s].status = "cancelled", ![s].room = Null]
      BY <1>2 DEF CancelScheduleById
    <2>2. s \in Sessions /\ sessions[s] \in Row
      BY <2>1 DEF Underway, At, Creating, TypeOK
    <2>3. w.status = "cancelled"
      BY <2>2 DEF Row
    <2>4. sessions' = [sessions EXCEPT ![s] = w]
      BY <2>1, <2>2 DEF TypeOK, Row
    <2> HIDE DEF w
    <2>5. /\ sessions'[s].status # "scheduled"
          /\ \A x \in Sessions \ {s} : sessions'[x] = sessions[x]
      BY <2>2, <2>3, <2>4 DEF TypeOK
    <2>6. \A b \in req[r].dead : b.session = s
      BY DEF EditorReads, EditorOf
    <2> SUFFICES ASSUME NEW x \in Sessions, sessions'[x].status = "scheduled",
                        sessions'[x].room # Null
                 PROVE  [room |-> sessions'[x].room, start |-> sessions'[x].start,
                         session |-> x] \in ledger'
      BY DEF LiveRoomIsClaimed, Live
    <2>7. x # s /\ sessions'[x] = sessions[x]
      BY <2>5
    <2> DEFINE claim == [room |-> sessions[x].room, start |-> sessions[x].start,
                         session |-> x]
    <2>8. claim \in ledger /\ claim.session # s
      BY <2>7 DEF LiveRoomIsClaimed, Live
    <2> QED BY <2>1, <2>6, <2>7, <2>8
  <1>3. CASE CommitUpdate(r) /\ ~Rollback(r)
    <2> DEFINE s == req[r].sid
               w == Edited(r, sessions[s])
    <2>1. /\ At(r, "rekey") /\ sessions' = [sessions EXCEPT ![s] = w]
          /\ ledger \ req[r].dead \subseteq ledger'
      BY <1>3 DEF CommitUpdate
    <2>2. s \in Sessions /\ sessions[s] \in Row
      BY <2>1 DEF Underway, At, Creating, TypeOK
    <2>3. w.status = sessions[s].status
      BY <2>2, EditedStatus
    <2>4. Live(s) /\ w.room # Null =>
            [room |-> w.room, start |-> w.start, session |-> s] \in ledger'
      BY <1>3, EditedAtClaim DEF EditorReads
    <2> HIDE DEF w
    <2>5. sessions'[s] = w /\ \A x \in Sessions \ {s} : sessions'[x] = sessions[x]
      BY <2>1, <2>2 DEF TypeOK
    <2>6. \A b \in req[r].dead : b.session = s
      BY DEF EditorReads, EditorOf
    <2> QED BY <2>1, <2>3, <2>4, <2>5, <2>6 DEF LiveRoomIsClaimed, Live
  <1>4. CASE Rollback(r)
    BY <1>4 DEF Rollback, LiveRoomIsClaimed, Live
  <1>5. CASE ~(InsertSession(r) \/ CancelScheduleById(r) \/ CommitUpdate(r)) /\ ~Rollback(r)
    <2>1. UNCHANGED <<sessions, ledger>>
      BY <1>5 DEF Step, Start, Goto, BookSlot, BookCohortSlot, AdminCreate,
                  LoadTeamForBooking, AssertWeeklyCap, AssertNoCollision, CancelSchedule,
                  ReleaseRoomLock, RoomLockReleased, UpdateSchedule, MoveCollision,
                  MoveWeeklyCap, ReassignGuard, UpdateScheduleById, Fail
    <2> QED BY <2>1 DEF LiveRoomIsClaimed, Live
  <1> QED BY <1>1, <1>2, <1>3, <1>4, <1>5

\* With one editor, a live session that shows a room holds the claim on it at
\* its own start, through every edit of room and time (updateSchedule's room
\* section).
THEOREM RoomsClaimed ==
    ASSUME SingleEditor
    PROVE  Spec => []LiveRoomIsClaimed
  <1>1. Init => EditorReads /\ LiveRoomIsClaimed
    BY DEF Init, EditorReads, EditorOf, Idle, NoRow, Editing, Releasing,
           LiveRoomIsClaimed, Live
  <1>2. TypeOK /\ Underway /\ EditorReads /\ LiveRoomIsClaimed /\ [Next]_vars
           => (EditorReads /\ LiveRoomIsClaimed)'
    <2> SUFFICES ASSUME TypeOK, Underway, EditorReads, LiveRoomIsClaimed, [Next]_vars
                 PROVE  (EditorReads /\ LiveRoomIsClaimed)'
      OBVIOUS
    <2>1. CASE Next
      BY <2>1, EditorStep, StepClaimed DEF Next
    <2>2. CASE UNCHANGED vars
      <3>1. EditorReads'
        BY <2>2, EditorElsewhere DEF vars, EditorReads
      <3> QED BY <2>2, <3>1 DEF vars, LiveRoomIsClaimed, Live
    <2> QED BY <2>1, <2>2
  <1> QED BY <1>1, <1>2, TypedUnderway, PTL DEF Spec

\* With one editor, two live sessions never sit in the same room at the same
\* start: each holds its claim, and the ledger has one claim per room and start.
THEOREM RoomsExclusive ==
    ASSUME SingleEditor
    PROVE  Spec => []RoomExclusive
  <1>1. LiveRoomIsClaimed /\ OneClaimPerRoomSlot => RoomExclusive
    <2> SUFFICES ASSUME LiveRoomIsClaimed, OneClaimPerRoomSlot,
                        NEW s1 \in Sessions, NEW s2 \in Sessions, s1 # s2, Live(s1), Live(s2),
                        sessions[s1].room # Null, sessions[s1].room = sessions[s2].room,
                        sessions[s1].start = sessions[s2].start
                 PROVE  FALSE
      BY DEF RoomExclusive
    <2> DEFINE Claim(s) == [room |-> sessions[s].room, start |-> sessions[s].start,
                            session |-> s]
    <2>1. Claim(s1) \in ledger /\ Claim(s2) \in ledger
      BY DEF LiveRoomIsClaimed
    <2>2. Claim(s1) = Claim(s2)
      BY <2>1 DEF OneClaimPerRoomSlot
    <2> QED BY <2>2
  <1> QED BY <1>1, RoomsClaimed, ClaimSafety, PTL
=============================================================================
