---------------------------- MODULE EnglishRuns ----------------------------
(***************************************************************************)
(* The canonical English operations: learners joining, leaving and being   *)
(* transferred between Course Runs, the Meetings of a run with their       *)
(* session numbers, attendance rosters and exam results.                   *)
(*                                                                         *)
(* Every operation is one READ COMMITTED transaction that takes row locks  *)
(* one after the other (Rows, Awaits), reads, and writes at its commit.    *)
(* Placing a meeting also waits for whoever is taking or leaving its start *)
(* in the two unique indexes of the meetings. A wait never times out; the  *)
(* database aborts one transaction of a cycle of waits. What a statement   *)
(* read before it waited stays as old as the statement, except the columns *)
(* of the row it waited for.                                               *)
(*                                                                         *)
(* A run has at most one enrollment of an employee, so <<run, employee>>   *)
(* names the row. Each meeting has the one session unit that the commands  *)
(* create; imported read-only evidence and make-up units are left out.     *)
(***************************************************************************)
EXTENDS Naturals, Sequences, FiniteSets

CONSTANTS Runs, Cohorts, Employees, Meetings,
          CohortOf,   \* the stable class of each run
          OpenRuns,   \* runs whose status is planned or active
          Capacity,   \* Capacity[c]: the capacity of class c
          Operators,  \* requests the server handles at a time
          Kinds,      \* operations the instance uses
          LastTime,   \* bound on the clock
          Backdate,   \* bound on how far back a given date lies
          Ahead,      \* bound on how far ahead it lies
          MaxRequests, \* bound on the requests ever begun
          None

Time == 0 .. LastTime

\* The row of a meeting's session unit, and the entry of a start time in the
\* unique index of a run's meetings, or of all live ones (r = None).
UnitRow(m) == <<"unit", m>>
SlotRow(r, t) == <<"slot", r, t>>
UnitRows == {UnitRow(m) : m \in Meetings}
SlotRows == {SlotRow(r, t) : r \in Runs \cup {None}, t \in Time}

ASSUME EnglishAssumption ==
    /\ IsFiniteSet(Employees) /\ IsFiniteSet(Meetings)
    /\ Cohorts \cap Meetings = {} /\ {"unit", "slot"} \cap Runs = {}
    /\ (Cohorts \cup Meetings) \cap (UnitRows \cup SlotRows \cup (Runs \X Employees)) = {}
    /\ CohortOf \in [Runs -> Cohorts]
    /\ OpenRuns \subseteq Runs
    /\ Kinds \subseteq {"join", "leave", "transfer", "create", "move", "cancel", "save", "exam"}
    /\ Capacity \in [Cohorts -> Nat \ {0}]
    /\ LastTime \in Nat /\ Backdate \in Nat /\ Ahead \in Nat /\ MaxRequests \in Nat
    /\ None \notin Runs \cup Operators

VARIABLES now,       \* the clock; a session slot per tick
          enr,       \* enr[r][e]: the enrollment of e in run r
          member,    \* member[c][e]: the membership rows of e in class c
          override,  \* override[c]: active counts approved above capacity
          meeting,   \* the eng_meetings row and its session unit
          att,       \* att[m][e]: the attendance record of e
          exam,      \* exam[r][e]: e has an active exam result in run r
          owner,     \* transaction that holds each row
          op,        \* op[p]: the transaction of request slot p
          begun      \* requests begun so far

tables == <<enr, member, override, meeting, att, exam>>
vars == <<now, tables, owner, op, begun>>

-----------------------------------------------------------------------------
(* Rows.                                                                   *)

Never == LastTime + 1

Enrollment == [status : {"none", "active", "dropped", "transferred"},
               start : Nat, row : Nat, from : Runs \cup {None}]
NoEnrollment == [status |-> "none", start |-> 0, row |-> 0, from |-> None]

Membership == [status : {"active", "cancelled", "transferred"},
               since : Time, until : 0 .. Never]

Meeting == [status : {"free", "planned", "completed", "cancelled"},
            run : Runs \cup {None}, number : Nat, at : Time]
NoMeeting == [status |-> "free", run |-> None, number |-> 0, at |-> 0]

Marks == {"none", "present", "absent"}

Lockable == Cohorts \cup Meetings \cup UnitRows \cup SlotRows \cup (Runs \X Employees)

-----------------------------------------------------------------------------
(* What the statements read.                                               *)

Numbers(r, statuses) ==
    {meeting[m].number : m \in {n \in Meetings : /\ meeting[n].run = r
                                                 /\ meeting[n].status \in statuses}}

Greatest(S) == CHOOSE n \in S \cup {0} : \A k \in S : k <= n
Least(S) == CHOOSE n \in S : \A k \in S : n <= k

NextSessionNumber(r) == Greatest(Numbers(r, {"planned", "completed"})) + 1

TransferStartSessionNumber(r) ==
    IF Numbers(r, {"planned"}) # {} THEN Least(Numbers(r, {"planned"}))
    ELSE Greatest(Numbers(r, {"completed"})) + 1

ActiveIn(r) == {e \in Employees : enr[r][e].status = "active"}

ActiveMember(c, e) == \E i \in DOMAIN member[c][e] : member[c][e][i].status = "active"
Members(c) == {e \in Employees : ActiveMember(c, e)}

\* The membership that enrollment <<r, e>> refers to.
MembershipOf(r, e) == member[CohortOf[r]][e][enr[r][e].row]

ActiveElsewhere(e) == \E r \in Runs : enr[r][e].status = "active"

\* Mutant: the start session is not compared.
AnyStart(m, e) ==
    LET r == meeting[m].run IN
    \/ att[m][e] # "none"
    \/ meeting[m].status = "planned" /\ enr[r][e].status = "active"

\* The learners a roster lists: those with a record, on a planned meeting the
\* active ones, on a completed one those whose membership covers its day.
Applicable(m, e) ==
    LET r == meeting[m].run IN
    /\ enr[r][e].status # "none"
    /\ enr[r][e].start <= meeting[m].number
    /\ \/ att[m][e] # "none"
       \/ meeting[m].status = "planned" /\ enr[r][e].status = "active"
       \/ /\ meeting[m].status = "completed"
          /\ meeting[m].at \in MembershipOf(r, e).since .. MembershipOf(r, e).until

Roster(m) == {e \in Employees : Applicable(m, e)}

\* Mutant: the token leaves out what was recorded.
UnmarkedToken(m) ==
    [status |-> meeting[m].status, at |-> meeting[m].at,
     rows |-> [e \in Roster(m) |-> "none"]]

RosterToken(m) ==
    [status |-> meeting[m].status, at |-> meeting[m].at,
     rows |-> [e \in Roster(m) |-> att[m][e]]]

\* Attendance records of a meeting, and of an enrollment over its run.
Recorded(m) == {e \in Employees : att[m][e] # "none"}
Marked(r, e, marks) == {m \in Meetings : meeting[m].run = r /\ att[m][e] \in marks}

\* attendance_ratio >= 0.8, the default threshold, with attendance recorded.
Eligible(r, e) ==
    /\ Marked(r, e, {"present", "absent"}) # {}
    /\ 10 * Cardinality(Marked(r, e, {"present"}))
         >= 8 * Cardinality(Marked(r, e, {"present", "absent"}))

-----------------------------------------------------------------------------
(* Requests. "number" is the session number the operator confirmed and     *)
(* "token" the roster the marks were made on: both are read when the form  *)
(* is loaded, before the transaction begins.                               *)

SaveRequest ==
    UNION {[kind : {"save"}, meeting : Meetings,
            token : [status : {"planned", "completed"}, at : Time, rows : [R -> Marks]],
            marks : [R -> {"present", "absent"}]] : R \in SUBSET Employees}

Request ==
    [kind : {"join"}, run : Runs, emp : Employees, date : Time, number : Nat]
    \cup [kind : {"leave"}, run : Runs, emp : Employees, date : Time]
    \cup [kind : {"transfer"}, run : Runs, from : Runs, emp : Employees,
          date : Time, number : Nat, reason : BOOLEAN]
    \cup [kind : {"create"}, run : Runs, at : Time, number : Nat]
    \cup [kind : {"move"}, meeting : Meetings, at : Time]
    \cup [kind : {"cancel"}, meeting : Meetings]
    \cup SaveRequest
    \cup [kind : {"exam"}, run : Runs, emp : Employees]

\* The dates of a join or a transfer, which may lie ahead, and of a leave,
\* which may not.
Dates == {d \in Time : now <= d + Backdate /\ d <= now + Ahead}
PastDates == {d \in Dates : d <= now}
Future == {t \in Time : now < t}
In(statuses) == {m \in Meetings : meeting[m].status \in statuses}

\* What the screens of this moment offer.
Offered(kind) ==
    CASE kind = "join" ->
           {[kind |-> "join", run |-> r, emp |-> e, date |-> d,
             number |-> NextSessionNumber(r)] : r \in OpenRuns, e \in Employees, d \in Dates}
      [] kind = "leave" ->
           UNION {[kind : {"leave"}, run : {r}, emp : ActiveIn(r), date : PastDates] : r \in Runs}
      [] kind = "transfer" ->
           UNION {UNION {[kind : {"transfer"}, run : {r}, from : {s}, emp : ActiveIn(s), date : Dates,
                          number : {TransferStartSessionNumber(r)}, reason : BOOLEAN] :
                             s \in Runs \ {r}} : r \in OpenRuns}
      [] kind = "create" ->
           {[kind |-> "create", run |-> r, at |-> t, number |-> NextSessionNumber(r)] :
               r \in OpenRuns, t \in Future}
      [] kind = "move" -> [kind : {"move"}, meeting : In({"planned"}), at : Future]
      [] kind = "cancel" -> [kind : {"cancel"}, meeting : In({"planned"})]
      [] kind = "save" ->
           UNION {[kind : {"save"}, meeting : {m}, token : {RosterToken(m)},
                   marks : [Roster(m) -> {"present", "absent"}]] :
                      m \in {n \in In({"planned", "completed"}) : meeting[n].at <= now}}
      [] kind = "exam" ->
           UNION {[kind : {"exam"}, run : {r}, emp : ActiveIn(r)] : r \in Runs}

Idle == [step |-> "idle"]

Transaction == {Idle} \cup
    [step : {"lock", "write"}, req : Request, want : Seq(Lockable), seen : BOOLEAN]

Waiting(p) == op[p] # Idle /\ op[p].want # <<>>
Locked(p) == op[p].step = "lock" /\ op[p].want = <<>>
Writing(p) == op[p].step = "write" /\ op[p].want = <<>>

TypeOK ==
    /\ now \in Time
    /\ enr \in [Runs -> [Employees -> Enrollment]]
    /\ member \in [Cohorts -> [Employees -> Seq(Membership)]]
    /\ override \in [Cohorts -> SUBSET Nat]
    /\ meeting \in [Meetings -> Meeting]
    /\ att \in [Meetings -> [Employees -> Marks]]
    /\ exam \in [Runs -> [Employees -> BOOLEAN]]
    /\ owner \in [Lockable -> Operators \cup {None}]
    /\ op \in [Operators -> Transaction]
    /\ begun \in 0 .. MaxRequests

Init ==
    /\ now = 0
    /\ enr = [r \in Runs |-> [e \in Employees |-> NoEnrollment]]
    /\ member = [c \in Cohorts |-> [e \in Employees |-> <<>>]]
    /\ override = [c \in Cohorts |-> {}]
    /\ meeting = [m \in Meetings |-> NoMeeting]
    /\ att = [m \in Meetings |-> [e \in Employees |-> "none"]]
    /\ exam = [r \in Runs |-> [e \in Employees |-> FALSE]]
    /\ owner = [x \in Lockable |-> None]
    /\ op = [p \in Operators |-> Idle]
    /\ begun = 0

-----------------------------------------------------------------------------
(* Row locks.                                                              *)

\* findCourseRunForUpdate locks the run and its class in one statement, and
\* nothing else locks either: the class's row stands for both.
RunRows(r) == <<CohortOf[r]>>

\* Mutant: leaving locks the enrollment before the class.
LearnerFirst(q) ==
    CASE q.kind \in {"join", "create"} -> RunRows(q.run)
      [] q.kind = "leave" -> <<<<q.run, q.emp>>>> \o RunRows(q.run)
      [] q.kind = "transfer" -> RunRows(q.run) \o RunRows(q.from) \o <<<<q.from, q.emp>>>>
      [] q.kind \in {"move", "cancel"} -> <<q.meeting, UnitRow(q.meeting)>>
      [] q.kind = "save" -> RunRows(meeting[q.meeting].run) \o <<UnitRow(q.meeting), q.meeting>>
      [] q.kind = "exam" -> <<<<q.run, q.emp>>>>

\* A transfer locks the target first. findMeetingForUpdate locks the meeting
\* before its unit, getAttendanceRosterData the unit before the meeting.
Rows(q) ==
    CASE q.kind \in {"join", "create"} -> RunRows(q.run)
      [] q.kind = "leave" -> RunRows(q.run) \o <<<<q.run, q.emp>>>>
      [] q.kind = "transfer" -> RunRows(q.run) \o RunRows(q.from) \o <<<<q.from, q.emp>>>>
      [] q.kind \in {"move", "cancel"} -> <<q.meeting, UnitRow(q.meeting)>>
      [] q.kind = "save" -> RunRows(meeting[q.meeting].run) \o <<UnitRow(q.meeting), q.meeting>>
      [] q.kind = "exam" -> <<<<q.run, q.emp>>>>

\* The counts a statement reads besides the row it locks.
Counts(q) ==
    CASE q.kind \in {"move", "cancel"} -> Recorded(q.meeting) = {}
      [] q.kind = "exam" -> Eligible(q.run, q.emp)
      [] OTHER -> TRUE

\* The first statement reads its counts, and takes its row if it is free.
Begin(p) ==
    /\ op[p] = Idle /\ begun < MaxRequests
    /\ \E k \in Kinds : \E q \in Offered(k) :
         LET x == Head(Rows(q))
             free == owner[x] = None IN
         /\ op' = [op EXCEPT ![p] =
                [step |-> "lock", req |-> q, seen |-> Counts(q),
                 want |-> IF free THEN Tail(Rows(q)) ELSE Rows(q)]]
         /\ owner' = IF free THEN [owner EXCEPT ![x] = p] ELSE owner
    /\ begun' = begun + 1
    /\ UNCHANGED <<now, tables>>

\* The entries of a meeting's start, in the order they are written.
Entries(r, t) == <<SlotRow(r, t), SlotRow(None, t)>>

\* No other meeting in the index starts when q places its own. A run's index
\* lists its cancelled meetings too, the other one does not.
SlotFree(q, r) ==
    \A n \in Meetings :
        (/\ meeting[n].status # "free" /\ meeting[n].at = q.at
         /\ q.kind = "move" => n # q.meeting) =>
            IF r = None THEN meeting[n].status = "cancelled" ELSE meeting[n].run # r

\* The next row, or index entry, once nobody else holds it.
Lock(p) ==
    LET x == Head(op[p].want) IN
    /\ Waiting(p)
    /\ owner[x] \in {None, p}
    /\ x \in SlotRows => SlotFree(op[p].req, x[2])
    /\ owner' = [owner EXCEPT ![x] = p]
    /\ op' = [op EXCEPT ![p].want = Tail(@)]
    /\ UNCHANGED <<now, tables, begun>>

Release(p) ==
    /\ op' = [op EXCEPT ![p] = Idle]
    /\ owner' = [x \in Lockable |-> IF owner[x] = p THEN None ELSE owner[x]]

WaitsFor(p) == owner[Head(op[p].want)]
Blocked(p) == Waiting(p) /\ WaitsFor(p) \notin {None, p}

\* A refusal or a failed statement rolls back; a waiting statement cannot fail.
Refuse(p) ==
    /\ op[p] # Idle /\ ~ Blocked(p)
    /\ Release(p)
    /\ UNCHANGED <<now, tables, begun>>

\* A cycle of waits: transactions that wait for one another, and no fewer do.
Stuck(S) == \A q \in S : Blocked(q) /\ WaitsFor(q) \in S

Cycle(S) ==
    /\ S # {} /\ Stuck(S)
    /\ \A T \in SUBSET S : T # {} /\ Stuck(T) => T = S

\* The database finds a cycle and aborts one of its transactions.
AbortVictim(p) ==
    /\ \E S \in SUBSET Operators : p \in S /\ Cycle(S)
    /\ Release(p)
    /\ UNCHANGED <<now, tables, begun>>

Tick ==
    /\ now < LastTime
    /\ now' = now + 1
    /\ UNCHANGED <<tables, owner, op, begun>>

-----------------------------------------------------------------------------
(* Learners.                                                               *)

\* What is locked after the checks below: the active enrollment of a learner who
\* joins, if there is one, and the start of a meeting that is created.
Awaits(q) ==
    LET active == {r \in Runs : enr[r][q.emp].status = "active"} IN
    CASE q.kind = "join" ->
           IF active = {} THEN {<<>>} ELSE {<<<<r, q.emp>>>> : r \in active}
      [] q.kind = "create" -> {Entries(q.run, q.at)}
      [] q.kind = "transfer" -> {<<>>}

\* Checks that other transactions can outdate before the commit: the session
\* number, which a cancellation changes without the run's lock, and whether the
\* learner is active elsewhere.
Confirm(p) ==
    LET q == op[p].req IN
    /\ Locked(p)
    /\ \/ q.kind \in {"join", "create"} /\ q.number = NextSessionNumber(q.run)
       \/ q.kind = "transfer" /\ q.number = TransferStartSessionNumber(q.run)
    /\ \E want \in Awaits(q) :
         op' = [op EXCEPT ![p].step = "write", ![p].want = want]
    /\ UNCHANGED <<now, tables, owner, begun>>

\* Mutant: no index on the active enrollments.
NoIndex(e) == TRUE

\* The unique index on the active enrollments of an employee.
NoneActive(e) == ~ ActiveElsewhere(e)

Joined(c, e, date) ==
    IF ActiveMember(c, e) THEN member[c][e]
    ELSE Append(member[c][e], [status |-> "active", since |-> date, until |-> Never])

\* Mutant: the source is not stored.
Unlinked(rows, start, from) ==
    [status |-> "active", start |-> start, row |-> rows, from |-> None]

Enrolled(rows, start, from) ==
    [status |-> "active", start |-> start, row |-> rows, from |-> from]

\* Mutant: one seat too many.
FullRoom(r) == Cardinality(ActiveIn(r)) <= Capacity[CohortOf[r]]

HasRoom(r) == Cardinality(ActiveIn(r)) < Capacity[CohortOf[r]]

AddRunEnrollment(p) ==
    LET q == op[p].req
        c == CohortOf[q.run]
        rows == Joined(c, q.emp, q.date) IN
    /\ Writing(p) /\ q.kind = "join"
    /\ \A r \in Runs : owner[<<r, q.emp>>] = p => enr[r][q.emp].status # "active"
    /\ enr[q.run][q.emp].status = "none"
    /\ HasRoom(q.run)
    /\ NoneActive(q.emp)
    /\ member' = [member EXCEPT ![c][q.emp] = rows]
    /\ enr' = [enr EXCEPT ![q.run][q.emp] = Enrolled(Len(rows), q.number, None)]
    /\ Release(p)
    /\ UNCHANGED <<now, override, meeting, att, exam, begun>>

\* Mutant: closed enrollments keep the membership open.
NeverReferenced(c, e, r) == \A s \in Runs : CohortOf[s] = c => enr[s][e].status = "none"

\* endMembershipIfUnused, after the enrollment of run r has left "active".
Unused(c, e, r) == \A s \in Runs \ {r} : CohortOf[s] = c => enr[s][e].status # "active"

Ended(row, status, date) == [row EXCEPT !.status = status, !.until = date]

LeaveRunEnrollment(p) ==
    LET q == op[p].req
        c == CohortOf[q.run]
        row == enr[q.run][q.emp].row IN
    /\ Locked(p) /\ q.kind = "leave"
    /\ enr[q.run][q.emp].status = "active"
    /\ MembershipOf(q.run, q.emp).status = "active"
    /\ MembershipOf(q.run, q.emp).since <= q.date
    /\ enr' = [enr EXCEPT ![q.run][q.emp].status = "dropped"]
    /\ member' = IF Unused(c, q.emp, q.run)
                 THEN [member EXCEPT ![c][q.emp][row] = Ended(@, "cancelled", q.date)]
                 ELSE member
    /\ Release(p)
    /\ UNCHANGED <<now, override, meeting, att, exam, begun>>

\* The active count a transfer would leave in the class it enters.
Resulting(c) == Cardinality(Members(c)) + 1

\* createCapacityOverride: the count that was approved, if it needed approval.
Overridden(c) == IF Resulting(c) > Capacity[c] THEN {Resulting(c)} ELSE {}

TransferLearner(p) ==
    LET q == op[p].req
        c == CohortOf[q.from]
        d == CohortOf[q.run]
        row == enr[q.from][q.emp].row
        rows == Joined(d, q.emp, q.date) IN
    /\ Writing(p) /\ q.kind = "transfer"
    /\ c # d
    /\ enr[q.from][q.emp].status = "active"
    /\ MembershipOf(q.from, q.emp).status = "active"
    /\ MembershipOf(q.from, q.emp).since <= q.date
    /\ enr[q.run][q.emp].status = "none"
    /\ ~ ActiveMember(d, q.emp)
    /\ Resulting(d) <= Capacity[d] \/ q.reason
    /\ \A r \in Runs \ {q.from} : enr[r][q.emp].status # "active"
    /\ enr' = [enr EXCEPT ![q.from][q.emp].status = "transferred",
                          ![q.run][q.emp] = Enrolled(Len(rows), q.number, q.from)]
    /\ member' = [member EXCEPT ![c][q.emp][row] = Ended(@, "transferred", q.date),
                                ![d][q.emp] = rows]
    /\ override' = [override EXCEPT ![d] = @ \cup Overridden(d)]
    /\ Release(p)
    /\ UNCHANGED <<now, meeting, att, exam, begun>>

-----------------------------------------------------------------------------
(* Meetings.                                                               *)

CreateAttendanceSession(p) ==
    LET q == op[p].req IN
    /\ Writing(p) /\ q.kind = "create"
    /\ \E m \in Meetings :
         /\ meeting[m] = NoMeeting
         /\ meeting' = [meeting EXCEPT ![m] =
                [status |-> "planned", run |-> q.run, number |-> q.number, at |-> q.at]]
    /\ Release(p)
    /\ UNCHANGED <<now, enr, member, override, att, exam, begun>>

\* A planned meeting that has not begun, without attendance as far as the
\* statement saw.
Changeable(p) ==
    LET m == op[p].req.meeting IN
    /\ meeting[m].status = "planned"
    /\ meeting[m].at > now
    /\ op[p].seen

\* The update has written the row: its old entries in the indexes are in doubt
\* until the commit, and the new ones wait for theirs.
LeaveSlot(p) ==
    LET q == op[p].req
        row == meeting[q.meeting] IN
    /\ Locked(p) /\ q.kind = "move"
    /\ Changeable(p)
    /\ owner' = [owner EXCEPT ![SlotRow(row.run, row.at)] = p, ![SlotRow(None, row.at)] = p]
    /\ op' = [op EXCEPT ![p].step = "write", ![p].want = Entries(row.run, q.at)]
    /\ UNCHANGED <<now, tables, begun>>

RescheduleMeeting(p) ==
    LET q == op[p].req IN
    /\ Writing(p) /\ q.kind = "move"
    /\ meeting' = [meeting EXCEPT ![q.meeting].at = q.at]
    /\ Release(p)
    /\ UNCHANGED <<now, enr, member, override, att, exam, begun>>

CancelMeeting(p) ==
    LET q == op[p].req IN
    /\ Locked(p) /\ q.kind = "cancel"
    /\ Changeable(p)
    /\ meeting' = [meeting EXCEPT ![q.meeting].status = "cancelled"]
    /\ Release(p)
    /\ UNCHANGED <<now, enr, member, override, att, exam, begun>>

-----------------------------------------------------------------------------
(* Attendance and evaluation.                                              *)

\* The enrollments of a roster, in some order.
RosterRows(m) ==
    LET rows == {meeting[m].run} \X Roster(m) IN
    {s \in [1 .. Cardinality(rows) -> rows] : \A x \in rows : \E i \in DOMAIN s : s[i] = x}

\* The roster is read again under the locks and compared with the token; its
\* enrollments are locked.
LockRoster(p) ==
    LET q == op[p].req IN
    /\ Locked(p) /\ q.kind = "save"
    /\ meeting[q.meeting].status # "cancelled"
    /\ meeting[q.meeting].at <= now
    /\ q.token = RosterToken(q.meeting)
    /\ \E rows \in RosterRows(q.meeting) :
         op' = [op EXCEPT ![p].step = "write", ![p].want = rows]
    /\ UNCHANGED <<now, tables, owner, begun>>

SaveAttendanceRoster(p) ==
    LET q == op[p].req IN
    /\ Writing(p) /\ q.kind = "save"
    /\ att' = [att EXCEPT ![q.meeting] =
           [e \in Employees |-> IF e \in DOMAIN q.marks THEN q.marks[e] ELSE @[e]]]
    /\ meeting' = [meeting EXCEPT ![q.meeting].status = "completed"]
    /\ Release(p)
    /\ UNCHANGED <<now, enr, member, override, exam, begun>>

\* The gate of the exam: the ratio is the one the statement read when it began.
RecordExamResult(p) ==
    LET q == op[p].req IN
    /\ Locked(p) /\ q.kind = "exam"
    /\ enr[q.run][q.emp].status = "active"
    /\ op[p].seen
    /\ exam' = [exam EXCEPT ![q.run][q.emp] = TRUE]
    /\ Release(p)
    /\ UNCHANGED <<now, enr, member, override, meeting, att, begun>>

\* deleteExamResult is one statement and takes no lock on the enrollment.
DeleteExamResult ==
    /\ "exam" \in Kinds
    /\ \E r \in Runs, e \in Employees :
         /\ exam[r][e]
         /\ exam' = [exam EXCEPT ![r][e] = FALSE]
    /\ UNCHANGED <<now, enr, member, override, meeting, att, owner, op, begun>>

Work(p) ==
    \/ Confirm(p)
    \/ AddRunEnrollment(p)
    \/ LeaveRunEnrollment(p)
    \/ TransferLearner(p)
    \/ CreateAttendanceSession(p)
    \/ LeaveSlot(p)
    \/ RescheduleMeeting(p)
    \/ CancelMeeting(p)
    \/ LockRoster(p)
    \/ SaveAttendanceRoster(p)
    \/ RecordExamResult(p)
    \/ Refuse(p)
    \/ AbortVictim(p)

Next ==
    \/ \E p \in Operators : Begin(p) \/ Lock(p) \/ Work(p)
    \/ DeleteExamResult
    \/ Tick

\* A transaction goes on, and the queue of a row lock is first come, first served.
Fairness == \A p \in Operators : WF_vars(Work(p)) /\ SF_vars(Lock(p) \/ Refuse(p))

Spec == Init /\ [][Next]_vars /\ Fairness

-----------------------------------------------------------------------------
(* Properties.                                                             *)

\* Nobody is active in two runs, however two joins, or a join and a transfer,
\* interleave: the check in addRunEnrollment reads before the other commits.
OneActiveRun ==
    \A e \in Employees : \A r, s \in Runs :
        enr[r][e].status = "active" /\ enr[s][e].status = "active" => r = s

\* A membership of a class is open exactly as long as an enrollment in one of
\* its runs uses it: leaving and transferring close both, and neither a second
\* run of the class nor a retry leaves a member without a run.
MembershipInUse ==
    \A c \in Cohorts, e \in Employees :
        ActiveMember(c, e)
          <=> \E r \in Runs : CohortOf[r] = c /\ enr[r][e].status = "active"

\* A run holds more active learners than its class has room for only after a
\* transfer was approved at a count as high (the two operations count
\* differently: enrollments of the run, memberships of the class).
CapacityApproved ==
    \A r \in Runs : \E n \in {Capacity[CohortOf[r]]} \cup override[CohortOf[r]] :
        Cardinality(ActiveIn(r)) <= n

\* The same for the members of a class.
ClassCapacityApproved ==
    \A c \in Cohorts : \E n \in {Capacity[c]} \cup override[c] :
        Cardinality(Members(c)) <= n

\* Records belong to sessions that took place, of learners who had joined by
\* then: no cancellation or move slips in while a roster is being saved.
EvidenceOfHeldSessions ==
    \A m \in Meetings : \A e \in Recorded(m) :
        /\ meeting[m].status = "completed" /\ meeting[m].at <= now
        /\ enr[meeting[m].run][e].status # "none"
        /\ enr[meeting[m].run][e].start <= meeting[m].number

\* A transfer leaves one chain: the source is closed for good and names one
\* target, whatever the other transfers of the learner did.
TransferChain ==
    \A e \in Employees : \A s \in Runs :
        enr[s][e].status = "transferred"
          <=> Cardinality({r \in Runs : enr[r][e].status # "none" /\ enr[r][e].from = s}) = 1

\* Who can become the victim of a deadlock: transfers, which lock two classes;
\* reschedules that take each other's starts, with new sessions between them;
\* and a roster save that meets a reschedule or a cancellation of its meeting.
\* A join, a leave or an exam result never does, whatever waits for it.
CollisionsAreKnown ==
    \A S \in SUBSET Operators : Cycle(S) =>
        \/ \A p \in S : op[p].req.kind = "transfer"
        \/ /\ \A p \in S : op[p].req.kind \in {"move", "create"}
           /\ \E p \in S : op[p].req.kind = "move"
        \/ \E p, q \in S :
             /\ S = {p, q}
             /\ op[p].req.kind = "save" /\ op[q].req.kind \in {"move", "cancel"}
             /\ op[p].req.meeting = op[q].req.meeting

\* No lost update: a roster is saved over the very records its operator saw.
SavedOverSeen ==
    [][\A p \in Operators :
         SaveAttendanceRoster(p) =>
           \A e \in Employees :
             att'[op[p].req.meeting][e] # att[op[p].req.meeting][e] =>
               e \in DOMAIN op[p].req.token.rows
                 /\ op[p].req.token.rows[e] = att[op[p].req.meeting][e]]_vars

\* An exam result is recorded only when the attendance meets the threshold.
ExamOnEvidence ==
    [][\A r \in Runs, e \in Employees :
         exam'[r][e] /\ ~ exam[r][e] => Eligible(r, e)]_vars

\* A learner takes part from the next session on: a session that is created is
\* one for every active learner of its run.
StartsAtTheNextSession ==
    [][\A m \in Meetings :
         meeting[m].status = "free" /\ meeting'[m].status = "planned" =>
           \A e \in ActiveIn(meeting'[m].run) :
             enr[meeting'[m].run][e].start <= meeting'[m].number]_vars

\* Every request ends: of those that wait for one another a victim is aborted.
RequestsEnd == \A p \in Operators : op[p] # Idle ~> op[p] = Idle
=============================================================================
