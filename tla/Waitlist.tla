------------------------------ MODULE Waitlist ------------------------------
(***************************************************************************)
(* The roster and the waitlist of one future session, as the interleaving  *)
(* of the SQL statements of every request that touches them: joining and   *)
(* leaving the queue, the transactions that free a seat and promote the    *)
(* oldest waiters, team edits, capacity edits, reassignment, cancellation. *)
(*                                                                         *)
(* READ COMMITTED, as in Booking: a transaction that has written the       *)
(* schedules row holds it (rowLock) and works on its own version of it     *)
(* (mine); the waitlist rows it has written (marked, gone) block other     *)
(* writers; all of it becomes visible at COMMIT.                           *)
(*                                                                         *)
(* The session starts in the future throughout, and its program has no     *)
(* maxParticipantsPerSession, so schedules.capacity is the effective cap.  *)
(***************************************************************************)
EXTENDS Naturals, FiniteSets

CONSTANTS Learners,    \* user ids
          Requests,    \* request slots of the server
          Handlers,    \* Handlers[r]: the operations request slot r serves
          MaxEntries,  \* bound on the waitlist rows ever created
          InitCap,     \* capacity of the session when it is created
          InitRosters, \* the learners it is created with
          Caps,        \* capacities an admin's edit may write
          Outs, Adds,  \* member sets a team edit may remove and add
          InitMembers, \* the (Active) members of each team
          Keep, Null

\* The session's team and the team a reassignment names.
Teams == {0, 1}

\* "reassign" marks a slot whose edits may also name another team.
Operations == {"join", "leave", "drop", "pull", "team", "edit", "reassign", "cancel"}

ASSUME WaitlistAssumption ==
    /\ IsFiniteSet(Learners)
    /\ Handlers \in [Requests -> SUBSET Operations]
    /\ MaxEntries \in Nat
    /\ InitCap \in Nat
    /\ Caps \subseteq Nat
    /\ InitRosters \subseteq SUBSET Learners
    /\ \A R \in InitRosters : Cardinality(R) <= InitCap
    /\ Outs \subseteq SUBSET Learners
    /\ Adds \subseteq SUBSET Learners
    /\ InitMembers \in [Teams -> SUBSET Learners]
    /\ Null \notin Learners \cup Requests
    /\ Keep \notin Nat

VARIABLES session,   \* the schedules row: status, roster, cap and team
          entries,   \* the waitlist_entries rows, numbered in created_at order
          members,   \* members[t]: the members of team t
          rowLock,   \* request that holds the uncommitted schedules row
          teamLock,  \* teamLock[t]: request that holds t's membership rows
          log,       \* users with a waitlist_promoted notification row
          told,      \* entries whose promotion email was sent
          req        \* each request's progress and local state

vars == <<session, entries, members, rowLock, teamLock, log, told, req>>

-----------------------------------------------------------------------------
(* Rows. enrolled_users is an array: <<l, k>> is the k-th occurrence of    *)
(* learner l in it. Its order plays no part.                               *)

Entries == 1 .. MaxEntries

Roster == {R \in SUBSET (Learners \X Nat) : IsFiniteSet(R)}

Session == [status : {"scheduled", "cancelled", "deleted"},
            roster : Roster, cap : Nat, team : Teams]

Entry == [status : {"none", "waiting", "promoted", "withdrawn", "cancelled", "erased"},
          user : Learners \cup {Null}, team : Teams]

NoEntry == [status |-> "none", user |-> Null, team |-> 0]

Users(R) == {x[1] : x \in R}

AsRoster(U) == U \X {1}

\* array_append, applyRosterDelta's "||".
Appended(R, l) == R \cup {<<l, Cardinality({x \in R : x[1] = l}) + 1>>}

AppendedAll(R, U) == R \cup {<<l, Cardinality({x \in R : x[1] = l}) + 1>> : l \in U}

Without(R, U) == {x \in R : x[1] \notin U}

Waiting(e) == entries[e].status = "waiting"

WaitingOf(l) == {e \in Entries : Waiting(e) /\ entries[e].user = l}

\* The least element of a non-empty set of entries: ORDER BY created_at, id.
Oldest(S) == CHOOSE e \in S : \A f \in S : e <= f

-----------------------------------------------------------------------------
(* Requests.                                                               *)

PCs == {"idle", "createEntry", "delta", "update", "promote", "seat", "commit",
        "dissolve", "flip", "notify"}

\* out, add: what a roster delta removes and adds; cap, reassign: an edit body;
\* mine: the request's own version of the row; free, queue, saw: the promotion
\* scan; marked, seated, gone: entries it promoted, seated, cancelled.
Request == [pc : PCs, op : Operations \cup {Null}, learner : Learners \cup {Null},
            team : Teams, out : SUBSET Learners, add : SUBSET Learners,
            members : SUBSET Learners, cap : Caps \cup {Keep}, reassign : BOOLEAN,
            mine : Session, free : Nat,
            queue : SUBSET Entries, saw : SUBSET Entries, marked : SUBSET Entries,
            seated : SUBSET Entries, gone : SUBSET Entries]

NoSession == [status |-> "deleted", roster |-> {}, cap |-> 0, team |-> 0]

Idle == [pc |-> "idle", op |-> Null, learner |-> Null, team |-> 0, out |-> {},
         add |-> {}, members |-> {}, cap |-> Keep, reassign |-> FALSE,
         mine |-> NoSession, free |-> 0, queue |-> {}, saw |-> {},
         marked |-> {}, seated |-> {}, gone |-> {}]

TypeOK ==
    /\ session \in Session
    /\ entries \in [Entries -> Entry]
    /\ members \in [Teams -> SUBSET Learners]
    /\ rowLock \in Requests \cup {Null}
    /\ teamLock \in [Teams -> Requests \cup {Null}]
    /\ log \subseteq Learners
    /\ told \subseteq Entries
    /\ req \in [Requests -> Request]

Init ==
    /\ \E R \in InitRosters :
          session = [status |-> "scheduled", roster |-> AsRoster(R),
                     cap |-> InitCap, team |-> 0]
    /\ entries = [e \in Entries |-> NoEntry]
    /\ members = InitMembers
    /\ rowLock = Null
    /\ teamLock = [t \in Teams |-> Null]
    /\ log = {}
    /\ told = {}
    /\ req = [r \in Requests |-> Idle]

At(r, label) == req[r].pc = label

Local(r, local) ==
    /\ req' = [req EXCEPT ![r] = local]
    /\ UNCHANGED <<session, entries, members, rowLock, teamLock, log, told>>

Goto(r, label) == Local(r, [req[r] EXCEPT !.pc = label])

ReleaseLocks(r) ==
    /\ rowLock' = IF rowLock = r THEN Null ELSE rowLock
    /\ teamLock' = [t \in Teams |-> IF teamLock[t] = r THEN Null ELSE teamLock[t]]

\* ROLLBACK, or the end of a request that wrote nothing.
Rollback(r) ==
    /\ ReleaseLocks(r)
    /\ req' = [req EXCEPT ![r] = Idle]
    /\ UNCHANGED <<session, entries, members, log, told>>

\* A statement fails, a deadlock is broken, or the process dies: before COMMIT
\* everything is undone, after it the notifications still due are lost.
Fail(r) == ~At(r, "idle") /\ Rollback(r)

\* A row of the queue that another transaction has written and not committed.
HeldByOthers(r) == UNION {req[q].marked \cup req[q].gone : q \in Requests \ {r}}

Begin(r, op) == At(r, "idle") /\ op \in Handlers[r]

-----------------------------------------------------------------------------
(* Joining and leaving the queue (waitlist/use-cases.js).                  *)

\* canJoinSession and isSessionAudience on rows read without a transaction.
MayJoin(l) ==
    /\ session.status = "scheduled"
    /\ l \in members[session.team]
    /\ l \notin Users(session.roster)
    /\ Cardinality(session.roster) >= session.cap
    /\ WaitingOf(l) = {}

Join(r) ==
    /\ Begin(r, "join")
    /\ \E l \in Learners :
          /\ MayJoin(l)
          /\ Local(r, [Idle EXCEPT !.pc = "createEntry", !.op = "join",
                                   !.learner = l, !.team = session.team])

\* The INSERT: its foreign key needs the session, uq_waitlist_live refuses a
\* second live entry, after waiting for a transaction that holds the first.
CreateEntry(r) ==
    LET l == req[r].learner
        unborn == {e \in Entries : entries[e].status = "none"}
    IN
    /\ At(r, "createEntry")
    /\ WaitingOf(l) \cap HeldByOthers(r) = {}
    /\ IF session.status = "deleted" \/ WaitingOf(l) # {}
       THEN Rollback(r)
       ELSE /\ unborn # {}
            /\ entries' = [entries EXCEPT ![Oldest(unborn)] =
                             [status |-> "waiting", user |-> l, team |-> req[r].team]]
            /\ req' = [req EXCEPT ![r] = Idle]
            /\ UNCHANGED <<session, members, rowLock, teamLock, log, told>>

\* withdrawMyEntry: one conditional UPDATE, waiting -> withdrawn.
Leave(r) ==
    /\ Begin(r, "leave")
    /\ \E e \in Entries \ HeldByOthers(r) :
          /\ Waiting(e)
          /\ entries' = [entries EXCEPT ![e].status = "withdrawn"]
          /\ UNCHANGED <<session, members, rowLock, teamLock, log, told, req>>

-----------------------------------------------------------------------------
(* Freeing seats (roster-sync.js, use-cases.js updateSchedule).            *)

\* releaseUserFromFutureSchedules: a user is Dropped.
ReleaseUser(r) ==
    /\ Begin(r, "drop")
    /\ session.status = "scheduled"
    /\ \E l \in Users(session.roster) :
          Local(r, [Idle EXCEPT !.pc = "delta", !.op = "drop", !.out = {l}])

\* pullUsersFromFutureSchedules: one UPDATE, and no promotion.
PullUser(r) ==
    /\ Begin(r, "pull")
    /\ rowLock = Null
    /\ session.status = "scheduled"
    /\ \E l \in Users(session.roster) :
          session' = [session EXCEPT !.roster = Without(@, {l})]
    /\ UNCHANGED <<entries, members, rowLock, teamLock, log, told, req>>

\* checkMemberConflicts: nobody is added who is in a team. updateTeamDoc holds
\* the membership rows; syncTeamRoster then reads the team's session and refuses
\* an add that its roster has no room for.
SyncTeamRoster(r) ==
    /\ Begin(r, "team")
    /\ \E t \in Teams, U \in Outs, W \in Adds :
          LET enrolled == Users(session.roster)
              ours == session.status = "scheduled" /\ session.team = t
              toRemove == IF ours THEN U \cap enrolled ELSE {}
              toAdd == IF ours THEN W \ enrolled ELSE {}
              left == (enrolled \ toRemove) \cup toAdd
          IN
          /\ teamLock[t] = Null
          /\ U \subseteq members[t]
          /\ W \cap UNION {members[u] : u \in Teams} = {}
          /\ U \cup W # {}
          /\ toAdd = {} \/ Cardinality(left) <= session.cap
          /\ teamLock' = [teamLock EXCEPT ![t] = r]
          /\ req' = [req EXCEPT ![r] =
                       [Idle EXCEPT !.pc = IF toRemove \cup toAdd = {} THEN "commit"
                                           ELSE "delta",
                                    !.op = "team", !.team = t,
                                    !.out = toRemove, !.add = toAdd,
                                    !.members = (members[t] \ U) \cup W]]
    /\ UNCHANGED <<session, entries, members, rowLock, log, told>>

\* applyRosterDelta: UPDATE ... WHERE id, on the row as it is by then.
ApplyRosterDelta(r) ==
    LET q == req[r]
        delta == AppendedAll(Without(session.roster, q.out), q.add)
    IN
    /\ At(r, "delta")
    /\ rowLock = Null
    /\ IF session.status = "deleted"
       THEN Goto(r, "commit")
       ELSE /\ rowLock' = r
            /\ req' = [req EXCEPT ![r] =
                         [q EXCEPT !.pc = IF q.out = {} THEN "commit" ELSE "promote",
                                   !.mine = [session EXCEPT !.roster = delta]]]
            /\ UNCHANGED <<session, entries, members, teamLock, log, told>>

\* Mutant: the roster is never compared with the capacity written.
EditFitsAlways(c, R) == TRUE

\* The capacity guard of an edit: the roster it leaves fits the capacity it leaves.
EditFits(c, R) == Cardinality(R) <= c

\* updateSchedule reads the row before its transaction; its capacity guard
\* compares the final roster and capacity as of that read.
EditSession(r) ==
    /\ Begin(r, "edit")
    /\ session.status = "scheduled"
    /\ \E c \in Caps \cup {Keep}, reassign \in BOOLEAN :
          /\ c # Keep \/ reassign
          /\ reassign => session.team # 1 /\ "reassign" \in Handlers[r]
          /\ EditFits(IF c = Keep THEN session.cap ELSE c,
                      IF reassign THEN AsRoster(members[1]) ELSE session.roster)
          /\ Local(r, [Idle EXCEPT !.pc = "update", !.op = "edit",
                                   !.cap = c, !.reassign = reassign,
                                   !.members = members[1]])

Capped(r) == IF req[r].cap = Keep THEN session ELSE [session EXCEPT !.cap = req[r].cap]

\* updateScheduleById: the capacity, and the roster and team of a reassignment.
UpdateSession(r) ==
    LET q == req[r] IN
    /\ At(r, "update")
    /\ rowLock = Null
    /\ IF session.status = "deleted"
       THEN Rollback(r)
       ELSE /\ rowLock' = r
            /\ req' = [req EXCEPT ![r] =
                         [q EXCEPT !.pc = IF q.reassign THEN "dissolve" ELSE "promote",
                                   !.mine = IF q.reassign
                                            THEN [Capped(r) EXCEPT
                                                    !.roster = AsRoster(q.members),
                                                    !.team = 1]
                                            ELSE Capped(r)]]
            /\ UNCHANGED <<session, entries, members, teamLock, log, told>>

-----------------------------------------------------------------------------
(* promoteIfSeatFree, inside the transaction that freed the seat.          *)

\* The row is read in the transaction, then the whole waiting queue.
PromoteIfSeatFree(r) ==
    LET m == req[r].mine
        taken == Cardinality(Users(m.roster))
        waiting == {e \in Entries : Waiting(e)} \ req[r].gone
    IN
    /\ At(r, "promote")
    /\ IF m.status # "scheduled" \/ m.cap <= taken
       THEN Goto(r, "commit")
       ELSE Local(r, [req[r] EXCEPT !.pc = "seat", !.free = m.cap - taken,
                                    !.queue = waiting, !.saw = waiting])

\* Mutant: the newest waiter is served first.
NewestWaiter(r) == CHOOSE e \in req[r].queue : \A f \in req[r].queue : f <= e

NextWaiter(r) == Oldest(req[r].queue)

AlreadySeated(r, e) == entries[e].user \in Users(req[r].mine.roster)

\* Mutant: the scan stops at a waiter who already has a seat.
StaleHeadStops(r, e) == [req[r] EXCEPT !.queue = {}]

\* An entry whose user is already seated is resolved without using a seat.
StaleHead(r, e) == [req[r] EXCEPT !.queue = @ \ {e}, !.marked = @ \cup {e}]

\* seatWaiterIfRoom's guard on the array itself.
SeatsIfRoom(m) == Cardinality(m.roster) < m.cap

SeatWaiter(r, e) ==
    [req[r] EXCEPT !.mine.roster = Appended(@, entries[e].user), !.free = @ - 1,
                   !.queue = @ \ {e}, !.marked = @ \cup {e}, !.seated = @ \cup {e}]

\* The refusal of the guarded UPDATE: no further seat exists.
NoMoreSeats(r) == [req[r] EXCEPT !.queue = {}]

ScanEnds(r) == req[r].queue = {} \/ req[r].free = 0

\* One turn of the loop. markEntryPromoted updates by id alone, after waiting
\* for a transaction that holds the entry.
SeatNext(r) ==
    LET m == req[r].mine
        e == NextWaiter(r)
    IN
    /\ At(r, "seat")
    /\ ~ScanEnds(r)
    /\ e \notin HeldByOthers(r)
    /\ Local(r, IF AlreadySeated(r, e) THEN StaleHead(r, e)
                ELSE IF SeatsIfRoom(m) THEN SeatWaiter(r, e)
                ELSE NoMoreSeats(r))

\* Mutant: the learners are told when they are seated, before the commit.
EndScanTelling(r) ==
    /\ At(r, "seat")
    /\ ScanEnds(r)
    /\ req' = [req EXCEPT ![r].pc = "commit"]
    /\ told' = told \cup req[r].seated
    /\ UNCHANGED <<session, entries, members, rowLock, teamLock, log>>

\* The belt: a roster above the cap aborts the transaction.
EndScan(r) ==
    /\ At(r, "seat")
    /\ ScanEnds(r)
    /\ IF Cardinality(req[r].mine.roster) > req[r].mine.cap
       THEN Rollback(r)
       ELSE Goto(r, "commit")

\* What promoteAndSweep deletes: a session its removal left with an empty roster.
Sweeps(r) ==
    /\ req[r].op \in {"drop", "team"}
    /\ req[r].out # {}
    /\ rowLock = r
    /\ req[r].mine.roster = {}

Resolved(r) ==
    [e \in Entries |->
        IF e \in req[r].marked THEN [entries[e] EXCEPT !.status = "promoted"]
        ELSE IF e \in req[r].gone THEN [entries[e] EXCEPT !.status = "cancelled"]
        ELSE entries[e]]

\* The hard DELETE takes the waitlist rows with it (ON DELETE CASCADE).
Erased ==
    [e \in Entries |-> IF entries[e].status = "none" THEN entries[e]
                       ELSE [entries[e] EXCEPT !.status = "erased"]]

Commit(r) ==
    /\ At(r, "commit")
    /\ IF Sweeps(r)
       THEN /\ HeldByOthers(r) = {}
            /\ session' = [session EXCEPT !.status = "deleted", !.roster = {}]
            /\ entries' = Erased
       ELSE /\ session' = IF rowLock = r THEN req[r].mine ELSE session
            /\ entries' = Resolved(r)
    /\ members' = IF req[r].op = "team"
                  THEN [members EXCEPT ![req[r].team] = req[r].members]
                  ELSE members
    /\ ReleaseLocks(r)
    /\ req' = [req EXCEPT ![r] =
                 IF req[r].seated = {} THEN Idle
                 ELSE [Idle EXCEPT !.pc = "notify", !.op = req[r].op,
                                   !.seated = req[r].seated]]
    /\ UNCHANGED <<log, told>>

\* notifyPromotions, one promotion per step: the log row first, then the email;
\* a duplicate log row means "already notified". A deleted session ends it.
NotifyPromotion(r) ==
    LET e == Oldest(req[r].seated)
        rest == req[r].seated \ {e}
        known == session.status # "deleted"
        fresh == known /\ entries[e].user \notin log
    IN
    /\ At(r, "notify")
    /\ log' = IF fresh THEN log \cup {entries[e].user} ELSE log
    /\ told' = IF fresh THEN told \cup {e} ELSE told
    /\ req' = [req EXCEPT ![r] = IF rest = {} \/ ~known THEN Idle
                                 ELSE [req[r] EXCEPT !.seated = rest]]
    /\ UNCHANGED <<session, entries, members, rowLock, teamLock>>

-----------------------------------------------------------------------------
(* Cancelling (cancelSlot, deleteSchedule) and dissolving the queue.       *)

CancelSession(r) ==
    /\ Begin(r, "cancel")
    /\ session.status = "scheduled"
    /\ Local(r, [Idle EXCEPT !.pc = "dissolve", !.op = "cancel"])

\* cancelWaitingEntries: the rows that wait when the statement runs.
Dissolved(r) == {e \in Entries : Waiting(e)}

DissolveWaitlist(r) ==
    /\ At(r, "dissolve")
    /\ Dissolved(r) \cap HeldByOthers(r) = {}
    /\ Local(r, [req[r] EXCEPT !.gone = Dissolved(r),
                               !.pc = IF req[r].op = "cancel" THEN "flip"
                                      ELSE IF req[r].cap = Keep THEN "commit"
                                      ELSE "promote"])

\* cancelScheduleById flips a scheduled row, and COMMIT.
CancelFlip(r) ==
    /\ At(r, "flip")
    /\ rowLock = Null
    /\ IF session.status # "scheduled"
       THEN Rollback(r)
       ELSE /\ session' = [session EXCEPT !.status = "cancelled"]
            /\ entries' = Resolved(r)
            /\ req' = [req EXCEPT ![r] = Idle]
            /\ UNCHANGED <<members, rowLock, teamLock, log, told>>

-----------------------------------------------------------------------------
Step(r) ==
    \/ Join(r) \/ CreateEntry(r) \/ Leave(r)
    \/ ReleaseUser(r) \/ PullUser(r) \/ SyncTeamRoster(r) \/ ApplyRosterDelta(r)
    \/ EditSession(r) \/ UpdateSession(r)
    \/ PromoteIfSeatFree(r) \/ SeatNext(r) \/ EndScan(r) \/ Commit(r)
    \/ NotifyPromotion(r)
    \/ CancelSession(r) \/ DissolveWaitlist(r) \/ CancelFlip(r)
    \/ Fail(r)

Next == \E r \in Requests : Step(r)

Spec == Init /\ [][Next]_vars

-----------------------------------------------------------------------------
(* Properties.                                                             *)

Enrolled(S) == Cardinality(S.roster)

\* The roster never exceeds the capacity: whoever frees seats, promotes or
\* edits concurrently, the guards of promotion.js, roster-sync.js and
\* updateSchedule hold on the committed row.
RosterWithinCap == session.status = "scheduled" => Enrolled(session) <= session.cap

\* No learner is on the roster twice, although applyRosterDelta and
\* seatWaiterIfRoom append to an array.
RosterHasNoDuplicates == session.roster \subseteq AsRoster(Learners)

Promoted(e) == entries[e].status # "promoted" /\ entries'[e].status = "promoted"

\* First in, first out: nobody is promoted past an older entry that still waits
\* (promoteIfSeatFree), also when two promotions work on one queue.
FirstInFirstOut ==
    [][\A e, f \in Entries :
          e < f /\ Promoted(f) => entries'[e].status # "waiting"]_vars

\* A promotion that read a queue leaves none of it unserved while a seat is
\* free: a stale head never blocks those behind it.
SeatsAreFilled ==
    \A r \in Requests :
        At(r, "commit") /\ req[r].saw \ req[r].marked # {}
        => Enrolled(req[r].mine) >= req[r].mine.cap

\* A learner is emailed only about a promotion that was committed
\* (notifyPromotions runs after the transaction).
ToldOnceSeated ==
    \A e \in told : entries[e].status \in {"promoted", "erased"}

\* A cancelled session has no waiting entry left (dissolveWaitlist).
CancelledHasNoWaiters ==
    session.status = "cancelled" => \A e \in Entries : ~Waiting(e)

\* A learner waits only for a session that has no free seat: join refuses when
\* there is one, and whoever frees one promotes.
WaitersOnlyWhenFull ==
    (session.status = "scheduled" /\ \E e \in Entries : Waiting(e))
    => Enrolled(session) >= session.cap

\* What is promoted is an entry that was waiting until then, although
\* markEntryPromoted updates by id.
OnlyWaitersPromoted ==
    [][\A e \in Entries : Promoted(e) => Waiting(e)]_vars

\* No entry of an earlier team's queue is promoted into the session: a
\* reassignment dissolves that queue (updateSchedule).
OldTeamNotPromoted ==
    [][\A e \in Entries : Promoted(e) => entries[e].team = session'.team]_vars

\* A cancelled session's row is kept, whatever promoteAndSweep deletes.
CancelledIsKept == [][session.status = "cancelled" => session'.status = "cancelled"]_vars

\* A promotion about to be announced has not used up its learner's one log row:
\* otherwise notifyPromotions tells nobody of the seat.
PromotionIsAnnounced ==
    \A r \in Requests :
        At(r, "notify") => entries[Oldest(req[r].seated)].user \notin log
=============================================================================
