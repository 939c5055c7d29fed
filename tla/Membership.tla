----------------------------- MODULE Membership -----------------------------
(***************************************************************************)
(* Teams, their members and the enrollments that follow them: creating,     *)
(* editing, deleting and restoring a team, moving a learner to another     *)
(* team, the administrator's status override, deleting a user, and direct  *)
(* enrollment in a cohort.                                                 *)
(*                                                                         *)
(* The checks of a handler read the pool before its transaction begins.    *)
(* Every statement is a step on the committed rows (READ COMMITTED); what  *)
(* a transaction has written is kept apart in tx until its COMMIT, and a   *)
(* statement that meets a row another transaction has written waits. A     *)
(* DELETE or UPDATE of many rows fixes them when it starts and skips those *)
(* that are gone when it gets to them. No transaction reads what it wrote. *)
(*                                                                         *)
(* The rosters of the teams' sessions, which the same transactions change, *)
(* are the subject of Waitlist. Roles, prerequisites and the booking       *)
(* policies are left to refusals.                                          *)
(***************************************************************************)
EXTENDS Naturals, Sequences, FiniteSets

CONSTANTS Learners,    \* users
          Teams,       \* ids of teams
          Classes,     \* classes, the cohorts of direct enrollment
          None,        \* no class, no team, no leader
          Keep,        \* a field a request leaves out
          Cap,         \* capacity of a cohort
          Operators,   \* requests the server handles at a time
          Kinds,       \* operations the instance uses
          MaxRequests  \* bound on the requests ever begun

ASSUME MembershipAssumption ==
    /\ IsFiniteSet(Operators) /\ IsFiniteSet(Learners) /\ IsFiniteSet(Teams)
    /\ Cap \in Nat /\ MaxRequests \in Nat
    /\ None \notin Learners \cup Teams \cup Classes

VARIABLES team,     \* the teams rows
          member,   \* member[t]: the users of team t's team_members rows
          enr,      \* the enrollments in the order of their INSERTs' commits
          gone,     \* deleted users
          op,       \* op[p]: the request in slot p and what it has read
          tx,       \* tx[p]: what the transaction of p has written
          begun,    \* requests begun so far
          orderly   \* history: no two requests overlapped, none overrode or restored

rows == <<team, member, enr, gone>>
vars == <<rows, op, tx, begun, orderly>>

-----------------------------------------------------------------------------
(* Rows.                                                                   *)

Team == [state : {"absent", "live", "deleted"}, class : Classes \cup {None},
         leader : Learners \cup {None}]
Statuses == {"Active", "On-hold", "Completed", "Dropped", "Transferred"}
Enrollment == [who : Learners, class : Classes \cup {None}, team : Teams \cup {None},
               status : Statuses, to : Teams \cup {None}]

Live == {t \in Teams : team[t].state = "live"}
Active == {i \in DOMAIN enr : enr[i].status = "Active"}
Pairs == {pair \in Teams \X Learners : pair[2] \in member[pair[1]]}
ActiveIn(t) == {i \in Active : enr[i].team = t}
Direct(c) == {i \in Active : enr[i].team = None /\ enr[i].class = c}

\* Mutant: without the index of direct enrollments.
ClashInTeam(r, s) ==
    /\ r.status = "Active" /\ s.status = "Active"
    /\ r.who = s.who /\ r.team = s.team /\ r.team # None

\* The two unique indexes over Active rows.
Clash(r, s) ==
    /\ r.status = "Active" /\ s.status = "Active"
    /\ r.who = s.who /\ r.team = s.team
    /\ r.team = None => r.class = s.class

-----------------------------------------------------------------------------
(* Transactions.                                                           *)

Idle == [step |-> "idle"]
NoWrites == [team |-> None, set |-> <<>>, del |-> {}, ins |-> {}, end |-> <<>>, add |-> <<>>]

Others(p) == Operators \ {p}
TeamLocked(p, t) == \E q \in Others(p) : tx[q].team = t
PairsLocked(p, pairs) == \E q \in Others(p) : pairs \cap (tx[q].del \cup tx[q].ins) # {}
RowsLocked(p, ids) == \E q \in Others(p) : ids \cap DOMAIN tx[q].end # {}

\* An INSERT waits for a transaction whose outcome decides whether it clashes.
Pending(p, r) ==
    \E q \in Others(p) :
        \/ \E j \in DOMAIN tx[q].add : Clash(tx[q].add[j], r)
        \/ \E i \in DOMAIN tx[q].end : Clash(enr[i], r)

\* A row after the UPDATE of some of its columns.
Over(row, set) == [f \in DOMAIN row |-> IF f \in DOMAIN set THEN set[f] ELSE row[f]]

\* The rows a transaction has updated, and one more.
Put(end, i, set) == [j \in DOMAIN end \cup {i} |-> IF j = i THEN set ELSE end[j]]

\* Mutant: what comes after the enrollments was sent to another connection.
WithoutInserts(p) ==
    [i \in DOMAIN enr |-> IF i \in DOMAIN tx[p].end THEN Over(enr[i], tx[p].end[i]) ELSE enr[i]]

\* The enrollments as the transaction of p leaves them.
Written(p) ==
    [i \in DOMAIN enr |-> IF i \in DOMAIN tx[p].end THEN Over(enr[i], tx[p].end[i]) ELSE enr[i]]
    \o tx[p].add

Become(p, request) == op' = [op EXCEPT ![p] = request]
Write(p, writes) == tx' = [tx EXCEPT ![p] = writes]

Begin(p, kind) ==
    /\ kind \in Kinds
    /\ op[p] = Idle /\ begun < MaxRequests
    /\ begun' = begun + 1
    /\ orderly' = (/\ orderly
                   /\ kind \notin {"override", "restore"}
                   /\ \A q \in Operators : op[q] = Idle)

\* A read of the pool, or in a transaction.
Read(p, request) ==
    /\ Become(p, request)
    /\ UNCHANGED <<rows, tx>>

Continue == UNCHANGED <<begun, orderly>>

Init ==
    /\ team \in [Teams -> Team]
    /\ member \in [Teams -> SUBSET Learners]
    /\ \A t \in Teams :
         /\ team[t].state # "deleted"
         /\ t \notin Live => team[t].class = None /\ team[t].leader = None /\ member[t] = {}
         /\ team[t].leader \in member[t] \cup {None}
         /\ \A s \in Teams \ {t} :
              /\ member[t] \cap member[s] = {}
              /\ team[t].class = team[s].class => team[t].class = None
    /\ \E order \in [1 .. Cardinality(Pairs) -> Pairs] :
         /\ \A i, j \in DOMAIN order : order[i] = order[j] => i = j
         /\ enr = [i \in DOMAIN order |->
                     [who |-> order[i][2], class |-> team[order[i][1]].class,
                      team |-> order[i][1], status |-> "Active", to |-> None]]
    /\ gone = {}
    /\ op = [p \in Operators |-> Idle]
    /\ tx = [p \in Operators |-> NoWrites]
    /\ begun = 0
    /\ orderly = TRUE

\* A refusal, a failing statement, a deadlock's victim or the end of the process.
Fail(p) ==
    /\ op[p] # Idle
    /\ Become(p, Idle)
    /\ Write(p, NoWrites)
    /\ UNCHANGED rows /\ Continue

Commit(p) ==
    /\ \/ op[p].step = "commit"
       \/ op[p].step = "sync" /\ op[p].todo = {} /\ op[p].left = {}
    /\ team' = [t \in Teams |-> IF t = tx[p].team THEN Over(team[t], tx[p].set) ELSE team[t]]
    /\ member' = [t \in Teams |-> {x \in Learners :
                    \/ <<t, x>> \in tx[p].ins
                    \/ x \in member[t] /\ <<t, x>> \notin tx[p].del}]
    /\ enr' = Written(p)
    /\ gone' = gone
    /\ Become(p, Idle)
    /\ Write(p, NoWrites)
    /\ Continue

-----------------------------------------------------------------------------
(* Edits of a team, up to the transaction: "set" are the columns of the    *)
(* teams row to write, "members" the new list, "old" the list as read.     *)

Edit(step, t, set, force, members, old, class, asked) ==
    [step |-> step, team |-> t, set |-> set, force |-> force, members |-> members,
     old |-> old, class |-> class, asked |-> asked, todo |-> {}, left |-> {}]

\* The team a request edits.
Edited(q) ==
    LET edit == IF "then" \in DOMAIN q THEN q.then ELSE q IN
    IF "set" \in DOMAIN edit THEN edit.team ELSE None

FirstCheck(class, members) ==
    IF class \in Classes THEN "class" ELSE IF members # Keep THEN "conflict" ELSE "write"

CreateTeam(p) ==
    /\ Begin(p, "create")
    /\ \E t \in Teams, class \in Classes \cup {None}, leader \in Learners \cup {None},
          list \in SUBSET Learners, force \in BOOLEAN :
         /\ team[t].state = "absent"
         /\ \A q \in Operators : t # Edited(op[q])
         /\ force => class # None
         /\ LET members == list \cup ({leader} \ {None}) IN
              Read(p, Edit(FirstCheck(class, members), t,
                           [state |-> "live", class |-> class, leader |-> leader],
                           force, members, {}, class, 0))

UpdateTeam(p) ==
    /\ Begin(p, "update")
    /\ \E t \in Live, class \in Classes \cup {None, Keep}, leader \in Learners \cup {Keep},
          list \in {Keep} \cup (SUBSET Learners), force \in BOOLEAN :
         /\ force => class \in Classes
         /\ LET given == [class |-> class, leader |-> leader]
                set == [f \in {g \in {"class", "leader"} : given[g] # Keep} |-> given[f]]
                lead == {IF leader = Keep THEN team[t].leader ELSE leader} \ {None}
                members == IF list = Keep THEN Keep ELSE list \cup lead
            IN /\ DOMAIN set # {} \/ list # Keep
               /\ Read(p, Edit(FirstCheck(class, members), t, set, force, members, member[t],
                               IF class = Keep THEN team[t].class ELSE class, 0))

\* "1 team per class"
FindTeamByClass(p) ==
    LET q == op[p]
        holders == {s \in Live \ {q.team} : team[s].class = q.set["class"]}
        checked == [q EXCEPT !.step = FirstCheck(None, q.members)] IN
    /\ q.step = "class"
    /\ IF holders = {} THEN Read(p, checked)
       ELSE /\ q.force
            /\ \E s \in holders : Read(p, [step |-> "unassign", holder |-> s, then |-> checked])
    /\ Continue

\* The other team loses the class at once, outside the transaction.
UnassignTeamClass(p) ==
    /\ op[p].step = "unassign"
    /\ ~ TeamLocked(p, op[p].holder)
    /\ team' = [team EXCEPT ![op[p].holder].class = None]
    /\ Become(p, op[p].then)
    /\ UNCHANGED <<member, enr, gone, tx>> /\ Continue

\* "1 team per member"
CheckMemberConflicts(p) ==
    /\ op[p].step = "conflict"
    /\ \A s \in Live \ {op[p].team} : member[s] \cap op[p].members = {}
    /\ Read(p, [op[p] EXCEPT !.step = "write"])
    /\ Continue

TransferEnrollment(p) ==
    /\ Begin(p, "transfer")
    /\ \E i \in Active, t \in Live :
         LET x == enr[i].who IN
         /\ enr[i].team \in Live \ {t}
         /\ x \notin member[t]
         /\ Read(p, Edit("write", t, <<>>, FALSE, member[t] \cup {x}, member[t], team[t].class, i))

-----------------------------------------------------------------------------
(* updateTeamDoc, insertTeam.                                              *)

WriteTeamRow(p) ==
    LET q == op[p] IN
    /\ q.step = "write"
    /\ q.set # <<>> => ~ TeamLocked(p, q.team)
    /\ Write(p, IF q.set = <<>> THEN NoWrites
                ELSE [NoWrites EXCEPT !.team = q.team, !.set = q.set])
    /\ Become(p, [q EXCEPT !.step = IF q.members = Keep THEN "commit" ELSE "delete"])
    /\ UNCHANGED rows /\ Continue

\* The pairs a DELETE finds: of a team, or of a user.
Found(q) ==
    {pair \in Pairs : IF "user" \in DOMAIN q THEN pair[2] = q.user ELSE pair[1] = q.team}

StartDelete(p) ==
    /\ op[p].step = "delete"
    /\ Read(p, [step |-> "deleting", pairs |-> Found(op[p]), then |-> op[p]])
    /\ Continue

FinishDelete(p) ==
    LET q == op[p] IN
    /\ q.step = "deleting"
    /\ ~ PairsLocked(p, q.pairs)
    /\ Write(p, [tx[p] EXCEPT !.del = {pair \in q.pairs : pair[2] \in member[pair[1]]}])
    /\ Become(p, [q.then EXCEPT !.step = IF "user" \in DOMAIN q.then THEN "drop all" ELSE "insert"])
    /\ UNCHANGED rows /\ Continue

\* INSERT ... ON CONFLICT DO NOTHING: a row that is there already is not locked.
InsertMembers(p) ==
    LET q == op[p]
        pairs == {q.team} \X q.members IN
    /\ q.step = "insert"
    /\ ~ PairsLocked(p, pairs)
    /\ Write(p, [tx[p] EXCEPT !.ins =
                   {pair \in pairs : pair \in tx[p].del \/ pair[2] \notin member[q.team]}])
    /\ Become(p, [q EXCEPT !.step = "sync", !.todo = q.members \ q.old,
                           !.left = q.old \ q.members])
    /\ UNCHANGED rows /\ Continue

-----------------------------------------------------------------------------
(* syncEnrollments.                                                        *)

\* Mutant: only an enrollment in the target's class.
ActiveInClass(x, t) ==
    {i \in Active : enr[i].who = x /\ enr[i].team # t /\ enr[i].class = team[t].class}

\* One of these, whichever the statement returns first: IS DISTINCT FROM also
\* finds direct enrollments.
ActiveElsewhere(x, t) == {i \in Active : enr[i].who = x /\ enr[i].team # t}

FindSourceEnrollment(p) ==
    LET q == op[p] IN
    /\ q.step = "sync"
    /\ \E x \in q.todo :
         IF ActiveElsewhere(x, q.team) = {}
         THEN Read(p, [step |-> "seek", who |-> x, then |-> q])
         ELSE \E i \in ActiveElsewhere(x, q.team) :
                Read(p, [step |-> "close", who |-> x, id |-> i, from |-> enr[i].team, then |-> q])
    /\ Continue

\* The UPDATE names the row by its id.
CloseSource(p) ==
    LET q == op[p] IN
    /\ q.step = "close"
    /\ ~ RowsLocked(p, {q.id})
    /\ Write(p, [tx[p] EXCEPT !.end = Put(@, q.id, [status |-> "Transferred", to |-> q.then.team])])
    /\ Become(p, IF q.from = None THEN [step |-> "seek", who |-> q.who, then |-> q.then]
                 ELSE [q EXCEPT !.step = "pull"])
    /\ UNCHANGED rows /\ Continue

PullTeamMember(p) ==
    LET q == op[p]
        pair == <<q.from, q.who>> IN
    /\ q.step = "pull"
    /\ ~ PairsLocked(p, {pair})
    /\ Write(p, IF q.who \in member[q.from] THEN [tx[p] EXCEPT !.del = @ \cup {pair}] ELSE tx[p])
    /\ Become(p, [step |-> "seek", who |-> q.who, then |-> q.then])
    /\ UNCHANGED rows /\ Continue

\* Mutant: an enrollment that has ended counts as well.
EverIn(x, t) == {i \in DOMAIN enr : enr[i].who = x /\ enr[i].team = t}

EnrolledIn(x, t) == {i \in ActiveIn(t) : enr[i].who = x}

Done(q, x) == [q EXCEPT !.todo = @ \ {x}, !.left = @ \ {x}]

FindTargetEnrollment(p) ==
    LET q == op[p] IN
    /\ q.step = "seek"
    /\ Read(p, IF EnrolledIn(q.who, q.then.team) # {} THEN Done(q.then, q.who)
               ELSE [q EXCEPT !.step = "enroll"])
    /\ Continue

CreateActiveEnrollment(p) ==
    LET q == op[p]
        r == [who |-> q.who, class |-> q.then.class, team |-> q.then.team,
              status |-> "Active", to |-> None] IN
    /\ q.step = "enroll"
    /\ ~ Pending(p, r)
    /\ \A i \in DOMAIN enr : ~ Clash(enr[i], r)
    /\ Write(p, [tx[p] EXCEPT !.add = Append(@, r)])
    /\ Become(p, Done(q.then, q.who))
    /\ UNCHANGED rows /\ Continue

FindLeaver(p) ==
    LET q == op[p] IN
    /\ q.step = "sync" /\ q.todo = {}
    /\ \E x \in q.left :
         IF EnrolledIn(x, q.team) = {} THEN Read(p, Done(q, x))
         ELSE \E i \in EnrolledIn(x, q.team) :
                Read(p, [step |-> "drop", who |-> x, id |-> i, then |-> q])
    /\ Continue

DropEnrollment(p) ==
    LET q == op[p] IN
    /\ q.step = "drop"
    /\ ~ RowsLocked(p, {q.id})
    /\ Write(p, [tx[p] EXCEPT !.end = Put(@, q.id, [status |-> "Dropped"])])
    /\ Become(p, Done(q.then, q.who))
    /\ UNCHANGED rows /\ Continue

-----------------------------------------------------------------------------
(* Life cycle of teams and users.                                          *)

DeleteTeam(p) ==
    /\ Begin(p, "delete")
    /\ \E t \in Live : Read(p, [step |-> "drop all", team |-> t])

DeleteUser(p) ==
    /\ Begin(p, "leave")
    /\ \E x \in Learners \ gone :
         /\ \A t \in Live : team[t].leader # x
         /\ Read(p, [step |-> "delete", user |-> x])

\* closeActiveEnrollments, bulkDropActiveEnrollmentsByUser
StartDropAll(p) ==
    LET q == op[p] IN
    /\ q.step = "drop all"
    /\ Read(p, [step |-> "dropping", then |-> q,
                ids |-> IF "user" \in DOMAIN q THEN {i \in Active : enr[i].who = q.user}
                        ELSE ActiveIn(q.team)])
    /\ Continue

FinishDropAll(p) ==
    LET q == op[p] IN
    /\ q.step = "dropping"
    /\ ~ RowsLocked(p, q.ids)
    /\ Write(p, [tx[p] EXCEPT !.end = [i \in q.ids \cap Active |-> [status |-> "Dropped"]]])
    /\ Become(p, [q.then EXCEPT !.step = "mark"])
    /\ UNCHANGED rows /\ Continue

MarkTeamDeleted(p) ==
    LET q == op[p] IN
    /\ q.step = "mark" /\ "team" \in DOMAIN q
    /\ ~ TeamLocked(p, q.team)
    /\ Write(p, [tx[p] EXCEPT !.team = q.team, !.set = [state |-> "deleted"]])
    /\ Become(p, [q EXCEPT !.step = "commit"])
    /\ UNCHANGED rows /\ Continue

SoftDeleteUser(p) ==
    LET q == op[p] IN
    /\ q.step = "mark" /\ "user" \in DOMAIN q
    /\ gone' = gone \cup {q.user}
    /\ member' = [t \in Teams |-> {x \in member[t] : <<t, x>> \notin tx[p].del}]
    /\ enr' = Written(p)
    /\ Become(p, Idle)
    /\ Write(p, NoWrites)
    /\ UNCHANGED team /\ Continue

RestoreTeam(p) ==
    /\ Begin(p, "restore")
    /\ \E t \in Teams :
         /\ team[t].state = "deleted" /\ ~ TeamLocked(p, t)
         /\ team' = [team EXCEPT ![t].state = "live"]
    /\ UNCHANGED <<member, enr, gone, op, tx>>

RestoreUser(p) ==
    /\ Begin(p, "restore")
    /\ \E x \in gone : gone' = gone \ {x}
    /\ UNCHANGED <<team, member, enr, op, tx>>

-----------------------------------------------------------------------------
(* The administrator's override: one UPDATE of any rows and its COMMIT.    *)

Overridden(p, ids, status) ==
    /\ ids # {}
    /\ ~ RowsLocked(p, ids)
    /\ status = "Active" => \A i \in ids : ~ Pending(p, [enr[i] EXCEPT !.status = status])
    /\ enr' = [i \in DOMAIN enr |-> IF i \in ids THEN [enr[i] EXCEPT !.status = status] ELSE enr[i]]
    /\ \A i, j \in DOMAIN enr : Clash(enr'[i], enr'[j]) => i = j
    /\ UNCHANGED <<team, member, gone, op, tx>>

UpdateEnrollment(p) ==
    /\ Begin(p, "override")
    /\ \E i \in DOMAIN enr, status \in Statuses : Overridden(p, {i}, status)

BulkUpdateEnrollmentStatus(p) ==
    /\ Begin(p, "override")
    /\ \E ids \in SUBSET DOMAIN enr, status \in {"Active", "On-hold", "Dropped"} :
         Overridden(p, ids, status)

-----------------------------------------------------------------------------
(* Direct enrollment in a cohort, without transactions: "todo" are the     *)
(* learners still to enroll, "count" the enrollments counted.              *)

Enroll(p) ==
    /\ Begin(p, "enroll")
    /\ \E x \in Learners, c \in Classes :
         /\ \A i \in Direct(c) : enr[i].who # x
         /\ Read(p, [step |-> "count", who |-> x, class |-> c])

CountEnrollments(p) ==
    LET q == op[p] IN
    /\ q.step = "count"
    /\ Cardinality(Direct(q.class)) < Cap
    /\ Read(p, [step |-> "place", who |-> q.who, class |-> q.class, todo |-> {}, count |-> Cap])
    /\ Continue

BulkEnroll(p) ==
    /\ Begin(p, "bulk")
    /\ \E c \in Classes, learners \in SUBSET Learners \ {{}} :
         Read(p, [step |-> "each", class |-> c, todo |-> learners,
                  count |-> Cardinality(Direct(c))])

Admitted(n) == n + 1

NextLearner(p) ==
    LET q == op[p] IN
    /\ q.step = "each"
    /\ IF q.todo = {} \/ q.count >= Cap THEN Read(p, Idle)
       ELSE \E x \in q.todo :
              Read(p, IF \E i \in Direct(q.class) : enr[i].who = x
                      THEN [q EXCEPT !.todo = @ \ {x}]
                      ELSE [step |-> "place", who |-> x, class |-> q.class,
                            todo |-> q.todo \ {x}, count |-> q.count])
    /\ Continue

\* A lost race against the index is a refusal here, a skipped learner in a bulk.
InsertActiveEnrollment(p) ==
    LET q == op[p]
        r == [who |-> q.who, class |-> q.class, team |-> None, status |-> "Active", to |-> None]
        lost == \E i \in DOMAIN enr : Clash(enr[i], r) IN
    /\ q.step = "place"
    /\ ~ Pending(p, r)
    /\ enr' = IF lost THEN enr ELSE Append(enr, r)
    /\ Become(p, [step |-> "each", class |-> q.class, todo |-> q.todo,
                  count |-> IF lost THEN q.count ELSE Admitted(q.count)])
    /\ UNCHANGED <<team, member, gone, tx>> /\ Continue

Withdraw(p) ==
    /\ Begin(p, "withdraw")
    /\ \E i \in Active :
         /\ enr[i].team = None
         /\ Read(p, [step |-> "withdraw", id |-> i])

MarkDropped(p) ==
    LET q == op[p] IN
    /\ q.step = "withdraw"
    /\ ~ RowsLocked(p, {q.id})
    /\ enr' = [enr EXCEPT ![q.id].status = "Dropped"]
    /\ Become(p, Idle)
    /\ UNCHANGED <<team, member, gone, tx>> /\ Continue

-----------------------------------------------------------------------------
TeamStep(p) ==
    \/ CreateTeam(p) \/ UpdateTeam(p) \/ FindTeamByClass(p) \/ UnassignTeamClass(p)
    \/ CheckMemberConflicts(p) \/ TransferEnrollment(p)
    \/ WriteTeamRow(p) \/ StartDelete(p) \/ FinishDelete(p) \/ InsertMembers(p)
    \/ FindSourceEnrollment(p) \/ CloseSource(p) \/ PullTeamMember(p)
    \/ FindTargetEnrollment(p) \/ CreateActiveEnrollment(p)
    \/ FindLeaver(p) \/ DropEnrollment(p)
    \/ DeleteTeam(p) \/ DeleteUser(p) \/ StartDropAll(p) \/ FinishDropAll(p)
    \/ MarkTeamDeleted(p) \/ SoftDeleteUser(p) \/ RestoreTeam(p) \/ RestoreUser(p)
    \/ Commit(p)

CohortStep(p) ==
    \/ UpdateEnrollment(p) \/ BulkUpdateEnrollmentStatus(p)
    \/ Enroll(p) \/ CountEnrollments(p) \/ BulkEnroll(p) \/ NextLearner(p)
    \/ InsertActiveEnrollment(p) \/ Withdraw(p) \/ MarkDropped(p)

Next == \E p \in Operators : TeamStep(p) \/ CohortStep(p) \/ Fail(p)

Spec == Init /\ [][Next]_vars

-----------------------------------------------------------------------------
(* Properties.                                                             *)

TypeOK ==
    /\ team \in [Teams -> Team]
    /\ member \in [Teams -> SUBSET Learners]
    /\ enr \in Seq(Enrollment)
    /\ gone \subseteq Learners
    /\ begun \in 0 .. MaxRequests
    /\ orderly \in BOOLEAN

\* A learner is enrolled in a team, and directly in a cohort, at most once at a
\* time, whatever edits, transfers, overrides and enrollments overlap.
OneEnrollmentEach ==
    \A i, j \in Active :
        /\ enr[i].who = enr[j].who /\ enr[i].team = enr[j].team
        /\ enr[i].team # None \/ enr[i].class = enr[j].class
        => i = j

\* "no dual-membership half-state": in the step that ends an enrollment as
\* transferred, the learner becomes, or already is, a member of the other team.
TransferArrives ==
    [][\A i \in DOMAIN enr :
         enr[i].to = None /\ enr'[i].to # None =>
           \E j \in DOMAIN enr' : enr'[j].who = enr[i].who /\ enr'[j].team = enr'[i].to]_vars

\* When requests follow one another, the members of a live team are the learners
\* actively enrolled in it, and nobody is enrolled in a deleted one.
MembersAreEnrolled ==
    orderly => \A t \in Teams :
        {enr[i].who : i \in ActiveIn(t)} = IF t \in Live THEN member[t] ELSE {}

\* ... no learner is in two live teams, as long as none enrolled directly, and no
\* class has two of them.
OneTeamEach ==
    orderly => \A s, t \in Live : s # t =>
        /\ team[s].class = team[t].class => team[s].class = None
        /\ (\A i \in DOMAIN enr : enr[i].team # None) => member[s] \cap member[t] = {}

\* Requests that overlap leave a learner in one team.
OneTeamPerMember ==
    \A s, t \in Live : s # t => member[s] \cap member[t] = {}

\* "Source enrollment": the one the request names is closed by a transfer.
TransferLeavesSource ==
    [][\A p \in Operators :
         op[p].step = "sync" /\ op[p].asked # 0 /\ Commit(p) =>
           enr'[op[p].asked].status # "Active"]_vars

\* "wrapped in a single ... transaction": a class is taken from a team only by a
\* request that the check of the members, which comes later, lets pass.
SwapIsWhole ==
    [][\A p \in Operators :
         UnassignTeamClass(p) /\ op'[p].step = "conflict" =>
           \A s \in Live \ {op'[p].team} : member[s] \cap op'[p].members = {}]_vars
=============================================================================
