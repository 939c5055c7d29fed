---------------------------- MODULE WaitlistProofs ----------------------------
(***************************************************************************)
(* For any learners, requests, capacities and interleaving: a promotion    *)
(* serves the queue in order and skips nobody while a seat is free, no     *)
(* learner is told of a seat that was not committed, and the roster keeps  *)
(* to its capacity when nobody adds to the team or lowers the capacity.    *)
(***************************************************************************)
EXTENDS Waitlist, FiniteSetTheorems, TLAPS

-----------------------------------------------------------------------------
(* Rosters.                                                                *)

\* A finite set's image under a function is finite and no larger.
LEMMA ImageIsSmaller ==
    ASSUME NEW f, IsFiniteSet(DOMAIN f)
    PROVE  LET T == {f[x] : x \in DOMAIN f}
           IN  IsFiniteSet(T) /\ Cardinality(T) <= Cardinality(DOMAIN f)
<1> DEFINE T == {f[x] : x \in DOMAIN f}
           g == [x \in DOMAIN f |-> f[x]]
<1>1. g \in Surjection(DOMAIN f, T)
  BY DEF Surjection
<1> QED BY <1>1, FS_Surjection

\* A roster has no fewer occurrences than learners.
LEMMA UsersOfRoster ==
    ASSUME NEW R \in Roster
    PROVE  /\ IsFiniteSet(R) /\ Cardinality(R) \in Nat
           /\ IsFiniteSet(Users(R)) /\ Cardinality(Users(R)) \in Nat
           /\ Cardinality(Users(R)) <= Cardinality(R)
           /\ Users(R) \subseteq Learners
<1> DEFINE f == [x \in R |-> x[1]]
<1>1. IsFiniteSet(R) /\ DOMAIN f = R /\ R \subseteq Learners \X Nat
  BY DEF Roster
<1>2. Users(R) = {f[x] : x \in DOMAIN f}
  BY DEF Users
<1> HIDE DEF f
<1>3. IsFiniteSet(Users(R)) /\ Cardinality(Users(R)) <= Cardinality(R)
  BY <1>1, <1>2, ImageIsSmaller
<1> QED BY <1>1, <1>3, FS_CardinalityType DEF Users

\* A team as a roster: each member once.
LEMMA TeamAsRoster ==
    ASSUME NEW U \in SUBSET Learners
    PROVE  AsRoster(U) \in Roster
<1>1. IsFiniteSet(U) /\ IsFiniteSet({1})
  BY WaitlistAssumption, FS_Subset, FS_Singleton
<1>2. IsFiniteSet(U \X {1})
  BY <1>1, FS_Product
<1> QED BY <1>2 DEF AsRoster, Roster

\* Removing learners leaves no more.
LEMMA RosterWithout ==
    ASSUME NEW R \in Roster, NEW U
    PROVE  Without(R, U) \in Roster /\ Cardinality(Without(R, U)) <= Cardinality(R)
<1>1. Without(R, U) \in SUBSET R
  BY DEF Without
<1> QED BY <1>1, FS_Subset DEF Roster

\* Appending an occurrence of a learner who has no seat adds one to both counts.
LEMMA RosterAppended ==
    ASSUME NEW R \in Roster, NEW l \in Learners
    PROVE  /\ Appended(R, l) \in Roster
           /\ Cardinality(Appended(R, l)) <= Cardinality(R) + 1
           /\ Users(Appended(R, l)) = Users(R) \cup {l}
           /\ l \notin Users(R) =>
                 Cardinality(Users(Appended(R, l))) = Cardinality(Users(R)) + 1
<1> DEFINE S == {x \in R : x[1] = l}
           n == Cardinality(S) + 1
<1>1. IsFiniteSet(R) /\ Cardinality(R) \in Nat /\ R \subseteq Learners \X Nat
  BY UsersOfRoster DEF Roster
<1>2. Cardinality(S) \in Nat
  BY <1>1, FS_Subset, FS_CardinalityType
<1>3. n \in Nat /\ Appended(R, l) = R \cup {<<l, n>>}
  BY <1>2 DEF Appended
<1> HIDE DEF n
<1>4. IsFiniteSet(R \cup {<<l, n>>}) /\ Cardinality(R \cup {<<l, n>>}) <= Cardinality(R) + 1
  <2> DEFINE x == <<l, n>>
  <2> HIDE DEF x
  <2>0. Cardinality(R \cup {x}) = IF x \in R THEN Cardinality(R) ELSE Cardinality(R) + 1
    BY <1>1, FS_AddElement
  <2>1. IsFiniteSet(R \cup {x}) /\ Cardinality(R \cup {x}) <= Cardinality(R) + 1
    BY <1>1, <2>0, FS_AddElement
  <2> QED BY <2>1 DEF x
<1>5. Appended(R, l) \in Roster
  BY <1>1, <1>3, <1>4 DEF Roster
<1>6. Users(Appended(R, l)) = Users(R) \cup {l}
  <2>1. <<l, n>>[1] = l
    OBVIOUS
  <2> QED BY <1>3, <2>1 DEF Users
<1> QED BY <1>3, <1>4, <1>5, <1>6, UsersOfRoster, FS_AddElement

\* Appending an occurrence of several learners.
LEMMA RosterAppendedAll ==
    ASSUME NEW R \in Roster, NEW U \in SUBSET Learners
    PROVE  AppendedAll(R, U) \in Roster /\ (U = {} => AppendedAll(R, U) = R)
<1> DEFINE Number(l) == Cardinality({x \in R : x[1] = l}) + 1
           f == [l \in U |-> <<l, Number(l)>>]
           New == {f[l] : l \in DOMAIN f}
<1>1. IsFiniteSet(R) /\ R \subseteq Learners \X Nat /\ IsFiniteSet(U)
  BY WaitlistAssumption, FS_Subset DEF Roster
<1>2. \A l \in U : Number(l) \in Nat
  <2> TAKE l \in U
  <2>1. {x \in R : x[1] = l} \in SUBSET R
    OBVIOUS
  <2>2. Cardinality({x \in R : x[1] = l}) \in Nat
    BY <1>1, <2>1, FS_Subset, FS_CardinalityType
  <2> QED BY <2>2
<1>3. AppendedAll(R, U) = R \cup New
  BY DEF AppendedAll
<1> HIDE DEF Number
<1>4. DOMAIN f = U
  OBVIOUS
<1>5. IsFiniteSet(New)
  <2> HIDE DEF f
  <2> QED BY <1>1, <1>4, ImageIsSmaller
<1>6. New \subseteq Learners \X Nat
  BY <1>2
<1>7. IsFiniteSet(R \cup New)
  BY <1>1, <1>5, FS_Union
<1> QED BY <1>1, <1>3, <1>6, <1>7 DEF Roster, AppendedAll

-----------------------------------------------------------------------------
(* Types.                                                                  *)

\* Entries are natural numbers, so that a set of them has an oldest one.
LEMMA OldestIs ==
    ASSUME NEW S \in SUBSET Entries, S # {}
    PROVE  Oldest(S) \in S /\ \A f \in S : Oldest(S) <= f
<1>1. Entries \subseteq Nat
  BY DEF Entries
<1>2. IsFiniteSet(Entries)
  BY WaitlistAssumption, FS_Interval DEF Entries
<1> DEFINE UpTo(x) == {f \in S : f <= x}
           R       == StrictSubsetOrdering(Entries)
           T       == {UpTo(x) : x \in S}
<1>3. IsWellFoundedOn(R, SUBSET Entries)
  BY <1>2, FS_StrictSubsetOrderingWellFounded, FS_FiniteSubsetsOfFinite
<1>4. T \subseteq SUBSET Entries /\ T # {}
  OBVIOUS
<1>5. \E u \in T : \A v \in T : <<v, u>> \notin R
  <2> HIDE DEF R, T
  <2> QED BY <1>3, <1>4, WFMin
<1>6. PICK x \in S : \A f \in S : <<UpTo(f), UpTo(x)>> \notin R
  BY <1>5
<1>7. ASSUME NEW f \in S, ~(x <= f) PROVE FALSE
  <2>1. f < x /\ f \in Nat /\ x \in Nat
    BY <1>1, <1>7
  <2>2. UpTo(f) \subseteq UpTo(x) /\ x \in UpTo(x) /\ x \notin UpTo(f)
    <3>1. \A y \in S : y \in Nat
      BY <1>1
    <3>2. \A y \in S : y <= f => y <= x
      BY <2>1, <3>1
    <3>3. x <= x /\ ~(x <= f)
      BY <2>1
    <3> QED BY <3>2, <3>3
  <2>3. UpTo(f) \in SUBSET Entries /\ UpTo(x) \in SUBSET Entries
    OBVIOUS
  <2> HIDE DEF UpTo
  <2>4. <<UpTo(f), UpTo(x)>> \in R
    BY <2>2, <2>3 DEF StrictSubsetOrdering
  <2> QED BY <1>6, <2>4
<1>8. \A f \in S : x <= f
  BY <1>7
<1> QED BY <1>8 DEF Oldest

\* The request that has nothing under way.
LEMMA IdleIs ==
    /\ Idle \in Request
    /\ NoSession \in Session
    /\ Idle.pc = "idle" /\ Idle.op = Null /\ Idle.add = {} /\ Idle.gone = {}
    /\ Idle.marked = {} /\ Idle.queue = {} /\ Idle.saw = {} /\ Idle.seated = {}
<1>1. NoSession \in Session
  BY FS_EmptySet DEF NoSession, Session, Roster, Teams
<1> QED BY <1>1 DEF Idle, Request, PCs, Teams

\* A request moves on, and the others do not.
LEMMA Moved ==
    ASSUME TypeOK, NEW r \in Requests, NEW local \in Request,
           req' = [req EXCEPT ![r] = local]
    PROVE  /\ req' \in [Requests -> Request]
           /\ req'[r] = local
           /\ \A p \in Requests \ {r} : req'[p] = req[p]
BY DEF TypeOK

\* A request that goes its way leaves the rows' types alone.
LEMMA LocalTyped ==
    ASSUME TypeOK, NEW r \in Requests, NEW local \in Request, Local(r, local)
    PROVE  TypeOK'
BY Moved DEF Local, TypeOK

\* Locks are released to nobody.
LEMMA ReleaseTyped ==
    ASSUME TypeOK, NEW r \in Requests, ReleaseLocks(r)
    PROVE  /\ rowLock' \in Requests \cup {Null}
           /\ teamLock' \in [Teams -> Requests \cup {Null}]
BY DEF ReleaseLocks, TypeOK

\* ... also when a request ends without effect.
LEMMA RollbackTyped ==
    ASSUME TypeOK, NEW r \in Requests, Rollback(r)
    PROVE  TypeOK'
BY Moved, IdleIs, ReleaseTyped DEF Rollback, TypeOK

\* A label is all that changes.
LEMMA GotoTyped ==
    ASSUME TypeOK, NEW r \in Requests, NEW label \in PCs, Goto(r, label)
    PROVE  TypeOK'
<1>1. req[r] \in Request
  BY DEF TypeOK
<1>2. [req[r] EXCEPT !.pc = label] \in Request
  BY <1>1 DEF Request
<1> QED BY <1>2, LocalTyped DEF Goto

\* What a commit makes of the queue.
LEMMA ResolvedTyped ==
    ASSUME TypeOK, NEW r \in Requests
    PROVE  Resolved(r) \in [Entries -> Entry] /\ Erased \in [Entries -> Entry]
<1>1. \A e \in Entries : entries[e] \in Entry
  BY DEF TypeOK
<1>2. \A x \in Entry : /\ [x EXCEPT !.status = "promoted"] \in Entry
                       /\ [x EXCEPT !.status = "cancelled"] \in Entry
                       /\ [x EXCEPT !.status = "erased"] \in Entry
  BY DEF Entry
<1>3. Resolved(r) \in [Entries -> Entry]
  BY <1>1, <1>2 DEF Resolved
<1>4. Erased \in [Entries -> Entry]
  BY <1>1, <1>2 DEF Erased
<1> QED BY <1>3, <1>4

\* An entry that was born has a user, and requests work on such entries only.
Named ==
    /\ \A e \in Entries : entries[e].status # "none" => entries[e].user \in Learners
    /\ \A r \in Requests :
          /\ At(r, "createEntry") => req[r].learner \in Learners
          /\ At(r, "notify") => req[r].seated # {}
          /\ \A e \in req[r].queue \cup req[r].marked \cup req[r].seated \cup req[r].gone :
                entries[e].status # "none"

\* Types, step by step.
LEMMA StepTyped ==
    ASSUME TypeOK, Named, NEW r \in Requests, Step(r)
    PROVE  TypeOK'
<1>0. /\ req[r] \in Request /\ session \in Session
      /\ \A e \in Entries : entries[e] \in Entry
      /\ \A t \in Teams : members[t] \in SUBSET Learners
  BY DEF TypeOK
<1>1. ASSUME Join(r) PROVE TypeOK'
  <2>1. PICK l \in Learners :
           Local(r, [Idle EXCEPT !.pc = "createEntry", !.op = "join",
                                 !.learner = l, !.team = session.team])
    BY <1>1 DEF Join
  <2>2. [Idle EXCEPT !.pc = "createEntry", !.op = "join",
                     !.learner = l, !.team = session.team] \in Request
    <3>1. session.team \in Teams
      BY <1>0 DEF Session
    <3> QED BY <3>1, IdleIs DEF Request, PCs, Operations
  <2> QED BY <2>1, <2>2, LocalTyped
<1>2. ASSUME CreateEntry(r) PROVE TypeOK'
  <2> DEFINE l      == req[r].learner
             unborn == {e \in Entries : entries[e].status = "none"}
             row    == [status |-> "waiting", user |-> l, team |-> req[r].team]
  <2>1. CASE Rollback(r)
    BY <2>1, RollbackTyped
  <2>2. CASE ~Rollback(r)
    <3>1. /\ unborn # {}
          /\ entries' = [entries EXCEPT ![Oldest(unborn)] = row]
          /\ req' = [req EXCEPT ![r] = Idle]
          /\ UNCHANGED <<session, members, rowLock, teamLock, log, told>>
      BY <1>2, <2>2 DEF CreateEntry
    <3>2. row \in Entry
      BY <1>0 DEF Entry, Request
    <3>3. req' \in [Requests -> Request]
      BY <3>1, Moved, IdleIs
    <3> HIDE DEF row, unborn
    <3> QED BY <3>1, <3>2, <3>3 DEF TypeOK
  <2> QED BY <2>1, <2>2
<1>3. ASSUME Leave(r) PROVE TypeOK'
  <2>1. PICK e \in Entries : entries' = [entries EXCEPT ![e].status = "withdrawn"]
    BY <1>3 DEF Leave
  <2>2. [entries[e] EXCEPT !.status = "withdrawn"] \in Entry
    BY <1>0 DEF Entry
  <2>3. entries' \in [Entries -> Entry]
    BY <1>0, <2>1, <2>2 DEF TypeOK
  <2> QED BY <1>3, <2>3 DEF Leave, TypeOK
<1>4. ASSUME ReleaseUser(r) PROVE TypeOK'
  <2>1. PICK l \in Users(session.roster) :
           Local(r, [Idle EXCEPT !.pc = "delta", !.op = "drop", !.out = {l}])
    BY <1>4 DEF ReleaseUser
  <2>2. l \in Learners
    BY <1>0, UsersOfRoster DEF Session
  <2>3. [Idle EXCEPT !.pc = "delta", !.op = "drop", !.out = {l}] \in Request
    BY <2>2, IdleIs DEF Request, PCs, Operations
  <2> QED BY <2>1, <2>3, LocalTyped
<1>5. ASSUME PullUser(r) PROVE TypeOK'
  <2>1. PICK l : session' = [session EXCEPT !.roster = Without(session.roster, {l})]
    BY <1>5 DEF PullUser
  <2>2. session' \in Session
    BY <1>0, <2>1, RosterWithout DEF Session
  <2> QED BY <1>5, <2>2 DEF PullUser, TypeOK
<1>6. ASSUME SyncTeamRoster(r) PROVE TypeOK'
  <2>1. PICK t \in Teams, U \in Outs, W \in Adds :
           LET enrolled == Users(session.roster)
               ours     == session.status = "scheduled" /\ session.team = t
               toRemove == IF ours THEN U \cap enrolled ELSE {}
               toAdd    == IF ours THEN W \ enrolled ELSE {}
           IN  /\ teamLock' = [teamLock EXCEPT ![t] = r]
               /\ req' = [req EXCEPT ![r] =
                       [Idle EXCEPT !.pc = IF toRemove \cup toAdd = {} THEN "commit"
                                           ELSE "delta",
                                    !.op = "team", !.team = t,
                                    !.out = toRemove, !.add = toAdd,
                                    !.members = (members[t] \ U) \cup W]]
    BY <1>6 DEF SyncTeamRoster
  <2>2. U \in SUBSET Learners /\ W \in SUBSET Learners
    BY WaitlistAssumption
  <2>3. ASSUME NEW pc \in {"commit", "delta"}, NEW out \in SUBSET Learners,
               NEW add \in SUBSET Learners, NEW m \in SUBSET Learners
        PROVE  [Idle EXCEPT !.pc = pc, !.op = "team", !.team = t, !.out = out, !.add = add,
                            !.members = m] \in Request
    BY IdleIs DEF Request, PCs, Operations
  <2>4. \E local \in Request : req' = [req EXCEPT ![r] = local]
    <3>1. (members[t] \ U) \cup W \in SUBSET Learners
      BY <1>0, <2>2
    <3> QED BY <2>1, <2>2, <2>3, <3>1
  <2>5. req' \in [Requests -> Request]
    BY <2>4, Moved
  <2>6. teamLock' \in [Teams -> Requests \cup {Null}]
    BY <2>1 DEF TypeOK
  <2> QED BY <1>6, <2>5, <2>6 DEF SyncTeamRoster, TypeOK
<1>7. ASSUME ApplyRosterDelta(r) PROVE TypeOK'
  <2> DEFINE delta == AppendedAll(Without(session.roster, req[r].out), req[r].add)
             mine  == [session EXCEPT !.roster = delta]
             pc    == IF req[r].out = {} THEN "commit" ELSE "promote"
  <2>1. CASE Goto(r, "commit")
    BY <2>1, GotoTyped DEF PCs
  <2>2. CASE ~Goto(r, "commit")
    <3>1. /\ rowLock' = r
          /\ req' = [req EXCEPT ![r] = [req[r] EXCEPT !.pc = pc, !.mine = mine]]
          /\ UNCHANGED <<session, entries, members, teamLock, log, told>>
      BY <1>7, <2>2 DEF ApplyRosterDelta
    <3>2. delta \in Roster
      <4>1. session.roster \in Roster /\ req[r].add \in SUBSET Learners
        BY <1>0 DEF Session, Request
      <4> QED BY <4>1, RosterWithout, RosterAppendedAll
    <3>3. mine \in Session
      BY <1>0, <3>2 DEF Session
    <3>4. pc \in PCs
      BY DEF PCs
    <3> HIDE DEF mine, pc
    <3>5. [req[r] EXCEPT !.pc = pc, !.mine = mine] \in Request
      BY <1>0, <3>3, <3>4 DEF Request
    <3>6. req' \in [Requests -> Request]
      BY <3>1, <3>5, Moved
    <3> QED BY <3>1, <3>6 DEF TypeOK
  <2> QED BY <2>1, <2>2
<1>8. ASSUME EditSession(r) PROVE TypeOK'
  <2>1. PICK c \in Caps \cup {Keep}, reassign \in BOOLEAN :
           Local(r, [Idle EXCEPT !.pc = "update", !.op = "edit", !.cap = c,
                                 !.reassign = reassign, !.members = members[1]])
    BY <1>8 DEF EditSession
  <2>2. [Idle EXCEPT !.pc = "update", !.op = "edit", !.cap = c,
                     !.reassign = reassign, !.members = members[1]] \in Request
    <3>1. members[1] \in SUBSET Learners
      BY <1>0 DEF Teams
    <3> QED BY <3>1, IdleIs DEF Request, PCs, Operations
  <2> QED BY <2>1, <2>2, LocalTyped
<1>9. ASSUME UpdateSession(r) PROVE TypeOK'
  <2> DEFINE q    == req[r]
             mine == IF q.reassign THEN [Capped(r) EXCEPT !.roster = AsRoster(q.members),
                                                          !.team = 1]
                     ELSE Capped(r)
             pc   == IF q.reassign THEN "dissolve" ELSE "promote"
  <2>1. CASE Rollback(r)
    BY <2>1, RollbackTyped
  <2>2. CASE ~Rollback(r)
    <3>1. /\ rowLock' = r
          /\ req' = [req EXCEPT ![r] = [req[r] EXCEPT !.pc = pc, !.mine = mine]]
          /\ UNCHANGED <<session, entries, members, teamLock, log, told>>
      BY <1>9, <2>2 DEF UpdateSession
    <3>2. Capped(r) \in Session
      BY <1>0, WaitlistAssumption DEF Capped, Session, Request
    <3>3. AsRoster(q.members) \in Roster
      BY <1>0, TeamAsRoster DEF Request
    <3>4. mine \in Session
      BY <3>2, <3>3 DEF Session, Teams
    <3>5. pc \in PCs
      BY DEF PCs
    <3> HIDE DEF mine, pc
    <3>6. [req[r] EXCEPT !.pc = pc, !.mine = mine] \in Request
      BY <1>0, <3>4, <3>5 DEF Request
    <3>7. req' \in [Requests -> Request]
      BY <3>1, <3>6, Moved
    <3> QED BY <3>1, <3>7 DEF TypeOK
  <2> QED BY <2>1, <2>2
<1>10. ASSUME PromoteIfSeatFree(r) PROVE TypeOK'
  <2> DEFINE m       == req[r].mine
             taken   == Cardinality(Users(m.roster))
             waiting == {e \in Entries : Waiting(e)} \ req[r].gone
  <2>1. CASE Goto(r, "commit")
    BY <2>1, GotoTyped DEF PCs
  <2>2. CASE ~Goto(r, "commit")
    <3>1. /\ m.cap > taken
          /\ Local(r, [req[r] EXCEPT !.pc = "seat", !.free = m.cap - taken,
                                     !.queue = waiting, !.saw = waiting])
      <4>1. m.cap \in Nat /\ taken \in Nat
        BY <1>0, UsersOfRoster DEF Request, Session
      <4> QED BY <1>10, <2>2, <4>1 DEF PromoteIfSeatFree
    <3>2. m.cap - taken \in Nat /\ waiting \in SUBSET Entries
      <4>1. m.cap \in Nat /\ taken \in Nat
        BY <1>0, UsersOfRoster DEF Request, Session
      <4> QED BY <3>1, <4>1
    <3> HIDE DEF m, taken, waiting
    <3>3. [req[r] EXCEPT !.pc = "seat", !.free = m.cap - taken,
                         !.queue = waiting, !.saw = waiting] \in Request
      BY <1>0, <3>2 DEF Request, PCs
    <3> QED BY <3>1, <3>3, LocalTyped
  <2> QED BY <2>1, <2>2
<1>11. ASSUME SeatNext(r) PROVE TypeOK'
  <2> DEFINE e == NextWaiter(r)
  <2>1. /\ req[r].queue # {} /\ req[r].queue \in SUBSET Entries
        /\ req[r].free # 0 /\ req[r].free \in Nat
    BY <1>0, <1>11 DEF SeatNext, ScanEnds, Request
  <2>2. e \in Entries
    BY <2>1, OldestIs DEF NextWaiter
  <2> HIDE DEF e
  <2>3. Local(r, StaleHead(r, e)) \/ Local(r, SeatWaiter(r, e)) \/ Local(r, NoMoreSeats(r))
    BY <1>11 DEF SeatNext, e
  <2>4. StaleHead(r, e) \in Request /\ NoMoreSeats(r) \in Request
    BY <1>0, <2>2 DEF StaleHead, NoMoreSeats, Request
  <2>5. CASE Local(r, SeatWaiter(r, e))
    <3> DEFINE roster == Appended(req[r].mine.roster, entries[e].user)
               mine   == [req[r].mine EXCEPT !.roster = roster]
    <3>1. e \in req[r].queue
      BY <2>1, OldestIs DEF NextWaiter, e
    <3>2. entries[e].user \in Learners
      BY <2>2, <3>1 DEF Named
    <3>3. req[r].mine \in Session /\ req[r].mine.roster \in Roster
      BY <1>0 DEF Request, Session
    <3>4. roster \in Roster
      BY <3>2, <3>3, RosterAppended
    <3>5. mine \in Session
      BY <3>3, <3>4 DEF Session
    <3>6. req[r].free - 1 \in Nat
      BY <2>1
    <3>7. SeatWaiter(r, e) =
             [req[r] EXCEPT !.mine = mine, !.free = req[r].free - 1,
                            !.queue = req[r].queue \ {e}, !.marked = req[r].marked \cup {e},
                            !.seated = req[r].seated \cup {e}]
      BY DEF SeatWaiter
    <3> HIDE DEF mine
    <3>8. ASSUME NEW q \in Request, NEW m \in Session, NEW n \in Nat, NEW Q \in SUBSET Entries,
                 NEW M \in SUBSET Entries, NEW S \in SUBSET Entries
          PROVE  [q EXCEPT !.mine = m, !.free = n, !.queue = Q, !.marked = M, !.seated = S]
                   \in Request
      BY DEF Request
    <3>9. /\ req[r].queue \ {e} \in SUBSET Entries
          /\ req[r].marked \cup {e} \in SUBSET Entries
          /\ req[r].seated \cup {e} \in SUBSET Entries
      BY <1>0, <2>2 DEF Request
    <3>10. SeatWaiter(r, e) \in Request
      <4>1. [req[r] EXCEPT !.mine = mine, !.free = req[r].free - 1,
                           !.queue = req[r].queue \ {e}, !.marked = req[r].marked \cup {e},
                           !.seated = req[r].seated \cup {e}] \in Request
        BY <1>0, <3>5, <3>6, <3>8, <3>9
      <4> QED BY <3>7, <4>1
    <3> QED BY <2>5, <3>10, LocalTyped
  <2> QED BY <2>3, <2>4, <2>5, LocalTyped
<1>12. ASSUME EndScan(r) PROVE TypeOK'
  BY <1>12, RollbackTyped, GotoTyped DEF EndScan, PCs
<1>13. ASSUME Commit(r) PROVE TypeOK'
  <2> DEFINE noted == [Idle EXCEPT !.pc = "notify", !.op = req[r].op, !.seated = req[r].seated]
  <2>1. session' \in Session
    <3>1. [session EXCEPT !.status = "deleted", !.roster = {}] \in Session
      BY <1>0, FS_EmptySet DEF Session, Roster
    <3>2. req[r].mine \in Session
      BY <1>0 DEF Request
    <3> QED BY <1>0, <1>13, <3>1, <3>2 DEF Commit
  <2>2. entries' \in [Entries -> Entry]
    BY <1>13, ResolvedTyped DEF Commit
  <2>3. members' \in [Teams -> SUBSET Learners]
    BY <1>0, <1>13 DEF Commit, TypeOK, Request
  <2>4. noted \in Request
    BY <1>0, IdleIs DEF Request, PCs
  <2>5. req' \in [Requests -> Request]
    <3> HIDE DEF noted
    <3>1. \E local \in Request : req' = [req EXCEPT ![r] = local]
      BY <1>13, <2>4, IdleIs DEF Commit, noted
    <3> QED BY <3>1, Moved
  <2> QED BY <1>13, <2>1, <2>2, <2>3, <2>5, ReleaseTyped DEF Commit, TypeOK
<1>14. ASSUME NotifyPromotion(r) PROVE TypeOK'
  <2> DEFINE e    == Oldest(req[r].seated)
             rest == req[r].seated \ {e}
  <2>1. req[r].seated # {} /\ req[r].seated \in SUBSET Entries
    BY <1>0, <1>14 DEF NotifyPromotion, Request, Named
  <2>2. e \in Entries /\ entries[e].user \in Learners
    <3>1. e \in req[r].seated
      BY <2>1, OldestIs
    <3> QED BY <1>14, <2>1, <3>1 DEF NotifyPromotion, Named
  <2>3. [req[r] EXCEPT !.seated = rest] \in Request
    BY <1>0 DEF Request
  <2>4. \E local \in Request : req' = [req EXCEPT ![r] = local]
    BY <1>14, <2>3, IdleIs DEF NotifyPromotion
  <2>5. req' \in [Requests -> Request]
    BY <2>4, Moved
  <2>6. log' \subseteq Learners /\ told' \subseteq Entries
    <3> HIDE DEF e
    <3> QED BY <1>14, <2>2 DEF NotifyPromotion, TypeOK, e
  <2> QED BY <1>14, <2>5, <2>6 DEF NotifyPromotion, TypeOK
<1>15. ASSUME CancelSession(r) PROVE TypeOK'
  <2>1. [Idle EXCEPT !.pc = "dissolve", !.op = "cancel"] \in Request
    BY IdleIs DEF Request, PCs, Operations
  <2> QED BY <1>15, <2>1, LocalTyped DEF CancelSession
<1>16. ASSUME DissolveWaitlist(r) PROVE TypeOK'
  <2>1. \E pc \in PCs : Local(r, [req[r] EXCEPT !.gone = Dissolved(r), !.pc = pc])
    BY <1>16 DEF DissolveWaitlist, PCs
  <2>2. \A pc \in PCs : [req[r] EXCEPT !.gone = Dissolved(r), !.pc = pc] \in Request
    BY <1>0 DEF Dissolved, Request
  <2> QED BY <2>1, <2>2, LocalTyped
<1>17. ASSUME CancelFlip(r) PROVE TypeOK'
  <2>1. CASE Rollback(r)
    BY <2>1, RollbackTyped
  <2>2. CASE ~Rollback(r)
    <3>1. [session EXCEPT !.status = "cancelled"] \in Session
      BY <1>0 DEF Session
    <3>2. req' \in [Requests -> Request]
      BY <1>17, <2>2, Moved, IdleIs DEF CancelFlip
    <3> QED BY <1>17, <2>2, <3>1, <3>2, ResolvedTyped DEF CancelFlip, TypeOK
  <2> QED BY <2>1, <2>2
<1>18. ASSUME Fail(r) PROVE TypeOK'
  BY <1>18, RollbackTyped DEF Fail
<1> QED
  BY <1>1, <1>2, <1>3, <1>4, <1>5, <1>6, <1>7, <1>8, <1>9, <1>10, <1>11, <1>12,
     <1>13, <1>14, <1>15, <1>16, <1>17, <1>18 DEF Step

-----------------------------------------------------------------------------
(* What a step does to the queue and to the other requests.                *)

\* A step is its own request's.
LEMMA OthersKept ==
    ASSUME TypeOK, NEW r \in Requests, Step(r), NEW p \in Requests, p # r
    PROVE  req'[p] = req[p]
BY DEF TypeOK, Step, Join, CreateEntry, Leave, ReleaseUser, PullUser, SyncTeamRoster,
   ApplyRosterDelta, EditSession, UpdateSession, PromoteIfSeatFree, SeatNext, EndScan, Commit,
   NotifyPromotion, CancelSession, DissolveWaitlist, CancelFlip, Fail, Rollback, Goto, Local

\* A request is done with the queue: it goes idle, or on to telling.
Ended(r) == req'[r] = Idle \/ req'[r] = [Idle EXCEPT !.pc = "notify", !.op = req[r].op,
                                                     !.seated = req[r].seated]

\* What becomes of an entry.
Becomes(r, e) ==
    \/ entries'[e] = entries[e]
    \/ /\ At(r, "createEntry") /\ entries[e].status = "none"
       /\ \A f \in Entries : f < e => entries[f].status # "none"
       /\ entries'[e].status = "waiting" /\ entries'[e].user = req[r].learner
       /\ Ended(r)
    \/ /\ At(r, "idle") /\ Waiting(e) /\ e \notin HeldByOthers(r) /\ req' = req
       /\ entries'[e].status = "withdrawn" /\ entries'[e].user = entries[e].user
    \/ /\ e \in req[r].marked /\ Ended(r)
       /\ entries'[e].status = "promoted" /\ entries'[e].user = entries[e].user
    \/ /\ e \in req[r].gone /\ e \notin req[r].marked /\ Ended(r)
       /\ entries'[e].status = "cancelled" /\ entries'[e].user = entries[e].user
    \/ /\ entries[e].status # "none" /\ HeldByOthers(r) = {} /\ Ended(r)
       /\ entries'[e].status = "erased" /\ entries'[e].user = entries[e].user

\* The queue as a commit leaves it.
LEMMA Resolves ==
    ASSUME TypeOK, NEW r \in Requests, NEW e \in Entries
    PROVE  /\ Resolved(r)[e].user = entries[e].user
           /\ e \in req[r].marked => Resolved(r)[e].status = "promoted"
           /\ e \in req[r].gone \ req[r].marked => Resolved(r)[e].status = "cancelled"
           /\ e \notin req[r].gone \cup req[r].marked => Resolved(r)[e] = entries[e]
           /\ entries[e].status = "none" => Erased[e] = entries[e]
           /\ entries[e].status # "none" =>
                Erased[e].status = "erased" /\ Erased[e].user = entries[e].user
<1>1. entries[e] \in Entry
  BY DEF TypeOK
<1>2. \A x \in Entry : \A s : [x EXCEPT !.status = s].status = s /\ [x EXCEPT !.status = s].user = x.user
  BY DEF Entry
<1> QED BY <1>1, <1>2 DEF Resolved, Erased

\* Every step does one of these to every entry.
LEMMA StepEntries ==
    ASSUME TypeOK, NEW r \in Requests, Step(r), NEW e \in Entries
    PROVE  Becomes(r, e)
<1>1. CASE UNCHANGED entries
  BY <1>1 DEF Becomes
<1>2. ASSUME CreateEntry(r), ~UNCHANGED entries PROVE Becomes(r, e)
  <2> DEFINE unborn == {f \in Entries : entries[f].status = "none"}
             row    == [status |-> "waiting", user |-> req[r].learner, team |-> req[r].team]
  <2>1. /\ unborn # {} /\ At(r, "createEntry")
        /\ entries' = [entries EXCEPT ![Oldest(unborn)] = row]
        /\ req' = [req EXCEPT ![r] = Idle]
    BY <1>2 DEF CreateEntry, Rollback
  <2>2. Oldest(unborn) \in unborn /\ \A f \in unborn : Oldest(unborn) <= f
    BY <2>1, OldestIs
  <2>3. req'[r] = Idle
    BY <2>1 DEF TypeOK
  <2> DEFINE b == Oldest(unborn)
  <2>4. b \in Entries /\ entries[b].status = "none"
    BY <2>2
  <2>5. \A f \in Entries : f < b => entries[f].status # "none"
    <3> SUFFICES ASSUME NEW f \in Entries, f < b, f \in unborn PROVE FALSE
      OBVIOUS
    <3>1. b <= f
      BY <2>2
    <3>2. b \in Nat /\ f \in Nat
      BY <2>4 DEF Entries
    <3> HIDE DEF b
    <3> QED BY <3>1, <3>2
  <2> HIDE DEF b
  <2>6. entries' = [entries EXCEPT ![b] = row]
    BY <2>1 DEF b
  <2>7. CASE e = b
    <3>1. entries'[e] = row
      BY <2>6, <2>7 DEF TypeOK
    <3>2. entries'[e].status = "waiting" /\ entries'[e].user = req[r].learner
      BY <3>1
    <3> QED BY <2>1, <2>3, <2>4, <2>5, <2>7, <3>2 DEF Becomes, Ended
  <2>8. CASE e # b
    BY <2>6, <2>8 DEF TypeOK, Becomes
  <2> QED BY <2>7, <2>8
<1>3. ASSUME Leave(r) PROVE Becomes(r, e)
  <2>1. PICK f \in Entries \ HeldByOthers(r) :
           Waiting(f) /\ entries' = [entries EXCEPT ![f].status = "withdrawn"]
    BY <1>3 DEF Leave
  <2>2. entries[f] \in Entry /\ entries'[f] = [entries[f] EXCEPT !.status = "withdrawn"]
        /\ \A g \in Entries \ {f} : entries'[g] = entries[g]
    BY <2>1 DEF TypeOK
  <2>3. entries'[f].status = "withdrawn" /\ entries'[f].user = entries[f].user
    BY <2>2 DEF Entry
  <2>4. At(r, "idle") /\ req' = req
    BY <1>3 DEF Leave, Begin
  <2> QED BY <2>1, <2>2, <2>3, <2>4 DEF Becomes
<1>4. ASSUME Commit(r) PROVE Becomes(r, e)
  <2>1. Ended(r)
    BY <1>4 DEF Commit, Ended, TypeOK
  <2>2. \/ entries' = Resolved(r)
        \/ entries' = Erased /\ HeldByOthers(r) = {}
    BY <1>4 DEF Commit
  <2> QED BY <2>1, <2>2, Resolves DEF Becomes
<1>5. ASSUME CancelFlip(r), ~UNCHANGED entries PROVE Becomes(r, e)
  <2>1. entries' = Resolved(r) /\ Ended(r)
    BY <1>5 DEF CancelFlip, Rollback, Ended, TypeOK
  <2> QED BY <2>1, Resolves DEF Becomes
<1> QED
  BY <1>1, <1>2, <1>3, <1>4, <1>5
  DEF Step, Join, ReleaseUser, PullUser, SyncTeamRoster,
   ApplyRosterDelta, EditSession, UpdateSession, PromoteIfSeatFree, SeatNext, EndScan,
   NotifyPromotion, CancelSession, DissolveWaitlist, Fail, Rollback, Goto, Local

\* A request that has begun, ended or been undone has no part of the queue.
Blank(n) ==
    /\ n.marked = {} /\ n.queue = {} /\ n.saw = {} /\ n.seated = {} /\ n.gone = {}
    /\ n.pc \in {"idle", "createEntry", "delta", "update", "dissolve", "commit"}
    /\ n.pc = "createEntry" => n.learner \in Learners

\* The part of the queue it has stays as it is.
SamePart(q, n) ==
    /\ n.marked = q.marked /\ n.queue = q.queue /\ n.saw = q.saw
    /\ n.seated = q.seated /\ n.gone = q.gone

\* It goes on without looking at the queue, or after a scan.
Proceeds(q, n) ==
    /\ SamePart(q, n)
    /\ \/ /\ q.pc \in {"delta", "update", "promote"}
          /\ n.pc \in {"promote", "dissolve", "commit"}
       \/ /\ q.queue = {} \/ q.free = 0
          /\ q.pc = "seat" /\ n.pc = "commit" /\ n.mine = q.mine

\* A scan begins: what waits is its queue, and the free seats are counted.
Scans(q, n) ==
    /\ q.pc = "promote" /\ n.pc = "seat"
    /\ n.marked = q.marked /\ n.seated = q.seated /\ n.gone = q.gone /\ n.mine = q.mine
    /\ n.queue = {e \in Entries : Waiting(e)} \ q.gone /\ n.saw = n.queue
    /\ n.free \in Nat /\ Cardinality(Users(q.mine.roster)) + n.free = q.mine.cap

\* The oldest entry of the queue is marked, and its user takes a seat or has one.
Serves(r, q, n, e) ==
    /\ q.pc = "seat" /\ n.pc = "seat"
    /\ e \in q.queue /\ e \notin HeldByOthers(r) /\ \A f \in q.queue : e <= f
    /\ n.queue = q.queue \ {e} /\ n.marked = q.marked \cup {e}
    /\ n.saw = q.saw /\ n.gone = q.gone /\ n.mine.cap = q.mine.cap
    /\ \/ n.seated = q.seated /\ n.mine = q.mine /\ n.free = q.free
       \/ /\ n.seated = q.seated \cup {e}
          /\ n.free = q.free - 1
          /\ Cardinality(Users(n.mine.roster)) = Cardinality(Users(q.mine.roster)) + 1
          /\ Cardinality(q.mine.roster) < q.mine.cap
          /\ Cardinality(n.mine.roster) <= Cardinality(q.mine.roster) + 1

\* The scan stops at a full roster.
Stops(q, n) ==
    /\ q.pc = "seat" /\ n.pc = "seat" /\ n.queue = {}
    /\ n.marked = q.marked /\ n.saw = q.saw /\ n.seated = q.seated /\ n.gone = q.gone
    /\ n.mine = q.mine /\ n.free = q.free
    /\ Cardinality(q.mine.roster) >= q.mine.cap

\* The queue is dissolved.
Dissolves(r, q, n) ==
    /\ q.pc = "dissolve" /\ n.pc \in {"flip", "commit", "promote"}
    /\ n.marked = q.marked /\ n.queue = q.queue /\ n.saw = q.saw /\ n.seated = q.seated
    /\ n.gone = {e \in Entries : Waiting(e)} /\ n.gone \cap HeldByOthers(r) = {}

\* The learners who were seated are told, after the commit.
Tells(q, n) ==
    /\ n.pc = "notify" /\ n.seated # {}
    /\ \/ /\ q.pc = "commit" /\ n.seated = q.seated
          /\ n.marked = {} /\ n.queue = {} /\ n.saw = {} /\ n.gone = {}
       \/ /\ q.pc = "notify" /\ n.seated \subseteq q.seated
          /\ n.marked = q.marked /\ n.queue = q.queue /\ n.saw = q.saw /\ n.gone = q.gone

\* What a step makes of its request.
LEMMA StepRequest ==
    ASSUME TypeOK, Named, NEW r \in Requests, Step(r),
           NEW q, q = req[r], NEW n, n = req'[r]
    PROVE  \/ n = q
           \/ Blank(n)
           \/ Proceeds(q, n)
           \/ Scans(q, n)
           \/ \E e \in Entries : Serves(r, q, n, e)
           \/ Stops(q, n)
           \/ Dissolves(r, q, n)
           \/ Tells(q, n)
<1> DEFINE Goal == \/ n = q
                   \/ Blank(n)
                   \/ Proceeds(q, n)
                   \/ Scans(q, n)
                   \/ \E e \in Entries : Serves(r, q, n, e)
                   \/ Stops(q, n)
                   \/ Dissolves(r, q, n)
                   \/ Tells(q, n)
<1>0. /\ q \in Request
      /\ \A local : req' = [req EXCEPT ![r] = local] => n = local
      /\ \A local : Local(r, local) => n = local
  BY DEF TypeOK, Local
<1>1. Blank(Idle)
  BY IdleIs DEF Blank
<1>2. ASSUME Rollback(r) PROVE Goal
  BY <1>0, <1>1, <1>2 DEF Rollback
<1>3. CASE UNCHANGED req
  BY <1>3
<1>4. ASSUME Join(r) PROVE Goal
  <2>1. PICK l \in Learners :
           n = [Idle EXCEPT !.pc = "createEntry", !.op = "join",
                            !.learner = l, !.team = session.team]
    BY <1>0, <1>4 DEF Join
  <2>2. Blank(n)
    BY <2>1, IdleIs DEF Blank, Idle
  <2> QED BY <2>2
<1>5. ASSUME CreateEntry(r) PROVE Goal
  BY <1>0, <1>1, <1>2, <1>5 DEF CreateEntry
<1>6. ASSUME ReleaseUser(r) PROVE Goal
  <2>1. \E l : n = [Idle EXCEPT !.pc = "delta", !.op = "drop", !.out = {l}]
    BY <1>0, <1>6 DEF ReleaseUser
  <2>2. Blank(n)
    BY <2>1 DEF Blank, Idle
  <2> QED BY <2>2
<1>7. ASSUME SyncTeamRoster(r) PROVE Goal
  <2>1. Blank(n)
    <3>1. PICK t \in Teams, U \in Outs, W \in Adds :
             LET enrolled == Users(session.roster)
                 ours     == session.status = "scheduled" /\ session.team = t
                 toRemove == IF ours THEN U \cap enrolled ELSE {}
                 toAdd    == IF ours THEN W \ enrolled ELSE {}
             IN  req' = [req EXCEPT ![r] =
                         [Idle EXCEPT !.pc = IF toRemove \cup toAdd = {} THEN "commit"
                                             ELSE "delta",
                                      !.op = "team", !.team = t,
                                      !.out = toRemove, !.add = toAdd,
                                      !.members = (members[t] \ U) \cup W]]
      BY <1>7 DEF SyncTeamRoster
    <3> DEFINE enrolled == Users(session.roster)
               ours     == session.status = "scheduled" /\ session.team = t
               toRemove == IF ours THEN U \cap enrolled ELSE {}
               toAdd    == IF ours THEN W \ enrolled ELSE {}
               label    == IF toRemove \cup toAdd = {} THEN "commit" ELSE "delta"
               left     == (members[t] \ U) \cup W
    <3>2. n = [Idle EXCEPT !.pc = label, !.op = "team", !.team = t, !.out = toRemove,
                           !.add = toAdd, !.members = left]
      <4>1. req' = [req EXCEPT ![r] =
                      [Idle EXCEPT !.pc = label, !.op = "team", !.team = t, !.out = toRemove,
                                   !.add = toAdd, !.members = left]]
        BY <3>1
      <4> HIDE DEF toRemove, toAdd, label, left
      <4> QED BY <1>0, <4>1
    <3>3. label \in {"commit", "delta"}
      OBVIOUS
    <3> HIDE DEF toRemove, toAdd, label, left
    <3>4. ASSUME NEW pc \in {"commit", "delta"}, NEW out, NEW add, NEW m,
                 n = [Idle EXCEPT !.pc = pc, !.op = "team", !.team = t, !.out = out, !.add = add,
                                  !.members = m]
          PROVE  Blank(n)
      BY <3>4 DEF Blank, Idle
    <3> QED BY <3>2, <3>3, <3>4
  <2> QED BY <2>1
<1>8. ASSUME ApplyRosterDelta(r) PROVE Goal
  <2>1. \/ n = [q EXCEPT !.pc = "commit"]
        \/ \E pc \in {"commit", "promote"} : \E m : n = [q EXCEPT !.pc = pc, !.mine = m]
    BY <1>0, <1>8 DEF ApplyRosterDelta, Goto
  <2>2. q.pc = "delta"
    BY <1>8 DEF ApplyRosterDelta, At
  <2>3. Proceeds(q, n)
    BY <1>0, <2>1, <2>2 DEF Proceeds, SamePart, Request
  <2> QED BY <2>3
<1>9. ASSUME EditSession(r) PROVE Goal
  <2>1. \E c, reassign, m :
           n = [Idle EXCEPT !.pc = "update", !.op = "edit", !.cap = c,
                            !.reassign = reassign, !.members = m]
    <3>1. PICK c \in Caps \cup {Keep}, reassign \in BOOLEAN :
             Local(r, [Idle EXCEPT !.pc = "update", !.op = "edit", !.cap = c,
                                   !.reassign = reassign, !.members = members[1]])
      BY <1>9 DEF EditSession
    <3> QED BY <1>0, <3>1
  <2>2. Blank(n)
    BY <2>1 DEF Blank, Idle
  <2> QED BY <2>2
<1>10. ASSUME UpdateSession(r) PROVE Goal
  <2>1. CASE Rollback(r)
    BY <1>2, <2>1
  <2>2. CASE ~Rollback(r)
    <3>1. \E pc \in {"dissolve", "promote"} : \E m : n = [q EXCEPT !.pc = pc, !.mine = m]
      BY <1>0, <1>10, <2>2 DEF UpdateSession, At
    <3>2. q.pc = "update"
      BY <1>10 DEF UpdateSession, At
    <3>3. Proceeds(q, n)
      BY <1>0, <3>1, <3>2 DEF Proceeds, SamePart, Request
    <3> QED BY <3>3
  <2> QED BY <2>1, <2>2
<1>11. ASSUME PromoteIfSeatFree(r) PROVE Goal
  <2> DEFINE taken   == Cardinality(Users(q.mine.roster))
             waiting == {e \in Entries : Waiting(e)} \ q.gone
  <2>1. q.mine.cap \in Nat /\ taken \in Nat
    BY <1>0, UsersOfRoster DEF Request, Session
  <2>2. q.pc = "promote"
    BY <1>11 DEF PromoteIfSeatFree, At
  <2>3. \/ n = [q EXCEPT !.pc = "commit"]
        \/ /\ q.mine.cap > taken
           /\ n = [q EXCEPT !.pc = "seat", !.free = q.mine.cap - taken,
                            !.queue = waiting, !.saw = waiting]
    BY <1>0, <1>11, <2>1 DEF PromoteIfSeatFree, Goto
  <2>4. CASE n = [q EXCEPT !.pc = "commit"]
    BY <1>0, <2>2, <2>4 DEF Proceeds, SamePart, Request
  <2>5. CASE n # [q EXCEPT !.pc = "commit"]
    <3>1. q.mine.cap - taken \in Nat /\ taken + (q.mine.cap - taken) = q.mine.cap
      BY <2>1, <2>3, <2>5
    <3>2. PICK f : f = q.mine.cap - taken
      OBVIOUS
    <3>3. PICK w : w = waiting
      OBVIOUS
    <3>4. n = [q EXCEPT !.pc = "seat", !.free = f, !.queue = w, !.saw = w]
      BY <2>3, <2>5, <3>2, <3>3
    <3>5. /\ n.pc = "seat" /\ n.marked = q.marked /\ n.seated = q.seated /\ n.gone = q.gone
          /\ n.mine = q.mine /\ n.queue = w /\ n.saw = w /\ n.free = f
      BY <1>0, <3>4 DEF Request
    <3>6. Scans(q, n)
      BY <2>2, <3>1, <3>2, <3>3, <3>5 DEF Scans
    <3> QED BY <3>6
  <2> QED BY <2>4, <2>5
<1>12. ASSUME SeatNext(r) PROVE Goal
  <2>1. PICK e : e = NextWaiter(r)
    OBVIOUS
  <2>2. q.pc = "seat" /\ q.queue # {} /\ q.queue \in SUBSET Entries /\ e \notin HeldByOthers(r)
    BY <1>0, <1>12, <2>1 DEF SeatNext, ScanEnds, Request, At
  <2>3. e \in Entries /\ e \in q.queue /\ \A f \in q.queue : e <= f
    BY <2>1, <2>2, OldestIs DEF NextWaiter
  <2>4. \/ n = StaleHead(r, e)
        \/ ~AlreadySeated(r, e) /\ SeatsIfRoom(q.mine) /\ n = SeatWaiter(r, e)
        \/ ~SeatsIfRoom(q.mine) /\ n = NoMoreSeats(r)
    BY <1>0, <1>12, <2>1 DEF SeatNext
  <2>5. CASE n = StaleHead(r, e)
    <3>1. n = [q EXCEPT !.queue = q.queue \ {e}, !.marked = q.marked \cup {e}]
      BY <2>5 DEF StaleHead
    <3>2. /\ n.pc = q.pc /\ n.queue = q.queue \ {e} /\ n.marked = q.marked \cup {e}
          /\ n.saw = q.saw /\ n.gone = q.gone /\ n.mine = q.mine /\ n.seated = q.seated
          /\ n.free = q.free
      BY <1>0, <3>1 DEF Request
    <3>3. Serves(r, q, n, e)
      BY <2>2, <2>3, <3>2 DEF Serves
    <3> QED BY <2>3, <3>3
  <2>6. CASE ~AlreadySeated(r, e) /\ SeatsIfRoom(q.mine) /\ n = SeatWaiter(r, e)
    <3>1. PICK m : m = [q.mine EXCEPT !.roster = Appended(q.mine.roster, entries[e].user)]
      OBVIOUS
    <3>2. n = [q EXCEPT !.mine = m, !.free = q.free - 1, !.queue = q.queue \ {e},
                        !.marked = q.marked \cup {e}, !.seated = q.seated \cup {e}]
      BY <2>6, <3>1 DEF SeatWaiter
    <3>3. /\ n.pc = q.pc /\ n.queue = q.queue \ {e} /\ n.marked = q.marked \cup {e}
          /\ n.saw = q.saw /\ n.gone = q.gone /\ n.mine = m /\ n.seated = q.seated \cup {e}
          /\ n.free = q.free - 1
      BY <1>0, <3>2 DEF Request
    <3>4. q.mine \in Session /\ q.mine.roster \in Roster
      BY <1>0 DEF Request, Session
    <3>5. m.cap = q.mine.cap /\ m.roster = Appended(q.mine.roster, entries[e].user)
      BY <3>1, <3>4 DEF Session
    <3>6. entries[e].user \in Learners /\ entries[e].user \notin Users(q.mine.roster)
      BY <2>3, <2>6 DEF Named, AlreadySeated
    <3>7. /\ Cardinality(Users(m.roster)) = Cardinality(Users(q.mine.roster)) + 1
          /\ Cardinality(m.roster) <= Cardinality(q.mine.roster) + 1
      BY <3>4, <3>5, <3>6, RosterAppended
    <3>8. Serves(r, q, n, e)
      BY <2>2, <2>3, <2>6, <3>3, <3>5, <3>7 DEF Serves, SeatsIfRoom
    <3> QED BY <2>3, <3>8
  <2>7. CASE ~SeatsIfRoom(q.mine) /\ n = NoMoreSeats(r)
    <3>1. Cardinality(q.mine.roster) \in Nat /\ q.mine.cap \in Nat
      BY <1>0, UsersOfRoster DEF Request, Session
    <3>2. Cardinality(q.mine.roster) >= q.mine.cap
      BY <2>7, <3>1 DEF SeatsIfRoom
    <3>3. n = [q EXCEPT !.queue = {}]
      BY <2>7 DEF NoMoreSeats
    <3>4. Stops(q, n)
      BY <1>0, <2>2, <3>2, <3>3 DEF Stops, Request
    <3> QED BY <3>4
  <2> QED BY <2>4, <2>5, <2>6, <2>7
<1>13. ASSUME EndScan(r) PROVE Goal
  <2>1. CASE Rollback(r)
    BY <1>2, <2>1
  <2>2. CASE ~Rollback(r)
    <3>1. n = [q EXCEPT !.pc = "commit"] /\ q.pc = "seat" /\ (q.queue = {} \/ q.free = 0)
      BY <1>0, <1>13, <2>2 DEF EndScan, Goto, ScanEnds, At
    <3>2. Proceeds(q, n)
      BY <1>0, <3>1 DEF Proceeds, SamePart, Request
    <3> QED BY <3>2
  <2> QED BY <2>1, <2>2
<1>14. ASSUME Commit(r) PROVE Goal
  <2>1. q.pc = "commit"
    BY <1>14 DEF Commit, At
  <2>2. \/ n = Idle
        \/ /\ q.seated # {}
           /\ n = [Idle EXCEPT !.pc = "notify", !.op = q.op, !.seated = q.seated]
    BY <1>0, <1>14 DEF Commit, At
  <2>3. CASE n = Idle
    BY <1>1, <2>3
  <2>4. CASE n # Idle
    <3>1. Tells(q, n)
      BY <2>1, <2>2, <2>4 DEF Tells, Idle
    <3> QED BY <3>1
  <2> QED BY <2>3, <2>4
<1>15. ASSUME NotifyPromotion(r) PROVE Goal
  <2>1. PICK rest : rest = q.seated \ {Oldest(q.seated)}
    OBVIOUS
  <2>2. q.pc = "notify"
    BY <1>15 DEF NotifyPromotion, At
  <2>3. n = Idle \/ (rest # {} /\ n = [q EXCEPT !.seated = rest])
    BY <1>0, <1>15, <2>1 DEF NotifyPromotion, At
  <2>4. CASE n = Idle
    BY <1>1, <2>4
  <2>5. CASE rest # {} /\ n = [q EXCEPT !.seated = rest]
    <3>1. /\ n.pc = "notify" /\ n.seated = rest /\ n.marked = q.marked /\ n.queue = q.queue
          /\ n.saw = q.saw /\ n.gone = q.gone
      BY <1>0, <2>2, <2>5 DEF Request
    <3>2. n.seated # {} /\ n.seated \subseteq q.seated
      BY <2>1, <2>5, <3>1
    <3>3. Tells(q, n)
      BY <2>2, <3>1, <3>2 DEF Tells
    <3> QED BY <3>3
  <2> QED BY <2>3, <2>4, <2>5
<1>16. ASSUME CancelSession(r) PROVE Goal
  <2>1. n = [Idle EXCEPT !.pc = "dissolve", !.op = "cancel"]
    BY <1>0, <1>16 DEF CancelSession
  <2>2. Blank(n)
    BY <2>1 DEF Blank, Idle
  <2> QED BY <2>2
<1>17. ASSUME DissolveWaitlist(r) PROVE Goal
  <2>1. PICK d : d = Dissolved(r)
    OBVIOUS
  <2>2. \E pc \in {"flip", "commit", "promote"} : n = [q EXCEPT !.gone = d, !.pc = pc]
    BY <1>0, <1>17, <2>1 DEF DissolveWaitlist
  <2>3. q.pc = "dissolve" /\ d \cap HeldByOthers(r) = {} /\ d = {e \in Entries : Waiting(e)}
    BY <1>17, <2>1 DEF DissolveWaitlist, Dissolved, At
  <2>4. /\ n.pc \in {"flip", "commit", "promote"} /\ n.marked = q.marked /\ n.queue = q.queue
        /\ n.saw = q.saw /\ n.seated = q.seated /\ n.gone = d
    BY <1>0, <2>2 DEF Request
  <2>5. Dissolves(r, q, n)
    BY <2>3, <2>4 DEF Dissolves
  <2> QED BY <2>5
<1>18. ASSUME CancelFlip(r) PROVE Goal
  BY <1>0, <1>1, <1>2, <1>18 DEF CancelFlip
<1> QED
  BY <1>2, <1>3, <1>4, <1>5, <1>6, <1>7, <1>8, <1>9, <1>10, <1>11, <1>12, <1>13, <1>14,
     <1>15, <1>16, <1>17, <1>18
  DEF Step, Leave, PullUser, Fail

\* Named entries stay named.
LEMMA NamedStep ==
    ASSUME TypeOK, Named, NEW r \in Requests, Step(r)
    PROVE  Named'
<1>1. \A e \in Entries : entries[e].status # "none" =>
         entries'[e].status # "none" /\ entries'[e].user = entries[e].user
  BY StepEntries DEF Becomes
<1>2. \A e \in Entries : entries'[e].status # "none" => entries'[e].user \in Learners
  <2> SUFFICES ASSUME NEW e \in Entries, entries'[e].status # "none"
               PROVE  entries'[e].user \in Learners
    OBVIOUS
  <2>1. Becomes(r, e)
    BY StepEntries
  <2>2. CASE entries[e].status # "none"
    BY <1>1, <2>2 DEF Named
  <2>3. CASE entries[e].status = "none"
    <3>1. e \notin req[r].marked \cup req[r].gone
      BY <2>3 DEF Named
    <3>2. At(r, "createEntry") /\ entries'[e].user = req[r].learner
      BY <2>1, <2>3, <3>1 DEF Becomes, Waiting
    <3> QED BY <3>2 DEF Named
  <2> QED BY <2>2, <2>3
<1>3. ASSUME NEW p \in Requests, p # r
      PROVE  /\ req'[p].pc = "createEntry" => req'[p].learner \in Learners
             /\ req'[p].pc = "notify" => req'[p].seated # {}
             /\ \A e \in req'[p].queue \cup req'[p].marked \cup req'[p].seated
                        \cup req'[p].gone :
                   entries'[e].status # "none"
  <2>1. req'[p] = req[p] /\ req[p] \in Request
    BY <1>3, OthersKept DEF TypeOK
  <2>2. \A e \in req[p].queue \cup req[p].marked \cup req[p].seated \cup req[p].gone :
           e \in Entries /\ entries[e].status # "none"
    BY <2>1 DEF Named, Request
  <2> QED BY <1>1, <2>1, <2>2 DEF Named, At
<1>4. /\ req'[r].pc = "createEntry" => req'[r].learner \in Learners
      /\ req'[r].pc = "notify" => req'[r].seated # {}
      /\ \A e \in req'[r].queue \cup req'[r].marked \cup req'[r].seated
                     \cup req'[r].gone :
            entries'[e].status # "none"
  <2>1. PICK q : q = req[r]
    OBVIOUS
  <2>2. PICK n : n = req'[r]
    OBVIOUS
  <2>3. /\ \A e \in q.queue \cup q.marked \cup q.seated \cup q.gone :
              e \in Entries /\ entries[e].status # "none"
        /\ q.pc = "createEntry" => q.learner \in Learners
        /\ q.pc = "notify" => q.seated # {}
    BY <2>1 DEF Named, TypeOK, Request, At
  <2>4. \/ n = q
        \/ Blank(n)
        \/ Proceeds(q, n)
        \/ Scans(q, n)
        \/ \E e \in Entries : Serves(r, q, n, e)
        \/ Stops(q, n)
        \/ Dissolves(r, q, n)
        \/ Tells(q, n)
    BY <2>1, <2>2, StepRequest
  <2>5. /\ \A e \in n.queue \cup n.marked \cup n.seated \cup n.gone :
              e \in Entries /\ entries[e].status # "none"
        /\ n.pc = "createEntry" => n.learner \in Learners
        /\ n.pc = "notify" => n.seated # {}
    <3>1. CASE n = q
      BY <2>3, <3>1
    <3>2. CASE Blank(n)
      BY <3>2 DEF Blank
    <3>3. CASE Proceeds(q, n)
      BY <2>3, <3>3 DEF Proceeds, SamePart
    <3>4. CASE Scans(q, n)
      BY <2>3, <3>4 DEF Scans, Waiting
    <3>5. CASE \E e \in Entries : Serves(r, q, n, e)
      BY <2>3, <3>5 DEF Serves
    <3>6. CASE Stops(q, n)
      BY <2>3, <3>6 DEF Stops
    <3>7. CASE Dissolves(r, q, n)
      BY <2>3, <3>7 DEF Dissolves, Waiting
    <3>8. CASE Tells(q, n)
      BY <2>3, <3>8 DEF Tells
    <3> QED BY <2>4, <3>1, <3>2, <3>3, <3>4, <3>5, <3>6, <3>7, <3>8
  <2> QED BY <1>1, <2>2, <2>5
<1> QED BY <1>2, <1>3, <1>4 DEF Named, At

-----------------------------------------------------------------------------
(* The queue.                                                              *)

Settled(e) == entries[e].status \notin {"none", "waiting"}

Served(e) == entries[e].status \in {"promoted", "erased"}

\* Entries are born in order.
Numbered ==
    \A e, f \in Entries : e < f /\ entries[e].status = "none" => entries[f].status = "none"

\* What a request holds of the queue: an entry it cancels still waits; a promotion
\* has served whoever is older than an entry it has marked or will come to.
Holding(q) ==
    /\ q.pc \notin {"seat", "commit"} => q.marked = {} /\ q.queue = {} /\ q.saw = {}
    /\ q.pc \notin {"seat", "commit", "notify"} => q.seated = {}
    /\ q.pc \in {"idle", "notify"} => q.gone = {}
    /\ q.pc # "notify" => q.seated \subseteq q.marked
    /\ q.pc = "notify" => \A e \in q.seated : Served(e)
    /\ \A e \in q.marked \cup q.queue : entries[e].status # "none"
    /\ \A e \in q.gone : Waiting(e)
    /\ \A f \in q.marked \cup q.queue : \A e \in Entries :
          e < f => e \in q.marked \cup q.queue \cup q.gone \/ Settled(e)
    /\ \A f \in q.marked : \A e \in q.queue : f < e

\* The seats a scan may still give are free, and it has dropped nobody before the
\* roster was full.
Filling(q) ==
    LET full == Cardinality(q.mine.roster) >= q.mine.cap
        left == q.saw \ q.marked
    IN
    /\ q.pc = "seat" =>
          /\ Cardinality(Users(q.mine.roster)) + q.free >= q.mine.cap
          /\ left \subseteq q.queue \/ full
    /\ q.pc = "commit" => left = {} \/ full

\* An entry that one transaction cancels no other has written.
Apart ==
    \A r \in Requests, p \in Requests :
        p # r => req[r].gone \cap (req[p].marked \cup req[p].gone) = {}

Queueing ==
    /\ Numbered
    /\ Apart
    /\ \A r \in Requests : Holding(req[r]) /\ Filling(req[r])
    /\ ToldOnceSeated

\* Entries only grow older.
LEMMA Ageing ==
    ASSUME TypeOK, NEW r \in Requests, Step(r), Holding(req[r]), NEW e \in Entries
    PROVE  /\ entries[e].status # "none" => entries'[e].status # "none"
           /\ Settled(e) => Settled(e)'
           /\ Served(e) => Served(e)'
<1>1. Becomes(r, e)
  BY StepEntries
<1>2. e \in req[r].gone => Waiting(e)
  BY DEF Holding
<1> QED BY <1>1, <1>2 DEF Becomes, Settled, Served, Waiting

\* ... and what a request holds, it holds.
LEMMA HoldingKept ==
    ASSUME TypeOK, NEW r \in Requests, Step(r), Holding(req[r]),
           NEW q \in Request, Holding(q), \A e \in q.gone : Waiting(e)'
    PROVE  Holding(q)'
<1>1. \A e \in Entries : /\ entries[e].status # "none" => entries'[e].status # "none"
                         /\ Settled(e) => Settled(e)'
                         /\ Served(e) => Served(e)'
  BY Ageing
<1>2. q.seated \subseteq Entries /\ q.marked \subseteq Entries /\ q.queue \subseteq Entries
  BY DEF Request
<1>3. /\ q.pc = "notify" => \A e \in q.seated : Served(e)'
      /\ \A e \in q.marked \cup q.queue : entries'[e].status # "none"
  BY <1>1, <1>2 DEF Holding
<1>4. \A f \in q.marked \cup q.queue : \A e \in Entries :
          e < f => e \in q.marked \cup q.queue \cup q.gone \/ Settled(e)'
  BY <1>1 DEF Holding
<1> QED BY <1>3, <1>4 DEF Holding

\* An entry another request cancels waits until that request commits.
LEMMA OthersHolding ==
    ASSUME TypeOK, Queueing, NEW r \in Requests, Step(r), NEW p \in Requests, p # r
    PROVE  Holding(req[p])' /\ Filling(req[p])'
<1>1. PICK q : q = req[p]
  OBVIOUS
<1>2. q \in Request /\ Holding(q) /\ Filling(q) /\ req'[p] = q /\ Holding(req[r])
  BY <1>1, OthersKept DEF TypeOK, Queueing
<1>3. \A e \in q.gone : Waiting(e)'
  <2> SUFFICES ASSUME NEW e \in q.gone PROVE Waiting(e)'
    OBVIOUS
  <2>1. e \in Entries /\ Waiting(e)
    BY <1>2 DEF Request, Holding
  <2>2. e \in HeldByOthers(r)
    BY <1>1 DEF HeldByOthers
  <2>3. e \notin req[r].marked \cup req[r].gone
    BY <1>1 DEF Queueing, Apart
  <2>4. Becomes(r, e)
    BY <2>1, StepEntries
  <2> QED BY <2>1, <2>2, <2>3, <2>4 DEF Becomes, Waiting
<1>4. Holding(q)'
  BY <1>2, <1>3, HoldingKept
<1>5. Filling(q)'
  BY <1>2 DEF Filling
<1> QED BY <1>2, <1>4, <1>5 DEF Holding, Filling

\* Seats are told of when the commit that gave them is done.
LEMMA CommitServes ==
    ASSUME TypeOK, Named, NEW r \in Requests, Step(r), At(r, "commit"),
           req'[r].pc = "notify", NEW e \in req[r].marked
    PROVE  Served(e)'
<1>1. Commit(r)
  <2>1. req'[r] # Idle
    BY IdleIs
  <2>2. ~Fail(r)
    BY <2>1 DEF Fail, Rollback, TypeOK
  <2> QED BY <2>2 DEF At, Step, Begin, Join, CreateEntry, Leave, ReleaseUser, PullUser,
             SyncTeamRoster, ApplyRosterDelta, EditSession, UpdateSession, PromoteIfSeatFree,
             SeatNext, EndScan, NotifyPromotion, CancelSession, DissolveWaitlist, CancelFlip
<1>2. e \in Entries /\ entries[e].status # "none"
  BY DEF TypeOK, Request, Named
<1>3. entries' = Resolved(r) \/ entries' = Erased
  BY <1>1 DEF Commit
<1>4. entries'[e].status \in {"promoted", "erased"}
  BY <1>2, <1>3, Resolves
<1> QED BY <1>4 DEF Served

\* A promotion resolves all that its request has in hand.
LEMMA PromotionResolves ==
    ASSUME TypeOK, NEW r \in Requests, Step(r), NEW f \in Entries, Promoted(f)
    PROVE  entries' = Resolved(r)
<1>1. ~UNCHANGED entries /\ entries'[f].status = "promoted" /\ entries[f].status # "promoted"
  BY DEF Promoted
<1>2. ASSUME CreateEntry(r) PROVE FALSE
  <2> DEFINE unborn == {g \in Entries : entries[g].status = "none"}
             row    == [status |-> "waiting", user |-> req[r].learner, team |-> req[r].team]
  <2>1. \E g : entries' = [entries EXCEPT ![g] = row]
    BY <1>1, <1>2 DEF CreateEntry, Rollback
  <2>2. row.status = "waiting"
    OBVIOUS
  <2> HIDE DEF row
  <2> QED BY <1>1, <2>1, <2>2 DEF TypeOK
<1>3. ASSUME Leave(r) PROVE FALSE
  <2>1. \E g \in Entries : entries' = [entries EXCEPT ![g].status = "withdrawn"]
    BY <1>3 DEF Leave
  <2>2. entries[f] \in Entry /\ [entries[f] EXCEPT !.status = "withdrawn"].status = "withdrawn"
    BY DEF TypeOK, Entry
  <2> QED BY <1>1, <2>1, <2>2 DEF TypeOK
<1>4. ASSUME Commit(r) PROVE entries' = Resolved(r)
  <2>1. Erased[f].status # "promoted" \/ entries[f].status = "promoted"
    BY Resolves
  <2> QED BY <1>1, <1>4, <2>1 DEF Commit
<1>5. ASSUME CancelFlip(r) PROVE entries' = Resolved(r)
  BY <1>1, <1>5 DEF CancelFlip, Rollback
<1> QED
  BY <1>1, <1>2, <1>3, <1>4, <1>5
  DEF Step, Join, ReleaseUser, PullUser, SyncTeamRoster,
   ApplyRosterDelta, EditSession, UpdateSession, PromoteIfSeatFree, SeatNext, EndScan,
   NotifyPromotion, CancelSession, DissolveWaitlist, Fail, Rollback, Goto, Local

\* What the request itself holds.
LEMMA OwnHolding ==
    ASSUME TypeOK, Named, Queueing, NEW r \in Requests, Step(r), TypeOK'
    PROVE  Holding(req[r])'
<1>1. PICK q : q = req[r]
  OBVIOUS
<1>2. PICK n : n = req'[r]
  OBVIOUS
<1>3. Holding(q) /\ Filling(q) /\ Numbered /\ q \in Request /\ n \in Request
  BY <1>1, <1>2 DEF Queueing, TypeOK
<1>4. \/ n = q
      \/ Blank(n)
      \/ Proceeds(q, n)
      \/ Scans(q, n)
      \/ \E e \in Entries : Serves(r, q, n, e)
      \/ Stops(q, n)
      \/ Dissolves(r, q, n)
      \/ Tells(q, n)
  BY <1>1, <1>2, StepRequest
<1>5. q.marked \subseteq Entries /\ q.queue \subseteq Entries /\ Entries \subseteq Nat
  BY <1>3 DEF Request, Entries
<1>6. CASE Tells(q, n) /\ q.pc = "commit"
  <2>1. \A e \in n.seated : Served(e)'
    BY <1>1, <1>2, <1>3, <1>6, CommitServes DEF Tells, Holding, At
  <2> QED BY <1>2, <1>6, <2>1 DEF Tells, Holding
<1>7. CASE ~(Tells(q, n) /\ q.pc = "commit")
  <2>1. Holding(n)
    <3>1. CASE n = q
      BY <1>3, <3>1
    <3>2. CASE Blank(n)
      BY <3>2 DEF Blank, Holding
    <3>3. CASE Proceeds(q, n)
      BY <1>3, <3>3 DEF Proceeds, SamePart, Holding
    <3>4. CASE Scans(q, n)
      <4>1. q.marked = {} /\ q.seated = {} /\ n.marked = {} /\ n.seated = {} /\ n.pc = "seat"
            /\ n.gone = q.gone /\ n.queue = {e \in Entries : Waiting(e)} \ q.gone
        BY <1>3, <3>4 DEF Scans, Holding
      <4>2. ASSUME NEW f \in n.queue, NEW e \in Entries, e < f
            PROVE  e \in n.queue \cup n.gone \/ Settled(e)
        BY <1>3, <4>1, <4>2 DEF Numbered, Settled, Waiting
      <4>3. \A e \in n.queue : entries[e].status # "none"
        BY <4>1 DEF Waiting
      <4> QED BY <1>3, <4>1, <4>2, <4>3 DEF Holding
    <3>5. ASSUME NEW x \in Entries, Serves(r, q, n, x) PROVE Holding(n)
      <4>1. /\ q.pc = "seat" /\ n.pc = "seat" /\ x \in q.queue /\ \A f \in q.queue : x <= f
            /\ n.queue = q.queue \ {x} /\ n.marked = q.marked \cup {x} /\ n.gone = q.gone
            /\ n.seated \subseteq q.seated \cup {x}
        BY <3>5 DEF Serves
      <4>2. n.marked \cup n.queue = q.marked \cup q.queue
        BY <4>1
      <4>3. ASSUME NEW f \in n.marked, NEW e \in n.queue PROVE f < e
        <5>1. CASE f \in q.marked
          BY <1>3, <4>1, <5>1 DEF Holding
        <5>2. CASE f = x
          <6>1. x <= e /\ e # x
            BY <4>1
          <6>2. x \in Nat /\ e \in Nat
            BY <1>5, <4>1
          <6> QED BY <5>2, <6>1, <6>2
        <5> QED BY <4>1, <5>1, <5>2
      <4>4. n.seated \subseteq n.marked
        BY <1>3, <4>1 DEF Holding
      <4> QED BY <1>3, <4>1, <4>2, <4>3, <4>4 DEF Holding
    <3>6. CASE Stops(q, n)
      <4>1. /\ q.pc = "seat" /\ n.pc = "seat" /\ n.queue = {} /\ n.marked = q.marked
            /\ n.gone = q.gone /\ n.seated = q.seated
        BY <3>6 DEF Stops
      <4>2. ASSUME NEW f \in n.marked, NEW e \in Entries, e < f
            PROVE  e \in n.marked \cup n.gone \/ Settled(e)
        <5>1. CASE e \in q.queue
          <6>1. f < e /\ f \in Nat /\ e \in Nat
            BY <1>3, <1>5, <4>1, <5>1 DEF Holding
          <6> QED BY <4>2, <6>1
        <5>2. CASE e \notin q.queue
          BY <1>3, <4>1, <4>2, <5>2 DEF Holding
        <5> QED BY <5>1, <5>2
      <4> QED BY <1>3, <4>1, <4>2 DEF Holding
    <3>7. CASE Dissolves(r, q, n)
      BY <1>3, <3>7 DEF Dissolves, Holding
    <3>8. CASE Tells(q, n) /\ q.pc = "notify"
      BY <1>3, <3>8 DEF Tells, Holding
    <3> QED BY <1>4, <1>7, <3>1, <3>2, <3>3, <3>4, <3>5, <3>6, <3>7, <3>8 DEF Tells
  <2>2. \A e \in n.gone : Waiting(e)'
    <3> SUFFICES ASSUME NEW e \in n.gone, ~(entries'[e].status = "waiting") PROVE FALSE
      BY DEF Waiting
    <3>1. e \in Entries /\ entries[e].status = "waiting"
      BY <1>3, <2>1 DEF Request, Holding, Waiting
    <3>2. Becomes(r, e) /\ entries'[e] # entries[e]
      BY <3>1, StepEntries
    <3>3. CASE Ended(r)
      BY <1>2, <3>3, IdleIs DEF Ended, Idle
    <3>4. CASE At(r, "idle") /\ req' = req
      BY <1>1, <1>2, <1>3, <3>4 DEF At, Holding
    <3> QED BY <3>2, <3>3, <3>4 DEF Becomes
  <2>3. Holding(req[r])
    BY <1>1, <1>3
  <2>4. Holding(n)'
    BY <1>3, <2>1, <2>2, <2>3, HoldingKept
  <2> QED BY <1>2, <2>4 DEF Holding
<1> QED BY <1>6, <1>7

\* The seats that are left.
LEMMA OwnFilling ==
    ASSUME TypeOK, Named, Queueing, NEW r \in Requests, Step(r), TypeOK'
    PROVE  Filling(req[r])'
<1>1. PICK q : q = req[r]
  OBVIOUS
<1>2. PICK n : n = req'[r]
  OBVIOUS
<1>3. Holding(q) /\ Filling(q) /\ q \in Request /\ n \in Request
  BY <1>1, <1>2 DEF Queueing, TypeOK
<1>4. \/ n = q
      \/ Blank(n)
      \/ Proceeds(q, n)
      \/ Scans(q, n)
      \/ \E e \in Entries : Serves(r, q, n, e)
      \/ Stops(q, n)
      \/ Dissolves(r, q, n)
      \/ Tells(q, n)
  BY <1>1, <1>2, StepRequest
<1>5. /\ q.free \in Nat /\ q.mine.cap \in Nat
      /\ Cardinality(q.mine.roster) \in Nat /\ Cardinality(Users(q.mine.roster)) \in Nat
      /\ Cardinality(Users(q.mine.roster)) <= Cardinality(q.mine.roster)
  BY <1>3, UsersOfRoster DEF Request, Session
<1>6. Filling(n)
  <2>1. CASE n = q
    BY <1>3, <2>1
  <2>2. CASE Blank(n)
    BY <2>2 DEF Blank, Filling
  <2>3. CASE Proceeds(q, n)
    <3>1. CASE q.pc \in {"delta", "update", "promote"}
      <4>1. q.saw = {}
        BY <1>3, <3>1 DEF Holding
      <4> QED BY <2>3, <3>1, <4>1 DEF Proceeds, SamePart, Filling
    <3>2. CASE q.pc = "seat"
      <4>1. /\ n.saw = q.saw /\ n.marked = q.marked /\ n.mine = q.mine /\ n.pc = "commit"
            /\ q.queue = {} \/ q.free = 0
        BY <2>3, <3>2 DEF Proceeds, SamePart
      <4>2. q.free = 0 => Cardinality(q.mine.roster) >= q.mine.cap
        BY <1>3, <1>5, <3>2 DEF Filling
      <4>3. q.saw \ q.marked \subseteq q.queue \/ Cardinality(q.mine.roster) >= q.mine.cap
        BY <1>3, <3>2 DEF Filling
      <4>4. q.saw \ q.marked = {} \/ Cardinality(q.mine.roster) >= q.mine.cap
        BY <4>1, <4>2, <4>3
      <4> QED BY <4>1, <4>4 DEF Filling
    <3> QED BY <2>3, <3>1, <3>2 DEF Proceeds
  <2>4. CASE Scans(q, n)
    <3>1. /\ n.pc = "seat" /\ n.mine = q.mine /\ n.saw = n.queue /\ n.free \in Nat
          /\ Cardinality(Users(q.mine.roster)) + n.free = q.mine.cap
      BY <2>4 DEF Scans
    <3> QED BY <1>5, <3>1 DEF Filling
  <2>5. ASSUME NEW e \in Entries, Serves(r, q, n, e) PROVE Filling(n)
    <3>1. /\ q.pc = "seat" /\ n.pc = "seat" /\ n.queue = q.queue \ {e}
          /\ n.marked = q.marked \cup {e} /\ n.saw = q.saw /\ n.mine.cap = q.mine.cap
      BY <2>5 DEF Serves
    <3>2. /\ Cardinality(Users(q.mine.roster)) + q.free >= q.mine.cap
          /\ q.saw \ q.marked \subseteq q.queue \/ Cardinality(q.mine.roster) >= q.mine.cap
      BY <1>3, <3>1 DEF Filling
    <3>3. CASE n.mine = q.mine /\ n.free = q.free
      BY <3>1, <3>2, <3>3 DEF Filling
    <3>4. CASE ~(n.mine = q.mine /\ n.free = q.free)
      <4>1. /\ n.free = q.free - 1
            /\ Cardinality(Users(n.mine.roster)) = Cardinality(Users(q.mine.roster)) + 1
            /\ Cardinality(q.mine.roster) < q.mine.cap
        BY <2>5, <3>4 DEF Serves
      <4>2. n.saw \ n.marked \subseteq n.queue
        BY <1>5, <3>1, <3>2, <4>1
      <4>3. Cardinality(Users(n.mine.roster)) + n.free >= n.mine.cap
        BY <1>5, <3>1, <3>2, <4>1
      <4> QED BY <3>1, <4>2, <4>3 DEF Filling
    <3> QED BY <3>3, <3>4
  <2>6. CASE Stops(q, n)
    <3>1. /\ q.pc = "seat" /\ n.pc = "seat" /\ n.mine = q.mine /\ n.free = q.free
          /\ Cardinality(q.mine.roster) >= q.mine.cap
      BY <2>6 DEF Stops
    <3> QED BY <1>3, <3>1 DEF Filling
  <2>7. CASE Dissolves(r, q, n)
    <3>1. n.saw = {} /\ n.pc # "seat"
      BY <1>3, <2>7 DEF Dissolves, Holding
    <3> QED BY <3>1 DEF Filling
  <2>8. CASE Tells(q, n)
    BY <2>8 DEF Tells, Filling
  <2> QED BY <1>4, <2>1, <2>2, <2>3, <2>4, <2>5, <2>6, <2>7, <2>8
<1> QED BY <1>2, <1>6 DEF Filling
\* Nobody writes an entry that another transaction has written.
LEMMA ApartStep ==
    ASSUME TypeOK, Named, Queueing, NEW r \in Requests, Step(r)
    PROVE  Apart'
<1>1. PICK q : q = req[r]
  OBVIOUS
<1>2. PICK n : n = req'[r]
  OBVIOUS
<1>3. /\ \A e \in n.gone : e \in q.gone \/ e \notin HeldByOthers(r)
      /\ \A e \in n.marked : e \in q.marked \/ e \notin HeldByOthers(r)
  <2>1. \/ n = q
        \/ Blank(n)
        \/ Proceeds(q, n)
        \/ Scans(q, n)
        \/ \E e \in Entries : Serves(r, q, n, e)
        \/ Stops(q, n)
        \/ Dissolves(r, q, n)
        \/ Tells(q, n)
    BY <1>1, <1>2, StepRequest
  <2>2. CASE Blank(n)
    BY <2>2 DEF Blank
  <2>3. CASE Proceeds(q, n)
    BY <2>3 DEF Proceeds, SamePart
  <2>4. CASE Scans(q, n)
    BY <2>4 DEF Scans
  <2>5. CASE \E e \in Entries : Serves(r, q, n, e)
    <3>1. PICK e \in Entries : Serves(r, q, n, e)
      BY <2>5
    <3>2. e \notin HeldByOthers(r) /\ n.marked = q.marked \cup {e} /\ n.gone = q.gone
      BY <3>1 DEF Serves
    <3> QED BY <3>2
  <2>6. CASE Stops(q, n)
    BY <2>6 DEF Stops
  <2>7. CASE Dissolves(r, q, n)
    BY <2>7 DEF Dissolves
  <2>8. CASE Tells(q, n)
    BY <2>8 DEF Tells
  <2> QED BY <2>1, <2>2, <2>3, <2>4, <2>5, <2>6, <2>7, <2>8
<1>4. ASSUME NEW p \in Requests, p # r
      PROVE  /\ req'[p] = req[p]
             /\ req[p].marked \cup req[p].gone \subseteq HeldByOthers(r)
             /\ n.gone \cap (req[p].marked \cup req[p].gone) = {}
             /\ req[p].gone \cap (n.marked \cup n.gone) = {}
  <2>1. req'[p] = req[p] /\ req[p].marked \cup req[p].gone \subseteq HeldByOthers(r)
    BY <1>4, OthersKept DEF HeldByOthers
  <2>2. /\ q.gone \cap (req[p].marked \cup req[p].gone) = {}
        /\ req[p].gone \cap (q.marked \cup q.gone) = {}
    BY <1>1, <1>4 DEF Queueing, Apart
  <2> QED BY <1>3, <2>1, <2>2
<1>5. ASSUME NEW a \in Requests, NEW p \in Requests, p # a
      PROVE  req'[a].gone \cap (req'[p].marked \cup req'[p].gone) = {}
  <2>1. CASE a = r
    BY <1>2, <1>4, <1>5, <2>1
  <2>2. CASE p = r
    BY <1>2, <1>4, <1>5, <2>2
  <2>3. CASE a # r /\ p # r
    BY <1>4, <1>5, <2>3 DEF Queueing, Apart
  <2> QED BY <2>1, <2>2, <2>3
<1> QED BY <1>5 DEF Apart

\* Entries keep being born in order.
LEMMA NumberedStep ==
    ASSUME TypeOK, Queueing, NEW r \in Requests, Step(r)
    PROVE  Numbered'
<1>1. SUFFICES ASSUME NEW e \in Entries, NEW f \in Entries, e < f,
                      entries'[e].status = "none"
               PROVE  entries'[f].status = "none"
  BY DEF Numbered
<1>2. Holding(req[r]) /\ Numbered
  BY DEF Queueing
<1>3. entries[e].status = "none"
  BY <1>1, <1>2, Ageing
<1>4. entries[f].status = "none"
  BY <1>1, <1>2, <1>3 DEF Numbered
<1>5. Becomes(r, f) /\ f \notin req[r].marked \cup req[r].gone
  BY <1>2, <1>4, StepEntries DEF Holding, Waiting
<1> QED BY <1>1, <1>3, <1>4, <1>5 DEF Becomes, Waiting

\* Whoever is told of a seat has it.
LEMMA ToldStep ==
    ASSUME TypeOK, Named, Queueing, NEW r \in Requests, Step(r)
    PROVE  ToldOnceSeated'
<1>1. Holding(req[r]) /\ told \subseteq Entries /\ req[r] \in Request
  BY DEF Queueing, TypeOK
<1>2. \A e \in told : Served(e)
  BY DEF Queueing, ToldOnceSeated, Served
<1>3. ASSUME NEW e \in told' \ told PROVE e \in Entries /\ Served(e)
  <2>1. NotifyPromotion(r)
    BY <1>3
    DEF Step, Join, CreateEntry, Leave, ReleaseUser, PullUser, SyncTeamRoster, ApplyRosterDelta,
     EditSession, UpdateSession, PromoteIfSeatFree, SeatNext, EndScan, Commit, CancelSession,
     DissolveWaitlist, CancelFlip, Fail, Rollback, Goto, Local
  <2>2. PICK S : S = req[r].seated
    OBVIOUS
  <2>3. e = Oldest(S) /\ req[r].pc = "notify"
    BY <1>3, <2>1, <2>2 DEF NotifyPromotion, At
  <2>4. S # {} /\ S \in SUBSET Entries
    BY <1>1, <2>2, <2>3 DEF Named, At, Request
  <2>5. e \in S
    BY <2>3, <2>4, OldestIs
  <2> QED BY <1>1, <2>2, <2>3, <2>4, <2>5 DEF Holding
<1>4. \A e \in told' : e \in Entries /\ Served(e)
  BY <1>1, <1>2, <1>3
<1>5. \A e \in told' : Served(e)'
  BY <1>1, <1>4, Ageing
<1> QED BY <1>5 DEF ToldOnceSeated, Served

\* All of it, step by step.
Inv == TypeOK /\ Named /\ Queueing

\* A step keeps what the queue's order rests on.
LEMMA InvStep ==
    ASSUME Inv, [Next]_vars
    PROVE  Inv'
<1>1. CASE UNCHANGED vars
  BY <1>1 DEF Inv, vars, TypeOK, Named, Queueing, Numbered, Apart, Holding, Filling,
              ToldOnceSeated, Served, Settled, Waiting, At
<1>2. ASSUME NEW r \in Requests, Step(r) PROVE Inv'
  <2>1. TypeOK /\ Named /\ Queueing
    BY DEF Inv
  <2>2. TypeOK' /\ Named'
    BY <1>2, <2>1, StepTyped, NamedStep
  <2>3. Numbered' /\ Apart' /\ ToldOnceSeated'
    BY <1>2, <2>1, NumberedStep, ApartStep, ToldStep
  <2>4. \A p \in Requests : Holding(req[p])' /\ Filling(req[p])'
    <3> TAKE p \in Requests
    <3>1. CASE p = r
      <4>1. Holding(req[r])' /\ Filling(req[r])'
        BY <1>2, <2>1, <2>2, OwnHolding, OwnFilling
      <4> QED BY <3>1, <4>1
    <3>2. CASE p # r
      BY <1>2, <2>1, <3>2, OthersHolding
    <3> QED BY <3>1, <3>2
  <2> QED BY <2>2, <2>3, <2>4 DEF Inv, Queueing
<1> QED BY <1>1, <1>2 DEF Next

\* At the start nobody waits and no request runs.
LEMMA InvInit ==
    ASSUME Init
    PROVE  Inv
<1>1. \A e \in Entries : entries[e] = NoEntry /\ NoEntry.status = "none" /\ NoEntry \in Entry
  BY DEF Init, NoEntry, Entry, Teams
<1>2. \A r \in Requests : req[r] = Idle
  BY DEF Init
<1>3. session \in Session
  <2>1. PICK R \in InitRosters :
           session = [status |-> "scheduled", roster |-> AsRoster(R), cap |-> InitCap, team |-> 0]
    BY DEF Init
  <2>2. AsRoster(R) \in Roster
    BY WaitlistAssumption, TeamAsRoster
  <2> QED BY <2>1, <2>2, WaitlistAssumption DEF Session, Teams
<1>4. TypeOK
  BY <1>1, <1>2, <1>3, IdleIs, WaitlistAssumption DEF Init, TypeOK
<1>5. Named
  BY <1>1, <1>2, IdleIs DEF Named, At
<1>6. \A r \in Requests : Holding(Idle) /\ Filling(Idle)
  BY IdleIs DEF Holding, Filling
<1>7. Queueing
  BY <1>1, <1>2, <1>6, IdleIs DEF Init, Queueing, Numbered, Apart, ToldOnceSeated
<1> QED BY <1>4, <1>5, <1>7 DEF Inv

-----------------------------------------------------------------------------
(* Theorems.                                                               *)

\* The invariant the theorems rest on.
LEMMA Invariant == Spec => []Inv
<1>1. Init => Inv
  BY InvInit
<1>2. Inv /\ [Next]_vars => Inv'
  BY InvStep
<1> QED BY <1>1, <1>2, PTL DEF Spec

\* Every row, lock and request has its type.
THEOREM Typing == Spec => []TypeOK
<1>1. Inv => TypeOK
  BY DEF Inv
<1> QED BY <1>1, Invariant, PTL

\* A promotion that read a queue leaves none of it unserved while a seat is free,
\* whichever of its heads were stale (promoteIfSeatFree).
THEOREM SeatsFilled == Spec => []SeatsAreFilled
<1>1. ASSUME Inv PROVE SeatsAreFilled
  <2> SUFFICES ASSUME NEW r \in Requests, At(r, "commit"), req[r].saw \ req[r].marked # {}
               PROVE  Enrolled(req[r].mine) >= req[r].mine.cap
    BY DEF SeatsAreFilled
  <2> QED BY <1>1 DEF Inv, Queueing, Filling, At, Enrolled
<1> QED BY <1>1, Invariant, PTL

\* A learner is emailed only about a promotion that was committed
\* (notifyPromotions runs after the transaction).
THEOREM ToldSeated == Spec => []ToldOnceSeated
<1>1. Inv => ToldOnceSeated
  BY DEF Inv, Queueing
<1> QED BY <1>1, Invariant, PTL

\* Nobody is promoted past an older entry that still waits, also when several
\* transactions promote from one queue (promoteIfSeatFree, markEntryPromoted).
THEOREM InOrder == Spec => FirstInFirstOut
<1> DEFINE Step1 == \A e, f \in Entries :
                       e < f /\ Promoted(f) => entries'[e].status # "waiting"
<1>1. ASSUME Inv, [Next]_vars PROVE [Step1]_vars
  <2> SUFFICES ASSUME NEW r \in Requests, Step(r), NEW e \in Entries, NEW f \in Entries,
                      e < f, Promoted(f)
               PROVE  entries'[e].status # "waiting"
    BY <1>1 DEF Next
  <2>1. TypeOK /\ Holding(req[r])
    BY <1>1 DEF Inv, Queueing
  <2>2. entries' = Resolved(r)
    BY <2>1, PromotionResolves
  <2>3. f \in req[r].marked
    <3>1. Resolved(r)[f].status = "promoted" /\ entries[f].status # "promoted"
      BY <2>2 DEF Promoted
    <3> QED BY <2>1, <3>1, Resolves
  <2>4. CASE e \in req[r].marked
    BY <2>1, <2>2, <2>4, Resolves
  <2>5. CASE e \in req[r].gone /\ e \notin req[r].marked
    BY <2>1, <2>2, <2>5, Resolves
  <2>6. CASE e \in req[r].queue
    <3>1. f < e /\ e \in Nat /\ f \in Nat
      BY <2>1, <2>3, <2>6 DEF Holding, Entries
    <3> QED BY <3>1
  <2>7. CASE Settled(e)
    BY <2>1, <2>7, Ageing DEF Settled
  <2>8. e \in req[r].marked \cup req[r].queue \cup req[r].gone \/ Settled(e)
    BY <2>1, <2>3 DEF Holding
  <2> QED BY <2>4, <2>5, <2>6, <2>7, <2>8
<1> QED BY <1>1, Invariant, PTL DEF Spec, FirstInFirstOut
-----------------------------------------------------------------------------
(* The capacity. WaitlistOverfill.cfg and WaitlistLowered.cfg show the cap *)
(* exceeded by a team edit that adds and by an edit that lowers it; without *)
(* these two, whatever else interleaves keeps to it.                       *)

\* Edits write one capacity, no lower than the first.
Raised == \A k \in Caps, m \in Caps : InitCap <= k /\ k = m

\* Team edits only remove.
NoAdds == \A U \in Adds : U = {}

SeatCaps == {InitCap} \cup Caps

WithinCap(S) == Cardinality(S.roster) <= S.cap

\* The version of the row that a request holds keeps to its capacity, which is not
\* below the committed one.
Holds(r, q) ==
    rowLock = r =>
       /\ q.pc \in {"dissolve", "promote", "seat", "commit", "flip"}
       /\ WithinCap(q.mine)
       /\ q.mine.cap \in SeatCaps
       /\ session.cap <= q.mine.cap

\* What a request is about to write fits the row as it is by now.
Plans(q) ==
    /\ q.add = {}
    /\ q.pc = "update" /\ q.reassign =>
          Cardinality(AsRoster(q.members)) <= IF q.cap = Keep THEN session.cap ELSE q.cap

Seating ==
    /\ WithinCap(session)
    /\ session.cap \in SeatCaps
    /\ \A r \in Requests : Holds(r, req[r]) /\ Plans(req[r])

\* The row a step leaves, and who may still count on the row he knew.
RowKept(r) ==
    /\ WithinCap(session)'
    /\ session'.cap \in SeatCaps
    /\ session.cap <= session'.cap
    /\ \A p \in Requests \ {r} : rowLock' = p => rowLock = p /\ session' = session

\* What a step leaves of the row, and of its request's version of it.
LEMMA SeatingOwn ==
    ASSUME Raised, NoAdds, TypeOK, Named, Seating, NEW r \in Requests, Step(r),
           NEW q, q = req[r], NEW n, n = req'[r]
    PROVE  RowKept(r) /\ Holds(r, n)' /\ Plans(n)'
<1> DEFINE Own == Holds(r, n)' /\ Plans(n)'
           Goal == RowKept(r) /\ Own
<1>1. /\ q \in Request /\ session \in Session /\ q.mine \in Session
      /\ WithinCap(session) /\ session.cap \in SeatCaps
      /\ Holds(r, q) /\ Plans(q) /\ SeatCaps \subseteq Nat /\ r # Null
      /\ \A local : req' = [req EXCEPT ![r] = local] => n = local
      /\ \A local : Local(r, local) => n = local
  BY WaitlistAssumption DEF TypeOK, Seating, Request, Local, SeatCaps
<1>2. session.cap \in Nat /\ q.mine.cap \in Nat /\ session.roster \in Roster
      /\ Cardinality(session.roster) \in Nat
  BY <1>1, UsersOfRoster DEF Session
<1>3. ASSUME UNCHANGED session, rowLock' \in {rowLock, Null, r} PROVE RowKept(r)
  BY <1>1, <1>2, <1>3, WaitlistAssumption DEF RowKept, WithinCap
<1>4. ASSUME ReleaseLocks(r) PROVE rowLock' \in {rowLock, Null} /\ rowLock' # r
  BY <1>1, <1>4 DEF ReleaseLocks
<1>5. ASSUME n = Idle, rowLock' # r PROVE Own
  BY <1>5, IdleIs DEF Holds, Plans
<1>6. ASSUME Rollback(r) PROVE Goal
  <2>1. UNCHANGED session /\ ReleaseLocks(r) /\ n = Idle
    BY <1>1, <1>6 DEF Rollback
  <2> QED BY <1>3, <1>4, <1>5, <2>1
<1>7. q.pc \notin {"dissolve", "promote", "seat", "commit", "flip"} => rowLock # r
  BY <1>1 DEF Holds
\* A request that begins, without the row.
<1>8. ASSUME UNCHANGED <<session, rowLock>>, q.pc = "idle", n.add = {},
             n.pc = "update" /\ n.reassign =>
                Cardinality(AsRoster(n.members)) <= IF n.cap = Keep THEN session.cap ELSE n.cap
      PROVE  Goal
  <2>1. rowLock # r
    BY <1>7, <1>8
  <2>2. Own
    BY <1>8, <2>1 DEF Holds, Plans
  <2> QED BY <1>3, <1>8, <2>2
\* A request that goes on with the version it has.
<1>9. ASSUME UNCHANGED <<session, rowLock>>, n.add = q.add, n.mine = q.mine,
             n.pc \in {"dissolve", "promote", "seat", "commit", "flip"}
      PROVE  Goal
  <2>1. Own
    BY <1>1, <1>9 DEF Holds, Plans, WithinCap
  <2> QED BY <1>3, <1>9, <2>1
\* A request that takes the row.
<1>10. ASSUME UNCHANGED session, rowLock' = r, n.add = q.add,
              n.pc \in {"dissolve", "promote", "commit"},
              WithinCap(n.mine), n.mine.cap \in SeatCaps, session.cap <= n.mine.cap
       PROVE  Goal
  <2>1. Own
    BY <1>1, <1>10 DEF Holds, Plans, WithinCap
  <2> QED BY <1>3, <1>10, <2>1
<1>11. ASSUME Join(r) PROVE Goal
  <2>1. PICK l \in Learners : n = [Idle EXCEPT !.pc = "createEntry", !.op = "join",
                                               !.learner = l, !.team = session.team]
    BY <1>1, <1>11 DEF Join
  <2>2. n.add = {} /\ n.pc = "createEntry"
    BY <2>1 DEF Idle
  <2>3. UNCHANGED <<session, rowLock>> /\ q.pc = "idle"
    BY <1>11 DEF Join, Local, Begin, At
  <2> QED BY <1>8, <2>2, <2>3
<1>12. ASSUME CreateEntry(r) PROVE Goal
  <2>1. CASE Rollback(r)
    BY <1>6, <2>1
  <2>2. CASE ~Rollback(r)
    <3>1. UNCHANGED <<session, rowLock>> /\ n = Idle /\ q.pc = "createEntry"
      BY <1>1, <1>12, <2>2 DEF CreateEntry, At
    <3> QED BY <1>3, <1>5, <1>7, <3>1
  <2> QED BY <2>1, <2>2
<1>13. ASSUME Leave(r) PROVE Goal
  <2>1. UNCHANGED <<session, rowLock>> /\ n = q /\ q.pc = "idle"
    BY <1>13 DEF Leave, Begin, At
  <2> QED BY <1>1, <1>8, <2>1 DEF Plans
<1>14. ASSUME ReleaseUser(r) PROVE Goal
  <2>1. \E l : n = [Idle EXCEPT !.pc = "delta", !.op = "drop", !.out = {l}]
    BY <1>1, <1>14 DEF ReleaseUser
  <2>2. n.add = {} /\ n.pc = "delta"
    BY <2>1 DEF Idle
  <2>3. UNCHANGED <<session, rowLock>> /\ q.pc = "idle"
    BY <1>14 DEF ReleaseUser, Local, Begin, At
  <2> QED BY <1>8, <2>2, <2>3
<1>15. ASSUME PullUser(r) PROVE Goal
  <2>1. PICK l : session' = [session EXCEPT !.roster = Without(session.roster, {l})]
    BY <1>15 DEF PullUser
  <2>2. rowLock = Null /\ UNCHANGED rowLock /\ n = q /\ q.pc = "idle"
    BY <1>15 DEF PullUser, Begin, At
  <2>3. session'.cap = session.cap /\ session'.roster = Without(session.roster, {l})
    BY <1>1, <2>1 DEF Session
  <2>4. Without(session.roster, {l}) \in Roster
        /\ Cardinality(Without(session.roster, {l})) <= Cardinality(session.roster)
    BY <1>2, RosterWithout
  <2>5. Cardinality(Without(session.roster, {l})) \in Nat
    BY <2>4, UsersOfRoster
  <2>6. WithinCap(session)'
    BY <1>1, <1>2, <2>3, <2>4, <2>5 DEF WithinCap
  <2>7. RowKept(r)
    BY <1>1, <1>2, <2>2, <2>3, <2>6, WaitlistAssumption DEF RowKept
  <2>8. Own
    BY <1>1, <2>2 DEF Holds, Plans
  <2> QED BY <2>7, <2>8
<1>16. ASSUME SyncTeamRoster(r) PROVE Goal
  <2>1. UNCHANGED <<session, rowLock>> /\ q.pc = "idle"
    BY <1>16 DEF SyncTeamRoster, Begin, At
  <2>2. n.add = {} /\ n.pc # "update"
    <3>1. PICK t \in Teams, U \in Outs, W \in Adds :
             LET enrolled == Users(session.roster)
                 ours     == session.status = "scheduled" /\ session.team = t
                 toRemove == IF ours THEN U \cap enrolled ELSE {}
                 toAdd    == IF ours THEN W \ enrolled ELSE {}
             IN  req' = [req EXCEPT ![r] =
                         [Idle EXCEPT !.pc = IF toRemove \cup toAdd = {} THEN "commit"
                                             ELSE "delta",
                                      !.op = "team", !.team = t,
                                      !.out = toRemove, !.add = toAdd,
                                      !.members = (members[t] \ U) \cup W]]
      BY <1>16 DEF SyncTeamRoster
    <3> DEFINE enrolled == Users(session.roster)
               ours     == session.status = "scheduled" /\ session.team = t
               toRemove == IF ours THEN U \cap enrolled ELSE {}
               toAdd    == IF ours THEN W \ enrolled ELSE {}
               label    == IF toRemove \cup toAdd = {} THEN "commit" ELSE "delta"
               left     == (members[t] \ U) \cup W
    <3>2. req' = [req EXCEPT ![r] =
                    [Idle EXCEPT !.pc = label, !.op = "team", !.team = t, !.out = toRemove,
                                 !.add = toAdd, !.members = left]]
      BY <3>1
    <3>3. toAdd = {} /\ label \in {"commit", "delta"}
      BY DEF NoAdds
    <3> HIDE DEF toRemove, toAdd, label, left
    <3>4. n = [Idle EXCEPT !.pc = label, !.op = "team", !.team = t, !.out = toRemove,
                           !.add = toAdd, !.members = left]
      BY <1>1, <3>2
    <3>5. ASSUME NEW pc \in {"commit", "delta"}, NEW out, NEW m,
                 n = [Idle EXCEPT !.pc = pc, !.op = "team", !.team = t, !.out = out, !.add = {},
                                  !.members = m]
          PROVE  n.add = {} /\ n.pc # "update"
      BY <3>5 DEF Idle
    <3> QED BY <3>3, <3>4, <3>5
  <2> QED BY <1>8, <2>1, <2>2
<1>17. ASSUME ApplyRosterDelta(r) PROVE Goal
  <2>1. CASE Goto(r, "commit")
    <3>1. n = [q EXCEPT !.pc = "commit"] /\ UNCHANGED <<session, rowLock>>
      BY <1>1, <2>1 DEF Goto, Local
    <3>2. n.add = q.add /\ n.mine = q.mine /\ n.pc = "commit"
      BY <1>1, <3>1 DEF Request
    <3> QED BY <1>9, <3>1, <3>2
  <2>2. CASE ~Goto(r, "commit")
    <3>1. PICK R : R = AppendedAll(Without(session.roster, q.out), q.add)
      OBVIOUS
    <3>2. PICK m : m = [session EXCEPT !.roster = R]
      OBVIOUS
    <3>3. PICK pc \in {"commit", "promote"} : n = [q EXCEPT !.pc = pc, !.mine = m]
      BY <1>1, <1>17, <2>2, <3>1, <3>2 DEF ApplyRosterDelta
    <3>4. rowLock' = r /\ UNCHANGED session
      BY <1>17, <2>2 DEF ApplyRosterDelta
    <3>5. R = Without(session.roster, q.out)
      <4>1. q.add = {} /\ {} \in SUBSET Learners
        BY <1>1 DEF Plans
      <4>2. Without(session.roster, q.out) \in Roster
        BY <1>2, RosterWithout
      <4> QED BY <3>1, <4>1, <4>2, RosterAppendedAll
    <3>6. Cardinality(R) <= Cardinality(session.roster) /\ R \in Roster
      BY <1>2, <3>5, RosterWithout
    <3>7. Cardinality(R) \in Nat
      BY <3>6, UsersOfRoster
    <3>8. m.cap = session.cap /\ m.roster = R
      BY <1>1, <3>2 DEF Session
    <3>9. WithinCap(m)
      BY <1>1, <1>2, <3>6, <3>7, <3>8 DEF WithinCap
    <3>10. n.add = q.add /\ n.mine = m /\ n.pc = pc
      BY <1>1, <3>3 DEF Request
    <3> QED BY <1>1, <1>2, <1>10, <3>3, <3>4, <3>8, <3>9, <3>10
  <2> QED BY <2>1, <2>2
<1>18. ASSUME EditSession(r) PROVE Goal
  <2>1. PICK c \in Caps \cup {Keep}, reassign \in BOOLEAN :
           /\ EditFits(IF c = Keep THEN session.cap ELSE c,
                       IF reassign THEN AsRoster(members[1]) ELSE session.roster)
           /\ Local(r, [Idle EXCEPT !.pc = "update", !.op = "edit", !.cap = c,
                                    !.reassign = reassign, !.members = members[1]])
    BY <1>18 DEF EditSession
  <2>2. PICK m : m = members[1]
    OBVIOUS
  <2>3. n = [Idle EXCEPT !.pc = "update", !.op = "edit", !.cap = c,
                         !.reassign = reassign, !.members = m]
    BY <1>1, <2>1, <2>2
  <2>4. n.add = {} /\ n.cap = c /\ n.reassign = reassign /\ n.members = m
    BY <2>3 DEF Idle
  <2>5. reassign => Cardinality(AsRoster(m)) <= IF c = Keep THEN session.cap ELSE c
    BY <2>1, <2>2 DEF EditFits
  <2>6. UNCHANGED <<session, rowLock>> /\ q.pc = "idle"
    BY <1>18, <2>1 DEF EditSession, Local, Begin, At
  <2> QED BY <1>8, <2>4, <2>5, <2>6
<1>19. ASSUME UpdateSession(r) PROVE Goal
  <2>1. CASE Rollback(r)
    BY <1>6, <2>1
  <2>2. CASE ~Rollback(r)
    <3>1. PICK S : S = Capped(r)
      OBVIOUS
    <3>2. PICK R : R = AsRoster(q.members)
      OBVIOUS
    <3>3. PICK m : m = IF q.reassign THEN [S EXCEPT !.roster = R, !.team = 1] ELSE S
      OBVIOUS
    <3>4. rowLock' = r /\ UNCHANGED session /\ q.pc = "update"
          /\ \E pc \in {"dissolve", "promote"} : n = [q EXCEPT !.pc = pc, !.mine = m]
      BY <1>1, <1>19, <2>2, <3>1, <3>2, <3>3 DEF UpdateSession, At
    <3>5. n.add = q.add /\ n.mine = m /\ n.pc \in {"dissolve", "promote"}
      BY <1>1, <3>4 DEF Request
    <3>6. /\ S.roster = session.roster /\ S \in Session
          /\ S.cap = IF q.cap = Keep THEN session.cap ELSE q.cap
      BY <1>1, <3>1, WaitlistAssumption DEF Capped, Session, Request
    <3>7. S.cap \in SeatCaps /\ session.cap <= S.cap
      <4>1. CASE q.cap = Keep
        BY <1>1, <1>2, <3>6, <4>1
      <4>2. CASE q.cap # Keep
        <5>1. q.cap \in Caps /\ session.cap \in {InitCap} \cup Caps
          BY <1>1, <4>2 DEF Request, SeatCaps
        <5>2. q.cap \in Nat /\ InitCap <= q.cap
          BY <5>1, WaitlistAssumption DEF Raised
        <5>3. session.cap = InitCap \/ session.cap = q.cap
          BY <5>1 DEF Raised
        <5> QED BY <3>6, <4>2, <5>1, <5>2, <5>3 DEF SeatCaps
      <4> QED BY <4>1, <4>2
    <3>8. m.cap = S.cap
      BY <3>3, <3>6 DEF Session
    <3>9. WithinCap(m)
      <4>1. CASE q.reassign
        <5>1. m.roster = R
          BY <3>3, <3>6, <4>1 DEF Session
        <5>2. Cardinality(R) <= S.cap
          BY <1>1, <3>2, <3>4, <3>6, <4>1 DEF Plans
        <5> QED BY <3>8, <5>1, <5>2 DEF WithinCap
      <4>2. CASE ~q.reassign
        <5>1. m.roster = session.roster
          BY <3>3, <3>6, <4>2
        <5>2. S.cap \in Nat
          BY <1>1, <3>7
        <5>3. Cardinality(session.roster) <= session.cap
          BY <1>1 DEF WithinCap
        <5>4. Cardinality(session.roster) <= S.cap
          BY <1>2, <3>7, <5>2, <5>3
        <5> QED BY <3>8, <5>1, <5>4 DEF WithinCap
      <4> QED BY <4>1, <4>2
    <3> QED BY <1>10, <3>4, <3>5, <3>7, <3>8, <3>9
  <2> QED BY <2>1, <2>2
<1>20. ASSUME PromoteIfSeatFree(r) PROVE Goal
  <2>1. UNCHANGED <<session, rowLock>>
    BY <1>20 DEF PromoteIfSeatFree, Goto, Local
  <2>2. \/ n = [q EXCEPT !.pc = "commit"]
        \/ \E f, w : n = [q EXCEPT !.pc = "seat", !.free = f, !.queue = w, !.saw = w]
    BY <1>1, <1>20 DEF PromoteIfSeatFree, Goto
  <2>3. n.add = q.add /\ n.mine = q.mine /\ n.pc \in {"commit", "seat"}
    BY <1>1, <2>2 DEF Request
  <2> QED BY <1>9, <2>1, <2>3
<1>21. ASSUME SeatNext(r) PROVE Goal
  <2>1. UNCHANGED <<session, rowLock>> /\ q.pc = "seat"
    BY <1>21 DEF SeatNext, Local, At
  <2>2. PICK e : e = NextWaiter(r)
    OBVIOUS
  <2>3. q.queue # {} /\ q.queue \in SUBSET Entries
    BY <1>1, <1>21 DEF SeatNext, ScanEnds, Request
  <2>4. e \in Entries /\ e \in q.queue
    BY <2>2, <2>3, OldestIs, <1>1 DEF NextWaiter
  <2>5. \/ n = StaleHead(r, e)
        \/ SeatsIfRoom(q.mine) /\ n = SeatWaiter(r, e)
        \/ n = NoMoreSeats(r)
    BY <1>1, <1>21, <2>2 DEF SeatNext
  <2>6. CASE n = StaleHead(r, e) \/ n = NoMoreSeats(r)
    <3>1. n.add = q.add /\ n.mine = q.mine /\ n.pc = q.pc
      BY <1>1, <2>6 DEF StaleHead, NoMoreSeats, Request
    <3> QED BY <1>9, <2>1, <3>1
  <2>7. CASE SeatsIfRoom(q.mine) /\ n = SeatWaiter(r, e)
    <3>1. PICK R : R = Appended(q.mine.roster, entries[e].user)
      OBVIOUS
    <3>2. PICK m : m = [q.mine EXCEPT !.roster = R]
      OBVIOUS
    <3>3. n = [q EXCEPT !.mine = m, !.free = q.free - 1, !.queue = q.queue \ {e},
                        !.marked = q.marked \cup {e}, !.seated = q.seated \cup {e}]
      BY <1>1, <2>7, <3>1, <3>2 DEF SeatWaiter
    <3>4. n.add = q.add /\ n.mine = m /\ n.pc = "seat"
      BY <1>1, <2>1, <3>3 DEF Request
    <3>5. m.cap = q.mine.cap /\ m.roster = R /\ q.mine.roster \in Roster
      BY <1>1, <3>2 DEF Session
    <3>6. entries[e].user \in Learners
      BY <1>1, <2>4 DEF Named
    <3>7. R \in Roster /\ Cardinality(R) <= Cardinality(q.mine.roster) + 1
      BY <3>1, <3>5, <3>6, RosterAppended
    <3>8. Cardinality(R) \in Nat /\ Cardinality(q.mine.roster) \in Nat
      BY <3>5, <3>7, UsersOfRoster
    <3>9. Cardinality(q.mine.roster) < q.mine.cap
      BY <2>7 DEF SeatsIfRoom
    <3>10. WithinCap(m)
      BY <1>2, <3>5, <3>7, <3>8, <3>9 DEF WithinCap
    <3>11. Own
      BY <1>1, <2>1, <3>4, <3>5, <3>10 DEF Holds, Plans, WithinCap
    <3> QED BY <1>3, <2>1, <3>11
  <2> QED BY <2>5, <2>6, <2>7
<1>22. ASSUME EndScan(r) PROVE Goal
  <2>1. CASE Rollback(r)
    BY <1>6, <2>1
  <2>2. CASE ~Rollback(r)
    <3>1. n = [q EXCEPT !.pc = "commit"] /\ UNCHANGED <<session, rowLock>>
      BY <1>1, <1>22, <2>2 DEF EndScan, Goto, Local
    <3>2. n.add = q.add /\ n.mine = q.mine /\ n.pc = "commit"
      BY <1>1, <3>1 DEF Request
    <3> QED BY <1>9, <3>1, <3>2
  <2> QED BY <2>1, <2>2
<1>23. ASSUME Commit(r) PROVE Goal
  <2>1. ReleaseLocks(r) /\ n.add = {} /\ n.pc \in {"idle", "notify"}
    <3>1. n = Idle \/ n = [Idle EXCEPT !.pc = "notify", !.op = q.op, !.seated = q.seated]
      BY <1>1, <1>23 DEF Commit
    <3>2. n.add = {} /\ n.pc \in {"idle", "notify"}
      <4>1. CASE n = Idle
        BY <4>1, IdleIs
      <4>2. ASSUME NEW op, NEW S, n = [Idle EXCEPT !.pc = "notify", !.op = op, !.seated = S]
            PROVE  n.add = {} /\ n.pc = "notify"
        BY <4>2 DEF Idle
      <4> QED BY <3>1, <4>1, <4>2
    <3>3. ReleaseLocks(r)
      BY <1>23 DEF Commit
    <3> QED BY <3>2, <3>3
  <2>2. Own
    BY <1>4, <2>1 DEF Holds, Plans
  <2>3. CASE Sweeps(r)
    <3>1. session' = [session EXCEPT !.status = "deleted", !.roster = {}] /\ rowLock = r
      BY <1>23, <2>3 DEF Commit, Sweeps
    <3>2. session'.cap = session.cap /\ session'.roster = {}
      BY <1>1, <3>1 DEF Session
    <3>3. WithinCap(session)'
      BY <1>2, <3>2, FS_EmptySet DEF WithinCap
    <3>4. RowKept(r)
      BY <1>1, <1>2, <1>4, <2>1, <3>1, <3>2, <3>3, WaitlistAssumption DEF RowKept
    <3> QED BY <2>2, <3>4
  <2>4. CASE ~Sweeps(r) /\ rowLock = r
    <3>1. session' = q.mine
      BY <1>1, <1>23, <2>4 DEF Commit
    <3>2. WithinCap(q.mine) /\ q.mine.cap \in SeatCaps /\ session.cap <= q.mine.cap
      BY <1>1, <2>4 DEF Holds
    <3>3. WithinCap(session)'
      BY <3>1, <3>2 DEF WithinCap
    <3>4. RowKept(r)
      BY <1>1, <1>4, <2>1, <2>4, <3>1, <3>2, <3>3, WaitlistAssumption DEF RowKept
    <3> QED BY <2>2, <3>4
  <2>5. CASE ~Sweeps(r) /\ rowLock # r
    <3>1. UNCHANGED session
      BY <1>23, <2>5 DEF Commit
    <3> QED BY <1>3, <1>4, <2>1, <2>2, <3>1
  <2> QED BY <2>3, <2>4, <2>5
<1>24. ASSUME NotifyPromotion(r) PROVE Goal
  <2>1. UNCHANGED <<session, rowLock>> /\ q.pc = "notify" /\ rowLock # r
    BY <1>7, <1>24 DEF NotifyPromotion, At
  <2>2. n = Idle \/ \E rest : n = [q EXCEPT !.seated = rest]
    BY <1>1, <1>24 DEF NotifyPromotion
  <2>3. n.add = {} /\ n.pc \in {"idle", "notify"}
    BY <1>1, <2>1, <2>2, IdleIs DEF Plans, Request
  <2>4. Own
    BY <2>1, <2>3 DEF Holds, Plans
  <2> QED BY <1>3, <2>1, <2>4
<1>25. ASSUME CancelSession(r) PROVE Goal
  <2>1. n = [Idle EXCEPT !.pc = "dissolve", !.op = "cancel"]
    BY <1>1, <1>25 DEF CancelSession
  <2>2. n.add = {} /\ n.pc = "dissolve"
    BY <2>1 DEF Idle
  <2>3. UNCHANGED <<session, rowLock>> /\ q.pc = "idle"
    BY <1>25 DEF CancelSession, Local, Begin, At
  <2> QED BY <1>8, <2>2, <2>3
<1>26. ASSUME DissolveWaitlist(r) PROVE Goal
  <2>1. UNCHANGED <<session, rowLock>>
    BY <1>26 DEF DissolveWaitlist, Local
  <2>2. \E d : \E pc \in {"flip", "commit", "promote"} : n = [q EXCEPT !.gone = d, !.pc = pc]
    BY <1>1, <1>26 DEF DissolveWaitlist
  <2>3. n.add = q.add /\ n.mine = q.mine /\ n.pc \in {"flip", "commit", "promote"}
    BY <1>1, <2>2 DEF Request
  <2> QED BY <1>9, <2>1, <2>3
<1>27. ASSUME CancelFlip(r) PROVE Goal
  <2>1. CASE Rollback(r)
    BY <1>6, <2>1
  <2>2. CASE ~Rollback(r)
    <3>1. /\ session' = [session EXCEPT !.status = "cancelled"] /\ n = Idle
          /\ rowLock = Null /\ UNCHANGED rowLock
      BY <1>1, <1>27, <2>2 DEF CancelFlip
    <3>2. session'.cap = session.cap /\ session'.roster = session.roster
      BY <1>1, <3>1 DEF Session
    <3>3. RowKept(r)
      BY <1>1, <1>2, <3>1, <3>2, WaitlistAssumption DEF RowKept, WithinCap
    <3> QED BY <1>1, <1>5, <3>1, <3>3
  <2> QED BY <2>1, <2>2
<1>28. ASSUME Fail(r) PROVE Goal
  BY <1>6, <1>28 DEF Fail
<1> QED
  BY <1>11, <1>12, <1>13, <1>14, <1>15, <1>16, <1>17, <1>18, <1>19, <1>20, <1>21, <1>22,
     <1>23, <1>24, <1>25, <1>26, <1>27, <1>28 DEF Step

\* Everybody else can count on the row he holds or is about to write.
LEMMA SeatingStep ==
    ASSUME Raised, NoAdds, TypeOK, Named, Seating, [Next]_vars
    PROVE  Seating'
<1>1. CASE UNCHANGED vars
  BY <1>1 DEF vars, Seating, Holds, Plans, WithinCap
<1>2. ASSUME NEW r \in Requests, Step(r) PROVE Seating'
  <2>1. PICK q : q = req[r]
    OBVIOUS
  <2>2. PICK n : n = req'[r]
    OBVIOUS
  <2>3. RowKept(r) /\ Holds(r, n)' /\ Plans(n)'
    BY <1>2, <2>1, <2>2, SeatingOwn
  <2>4. ASSUME NEW p \in Requests, p # r PROVE Holds(p, req[p])' /\ Plans(req[p])'
    <3>1. PICK o : o = req[p]
      OBVIOUS
    <3>2. o \in Request /\ Holds(p, o) /\ Plans(o) /\ req'[p] = o
      BY <1>2, <2>4, <3>1, OthersKept DEF Seating, TypeOK
    <3>3. Holds(p, o)'
      BY <2>3, <2>4, <3>2 DEF RowKept, Holds
    <3>4. Plans(o)'
      <4>1. session.cap \in Nat /\ session'.cap \in Nat /\ session.cap <= session'.cap
        BY <2>3, WaitlistAssumption DEF RowKept, SeatCaps, Seating
      <4>2. Cardinality(AsRoster(o.members)) \in Nat
        BY <3>2, TeamAsRoster, UsersOfRoster DEF Request
      <4> QED BY <3>2, <4>1, <4>2 DEF Plans
    <3> QED BY <3>2, <3>3, <3>4 DEF Holds, Plans
  <2>5. Holds(r, req[r])' /\ Plans(req[r])'
    BY <2>2, <2>3 DEF Holds, Plans
  <2> QED BY <2>3, <2>4, <2>5 DEF RowKept, Seating
<1> QED BY <1>1, <1>2 DEF Next

\* The session is created within its capacity.
LEMMA SeatingInit ==
    ASSUME Init
    PROVE  Seating
<1>1. PICK R \in InitRosters :
         session = [status |-> "scheduled", roster |-> AsRoster(R), cap |-> InitCap, team |-> 0]
  BY DEF Init
<1>2. Cardinality(AsRoster(R)) <= InitCap
  <2>1. R \in SUBSET Learners /\ Cardinality(R) <= InitCap /\ IsFiniteSet(R)
    BY WaitlistAssumption, FS_Subset
  <2>2. IsFiniteSet({1}) /\ Cardinality({1}) = 1
    BY FS_Singleton
  <2>3. Cardinality(R \X {1}) = Cardinality(R) * Cardinality({1}) /\ Cardinality(R) \in Nat
    BY <2>1, <2>2, FS_Product, FS_CardinalityType
  <2> QED BY <2>1, <2>2, <2>3 DEF AsRoster
<1>3. WithinCap(session) /\ session.cap \in SeatCaps
  BY <1>1, <1>2 DEF WithinCap, SeatCaps
<1>4. ASSUME NEW r \in Requests PROVE Holds(r, req[r]) /\ Plans(req[r])
  <2>1. req[r] = Idle /\ rowLock # r
    BY WaitlistAssumption DEF Init
  <2> QED BY <2>1, IdleIs DEF Holds, Plans
<1> QED BY <1>3, <1>4 DEF Seating

\* The roster never exceeds the capacity, whoever frees seats, promotes, reassigns,
\* cancels or raises the capacity at the same time (the guards of promotion.js,
\* roster-sync.js and updateSchedule), when no team edit adds and none lowers it.
THEOREM KeptToCap == Raised /\ NoAdds => (Spec => []RosterWithinCap)
<1> SUFFICES ASSUME Raised, NoAdds PROVE Spec => []RosterWithinCap
  OBVIOUS
<1>1. Init => Seating
  BY SeatingInit
<1>2. Inv /\ Seating /\ [Next]_vars => Seating'
  BY SeatingStep DEF Inv
<1>3. Seating => RosterWithinCap
  BY DEF Seating, WithinCap, RosterWithinCap, Enrolled
<1> QED BY <1>1, <1>2, <1>3, Invariant, PTL DEF Spec
=============================================================================
