-------------------------- MODULE MembershipProofs --------------------------
(***************************************************************************)
(* What holds of Membership for every number of learners, teams, classes   *)
(* and requests: however the statements of edits, transfers, deletions,    *)
(* overrides and direct enrollments interleave, nobody is enrolled twice   *)
(* and no transfer leaves its learner behind; and however long a history   *)
(* of requests that take turns, members and enrollments agree and nobody   *)
(* is in two teams.                                                        *)
(***************************************************************************)
EXTENDS Membership, FiniteSetTheorems, TLAPS

-----------------------------------------------------------------------------
(* The shapes of a request and of what its transaction has written.        *)

Places == Classes \cup {None}
Leaders == Learners \cup {None}

ColumnsOK(f) ==
    /\ "state" \in DOMAIN f => f.state \in {"live", "deleted"}
    /\ "class" \in DOMAIN f => f.class \in Places
    /\ "leader" \in DOMAIN f => f.leader \in Leaders

\* The columns an UPDATE of a teams row names.
Columns == {f \in UNION {[D -> {"live", "deleted"} \cup Places \cup Leaders] :
                           D \in SUBSET {"state", "class", "leader"}} : ColumnsOK(f)}

\* What ends an enrollment, and the enrollments a transaction has ended.
Ends == [status : {"Dropped"}] \cup [status : {"Transferred"}, to : Teams]
EndMaps == UNION {[D -> Ends] : D \in SUBSET Nat}

Members == Teams \X Learners

Writes == [team : Teams \cup {None}, set : Columns, del : SUBSET Members,
           ins : SUBSET Members, end : EndMaps, add : Seq(Enrollment)]

Edits == [step : {"class", "conflict", "write", "delete", "insert", "sync", "commit"},
          team : Teams, set : Columns, force : BOOLEAN,
          members : (SUBSET Learners) \cup {Keep}, old : SUBSET Learners, class : Places,
          asked : Nat, todo : SUBSET Learners, left : SUBSET Learners]

Leaves == [step : {"delete", "drop all", "mark"}, user : Learners]
Deletions == [step : {"drop all", "mark", "commit"}, team : Teams]

Unassigns == [step : {"unassign"}, holder : Teams, then : Edits]
Deletes == [step : {"deleting"}, pairs : SUBSET Members, then : Edits \cup Leaves]
Drops == [step : {"dropping"}, then : Leaves \cup Deletions, ids : SUBSET Nat]
Seeks == [step : {"seek", "enroll"}, who : Learners, then : Edits]
Closes == [step : {"close", "pull"}, who : Learners, id : Nat, from : Teams \cup {None},
           then : Edits]
Parts == [step : {"drop"}, who : Learners, id : Nat, then : Edits]
Counts == [step : {"count"}, who : Learners, class : Classes]
Placings == [step : {"place"}, who : Learners, class : Classes, todo : SUBSET Learners,
             count : Nat]
Rounds == [step : {"each"}, class : Classes, todo : SUBSET Learners, count : Nat]
Withdrawals == [step : {"withdraw"}, id : Nat]

Requests ==
    {Idle} \cup Edits \cup Leaves \cup Deletions \cup Unassigns \cup Deletes \cup Drops
    \cup Seeks \cup Closes \cup Parts \cup Counts \cup Placings \cup Rounds \cup Withdrawals

-----------------------------------------------------------------------------
(* What a request may count on. w is what its transaction has written.     *)

SyncSteps == {"sync", "seek", "close", "pull", "enroll", "drop"}

\* The edit whose enrollments are being synchronised.
SyncOf(q) == IF q.step = "sync" THEN q ELSE q.then

\* An edit that works on a list of members has one.
Listed(edit) == edit.step \in {"conflict", "delete", "insert"} => edit.members # Keep

\* The edit a request works on or will come back to.
Steady(q) ==
    /\ q \in Edits => Listed(q)
    /\ q.step = "unassign" => q.then.step \in {"conflict", "write"} /\ Listed(q.then)
    /\ q.step = "deleting" => q.then.step = "delete" /\ (q.then \in Edits => Listed(q.then))
    /\ q.step = "dropping" => q.then.step = "drop all"
    /\ q.step \in SyncSteps \ {"sync"} => q.then.step = "sync"
    /\ q.step \in {"close", "pull", "drop", "withdraw"} => q.id \in DOMAIN enr
    /\ q.step = "dropping" => q.ids \subseteq DOMAIN enr
    /\ q.step = "pull" => q.from # None

\* The learner at hand is one still to be enrolled, and the enrollment at hand
\* is his.
AtHand(q) ==
    /\ q.step \in {"seek", "close", "pull", "enroll"} => q.who \in q.then.todo
    /\ q.step \in {"close", "drop"} => enr[q.id].who = q.who
    /\ q.step = "drop" => q.then.todo = {}

\* The rows a transaction has inserted are enrollments in the team it edits, one
\* for each learner it is done with at most.
Adding(q, w) ==
    /\ q.step \notin SyncSteps => w.add = <<>>
    /\ \A j \in DOMAIN w.add :
          /\ w.add[j].status = "Active" /\ w.add[j].team = SyncOf(q).team
          /\ w.add[j].to = None
          /\ w.add[j].who \notin SyncOf(q).todo
          /\ \A k \in DOMAIN w.add : w.add[j].who = w.add[k].who => j = k

\* Someone enrolled in team t, committed or among the rows.
EnrolledOnce(x, t, added) ==
    \/ \E j \in DOMAIN enr : enr[j].who = x /\ enr[j].team = t
    \/ \E j \in DOMAIN added : added[j].who = x /\ added[j].team = t

\* Whoever it has transferred arrives in the team it edits, or is at hand.
Ending(q, w) ==
    \A i \in DOMAIN w.end :
        /\ i \in DOMAIN enr
        /\ w.end[i].status = "Transferred" =>
              /\ q.step \in SyncSteps
              /\ w.end[i].to = SyncOf(q).team
              /\ \/ q.step \in {"pull", "seek", "enroll"} /\ enr[i].who = q.who
                 \/ EnrolledOnce(enr[i].who, w.end[i].to, w.add)

Fit(q, w) ==
    /\ q \in Requests /\ w \in Writes
    /\ Steady(q) /\ AtHand(q) /\ Adding(q, w) /\ Ending(q, w)

Fits ==
    /\ op \in [Operators -> Requests]
    /\ tx \in [Operators -> Writes]
    /\ \A p \in Operators : Fit(op[p], tx[p])

\* No two rows clash, committed or not.
Apart ==
    /\ \A i, j \in DOMAIN enr : Clash(enr[i], enr[j]) => i = j
    /\ \A p \in Operators : \A j \in DOMAIN tx[p].add : \A i \in DOMAIN enr :
          ~ Clash(enr[i], tx[p].add[j])
    /\ \A p, q \in Operators : p # q =>
          \A j \in DOMAIN tx[p].add : \A k \in DOMAIN tx[q].add :
             ~ Clash(tx[p].add[j], tx[q].add[k])

Inv == TypeOK /\ Fits /\ Apart

-----------------------------------------------------------------------------
(* The rows.                                                               *)

\* The step of a request tells its shape.
LEMMA Shapes ==
    ASSUME NEW q \in Requests
    PROVE  /\ q.step = "idle" => q = Idle
           /\ q.step \in {"class", "conflict", "write", "insert", "sync"} => q \in Edits
           /\ q.step = "delete" => q \in Edits \cup Leaves
           /\ q.step \in {"drop all", "mark"} => q \in Leaves \cup Deletions
           /\ q.step = "commit" => q \in Edits \cup Deletions
           /\ q.step = "unassign" => q \in Unassigns
           /\ q.step = "deleting" => q \in Deletes
           /\ q.step = "dropping" => q \in Drops
           /\ q.step \in {"seek", "enroll"} => q \in Seeks
           /\ q.step \in {"close", "pull"} => q \in Closes
           /\ q.step = "drop" => q \in Parts
           /\ q.step = "count" => q \in Counts
           /\ q.step = "place" => q \in Placings
           /\ q.step = "each" => q \in Rounds
           /\ q.step = "withdraw" => q \in Withdrawals
  <1>0. q \in Edits => q.step \in {"class", "conflict", "write", "delete", "insert", "sync",
                                   "commit"}
    BY DEF Edits
  <1>1. /\ q \in Leaves => q.step \in {"delete", "drop all", "mark"}
        /\ q \in Deletions => q.step \in {"drop all", "mark", "commit"}
    BY DEF Leaves, Deletions
  <1>5. q = Idle => q.step = "idle"
    BY DEF Idle
  <1>2. /\ q \in Unassigns => q.step = "unassign"
        /\ q \in Deletes => q.step = "deleting"
        /\ q \in Drops => q.step = "dropping"
        /\ q \in Seeks => q.step \in {"seek", "enroll"}
        /\ q \in Closes => q.step \in {"close", "pull"}
        /\ q \in Parts => q.step = "drop"
    BY DEF Unassigns, Deletes, Drops, Seeks, Closes, Parts
  <1>3. /\ q \in Counts => q.step = "count"
        /\ q \in Placings => q.step = "place"
        /\ q \in Rounds => q.step = "each"
        /\ q \in Withdrawals => q.step = "withdraw"
    BY DEF Counts, Placings, Rounds, Withdrawals
  <1>4. \/ q = Idle \/ q \in Edits \/ q \in Leaves \/ q \in Deletions \/ q \in Unassigns
        \/ q \in Deletes \/ q \in Drops \/ q \in Seeks \/ q \in Closes \/ q \in Parts
        \/ q \in Counts \/ q \in Placings \/ q \in Rounds \/ q \in Withdrawals
    BY DEF Requests
  <1> QED BY <1>0, <1>1, <1>2, <1>3, <1>4, <1>5

\* An edit names the columns it sets, a user's deletion the user.
LEMMA Fields ==
    /\ \A q \in Edits : "user" \notin DOMAIN q /\ "team" \in DOMAIN q /\ "set" \in DOMAIN q
    /\ \A q \in Leaves : "user" \in DOMAIN q /\ "team" \notin DOMAIN q
    /\ \A q \in Deletions : "user" \notin DOMAIN q /\ "team" \in DOMAIN q /\ "set" \notin DOMAIN q
  BY DEF Edits, Leaves, Deletions

\* What ends an enrollment leaves it an enrollment of the same learner in the
\* same team, and not active.
LEMMA Ended ==
    ASSUME NEW row \in Enrollment, NEW e \in Ends
    PROVE  /\ Over(row, e) \in Enrollment
           /\ Over(row, e).who = row.who /\ Over(row, e).team = row.team
           /\ Over(row, e).class = row.class
           /\ Over(row, e).status = e.status /\ Over(row, e).status # "Active"
           /\ Over(row, e).to = IF e.status = "Transferred" THEN e.to ELSE row.to
  BY DEF Enrollment, Statuses, Over, Ends

\* What an UPDATE of a teams row leaves is a teams row.
LEMMA TeamOver ==
    ASSUME NEW row \in Team, NEW f \in Columns
    PROVE  Over(row, f) \in Team
  BY DEF Over, Team, Columns, ColumnsOK, Places, Leaders

\* A transaction that has written nothing.
LEMMA NoWritesTyped ==
    /\ NoWrites \in Writes
    /\ NoWrites.add = <<>> /\ DOMAIN NoWrites.add = {} /\ DOMAIN NoWrites.end = {}
    /\ NoWrites.del = {} /\ NoWrites.ins = {} /\ NoWrites.team = None
  <1>1. <<>> \in Columns
    BY DEF Columns, ColumnsOK, Places, Leaders
  <1>2. <<>> \in EndMaps
    BY DEF EndMaps
  <1> QED BY <1>1, <1>2 DEF NoWrites, Writes

\* The rows after a transaction: those there were, some of them ended, and those
\* it added.
LEMMA WrittenFacts ==
    ASSUME TypeOK, Fits, NEW p \in Operators
    PROVE  /\ Written(p) \in Seq(Enrollment)
           /\ \A i \in DOMAIN enr :
                 /\ i \in DOMAIN Written(p)
                 /\ Written(p)[i] =
                      IF i \in DOMAIN tx[p].end THEN Over(enr[i], tx[p].end[i]) ELSE enr[i]
           /\ \A j \in DOMAIN tx[p].add :
                 /\ Len(enr) + j \in DOMAIN Written(p)
                 /\ Written(p)[Len(enr) + j] = tx[p].add[j]
           /\ \A n \in DOMAIN Written(p) :
                 \/ n \in DOMAIN enr
                 \/ \E j \in DOMAIN tx[p].add : n = Len(enr) + j
  <1> DEFINE kept == [i \in DOMAIN enr |-> IF i \in DOMAIN tx[p].end
                                           THEN Over(enr[i], tx[p].end[i]) ELSE enr[i]]
             add  == tx[p].add
  <1>0. tx[p] \in Writes
    BY DEF Fits
  <1>1. /\ enr \in Seq(Enrollment) /\ add \in Seq(Enrollment)
        /\ \A i \in DOMAIN tx[p].end : tx[p].end[i] \in Ends
    <2>1. PICK w : w = tx[p]
      OBVIOUS
    <2>2. w.end \in EndMaps /\ w.add \in Seq(Enrollment)
      BY <1>0, <2>1 DEF Writes
    <2>3. \A i \in DOMAIN w.end : w.end[i] \in Ends
      BY <2>2 DEF EndMaps
    <2> QED BY <2>1, <2>2, <2>3 DEF TypeOK
  <1>2. /\ DOMAIN enr = 1 .. Len(enr) /\ Len(enr) \in Nat
        /\ DOMAIN add = 1 .. Len(add) /\ Len(add) \in Nat
    BY <1>1
  <1>3. \A i \in DOMAIN enr : kept[i] \in Enrollment
    BY <1>1, Ended
  <1>4. kept \in Seq(Enrollment) /\ Len(kept) = Len(enr) /\ DOMAIN kept = DOMAIN enr
    BY <1>2, <1>3
  <1>5. Written(p) = kept \o add
    BY DEF Written
  <1>6. \A i \in DOMAIN enr :
           kept[i] = IF i \in DOMAIN tx[p].end THEN Over(enr[i], tx[p].end[i]) ELSE enr[i]
    OBVIOUS
  <1> HIDE DEF kept, add
  <1>7. /\ kept \o add \in Seq(Enrollment)
        /\ DOMAIN (kept \o add) = 1 .. Len(enr) + Len(add)
        /\ \A i \in 1 .. Len(enr) : (kept \o add)[i] = kept[i]
        /\ \A j \in 1 .. Len(add) : (kept \o add)[Len(enr) + j] = add[j]
    BY <1>1, <1>2, <1>4
  <1>8. \A n \in 1 .. Len(enr) + Len(add) :
           n \in 1 .. Len(enr) \/ \E j \in 1 .. Len(add) : n = Len(enr) + j
    <2> SUFFICES ASSUME NEW n \in 1 .. Len(enr) + Len(add), n \notin 1 .. Len(enr)
                 PROVE  n - Len(enr) \in 1 .. Len(add) /\ n = Len(enr) + (n - Len(enr))
      OBVIOUS
    <2> QED BY <1>2
  <1>9. PICK all : all = kept \o add
    OBVIOUS
  <1>10. /\ Written(p) = all /\ all \in Seq(Enrollment) /\ DOMAIN all = 1 .. Len(enr) + Len(add)
         /\ \A i \in 1 .. Len(enr) : all[i] = kept[i]
         /\ \A j \in 1 .. Len(add) : all[Len(enr) + j] = add[j]
    BY <1>5, <1>7, <1>9
  <1>11. /\ \A i \in DOMAIN enr : i \in DOMAIN all /\ all[i] = kept[i]
         /\ \A j \in DOMAIN add : Len(enr) + j \in DOMAIN all /\ all[Len(enr) + j] = add[j]
    BY <1>2, <1>10
  <1>12. \A n \in DOMAIN all : n \in DOMAIN enr \/ \E j \in DOMAIN add : n = Len(enr) + j
    BY <1>2, <1>8, <1>10
  <1> QED BY <1>6, <1>10, <1>11, <1>12 DEF add

-----------------------------------------------------------------------------
(* Requests that others interrupt.                                         *)

\* No row disappears, and none changes its learner or its team.
Grown ==
    /\ DOMAIN enr \subseteq DOMAIN enr'
    /\ \A i \in DOMAIN enr : enr'[i].who = enr[i].who /\ enr'[i].team = enr[i].team

\* Whatever the others commit, a request may go on counting on what it knows.
LEMMA FitKept ==
    ASSUME NEW q, NEW w, Fit(q, w), Grown
    PROVE  Fit(q, w)'
  <1>1. Steady(q)'
    BY DEF Fit, Grown, Steady
  <1>2. AtHand(q)'
    BY DEF Fit, Grown, Steady, AtHand
  <1>3. Adding(q, w)'
    BY DEF Fit, Adding
  <1>4. Ending(q, w)'
    <2> SUFFICES ASSUME NEW i \in DOMAIN w.end
                 PROVE  /\ i \in DOMAIN enr'
                        /\ w.end[i].status = "Transferred" =>
                              /\ q.step \in SyncSteps
                              /\ w.end[i].to = SyncOf(q).team
                              /\ \/ q.step \in {"pull", "seek", "enroll"} /\ enr'[i].who = q.who
                                 \/ EnrolledOnce(enr[i].who, w.end[i].to, w.add)'
      BY DEF Ending
    <2>1. i \in DOMAIN enr /\ enr'[i].who = enr[i].who
      BY DEF Fit, Ending, Grown
    <2>2. ASSUME NEW x, NEW t, EnrolledOnce(x, t, w.add)
          PROVE  EnrolledOnce(x, t, w.add)'
      BY <2>2 DEF EnrolledOnce, Grown
    <2>3. PICK x, t : x = enr[i].who /\ t = w.end[i].to
      OBVIOUS
    <2>4. EnrolledOnce(x, t, w.add)' => EnrolledOnce(enr[i].who, w.end[i].to, w.add)'
      BY <2>1, <2>3 DEF EnrolledOnce
    <2> QED BY <2>1, <2>2, <2>3, <2>4 DEF Fit, Ending, Grown
  <1> QED BY <1>1, <1>2, <1>3, <1>4 DEF Fit

\* One request goes on, the others stay where they are.
LEMMA FitsKept ==
    ASSUME Fits, NEW p \in Operators, NEW q, NEW w, Become(p, q), Write(p, w), Grown,
           Fit(q, w)'
    PROVE  Fits'
  <1>1. /\ op'[p] = q /\ tx'[p] = w
        /\ \A o \in Operators \ {p} : op'[o] = op[o] /\ tx'[o] = tx[o]
    BY DEF Fits, Become, Write
  <1>2. op' \in [Operators -> Requests] /\ tx' \in [Operators -> Writes]
    BY DEF Fits, Fit, Become, Write
  <1>3. Fit(op[p], tx[p])'
    <2>1. /\ op'[p] \in Requests /\ tx'[p] \in Writes
          /\ Steady(op[p])' /\ AtHand(op[p])'
      BY <1>1 DEF Fit, Steady, AtHand
    <2>2. Adding(op[p], tx[p])'
      BY <1>1 DEF Fit, Adding, SyncOf
    <2>3. Ending(op[p], tx[p])'
      BY <1>1 DEF Fit, Ending, SyncOf, EnrolledOnce
    <2> QED BY <2>1, <2>2, <2>3 DEF Fit
  <1>4. ASSUME NEW o \in Operators \ {p} PROVE Fit(op[o], tx[o])'
    <2>1. PICK a, b : a = op[o] /\ b = tx[o]
      OBVIOUS
    <2>2. Fit(a, b)
      BY <2>1 DEF Fits
    <2>3. Fit(a, b)'
      BY <2>2, FitKept
    <2>4. op'[o] = a /\ tx'[o] = b
      BY <1>1, <2>1
    <2>5. /\ op'[o] \in Requests /\ tx'[o] \in Writes
          /\ Steady(op[o])' /\ AtHand(op[o])'
      BY <2>3, <2>4 DEF Fit, Steady, AtHand
    <2>6. Adding(op[o], tx[o])'
      BY <2>3, <2>4 DEF Fit, Adding, SyncOf
    <2>7. Ending(op[o], tx[o])'
      BY <2>3, <2>4 DEF Fit, Ending, SyncOf, EnrolledOnce
    <2> QED BY <2>5, <2>6, <2>7 DEF Fit
  <1> QED BY <1>2, <1>3, <1>4 DEF Fits

\* A step that neither commits nor adds an enrollment.
LEMMA Advance ==
    ASSUME Inv, NEW p \in Operators, NEW q, NEW w, Become(p, q), Write(p, w),
           UNCHANGED enr, Fit(q, w), w.add = <<>> \/ w.add = tx[p].add
    PROVE  Fits' /\ Apart'
  <1>1. Grown
    BY DEF Grown
  <1>2. Fit(q, w)'
    BY <1>1, FitKept
  <1>3. Fits'
    BY <1>1, <1>2, FitsKept DEF Inv
  <1>4. \A o \in Operators : tx'[o].add = <<>> \/ tx'[o].add = tx[o].add
    BY DEF Inv, Fits, Write
  <1>5. Apart'
    BY <1>4 DEF Inv, Apart, Clash
  <1> QED BY <1>3, <1>5

\* A step that only reads, or writes no enrollment and nothing to be committed.
LEMMA Reads ==
    ASSUME Inv, NEW p \in Operators, NEW q, Become(p, q), UNCHANGED <<enr, tx>>,
           Fit(q, tx[p])
    PROVE  Fits' /\ Apart'
  <1>1. PICK w : w = tx[p]
    OBVIOUS
  <1>2. Fit(q, w) /\ Write(p, w)
    BY <1>1 DEF Write, Inv, Fits
  <1> QED BY <1>1, <1>2, Advance

-----------------------------------------------------------------------------
(* The statements before the enrollments are synchronised, and the requests *)
(* that synchronise none.                                                  *)

\* Outside of that a transaction has added no enrollment and transferred none.
LEMMA Outside ==
    ASSUME NEW q, NEW w, Fit(q, w), q.step \notin SyncSteps
    PROVE  /\ w \in Writes /\ w.add = <<>>
           /\ \A i \in DOMAIN w.end : i \in DOMAIN enr /\ w.end[i].status # "Transferred"
  BY DEF Fit, Adding, Ending

\* A transaction that has neither added nor transferred fits every request.
LEMMA FitFresh ==
    ASSUME NEW q \in Requests, NEW w \in Writes, Steady(q), AtHand(q), w.add = <<>>,
           \A i \in DOMAIN w.end : i \in DOMAIN enr /\ w.end[i].status # "Transferred"
    PROVE  Fit(q, w)
  <1>1. DOMAIN w.add = {}
    OBVIOUS
  <1> QED BY <1>1 DEF Fit, Adding, Ending

\* A read outside of it.
LEMMA ReadsOutside ==
    ASSUME Inv, NEW p \in Operators, op[p].step \notin SyncSteps, NEW q \in Requests,
           Become(p, q), UNCHANGED <<enr, tx>>, Steady(q), AtHand(q)
    PROVE  Fits' /\ Apart'
  <1>1. Fit(op[p], tx[p])
    BY DEF Inv, Fits
  <1>2. Fit(q, tx[p])
    BY <1>1, Outside, FitFresh
  <1> QED BY <1>2, Reads

\* A write outside of it.
LEMMA WritesOutside ==
    ASSUME Inv, NEW p \in Operators, NEW q \in Requests, NEW w \in Writes,
           Become(p, q), Write(p, w), UNCHANGED enr, Steady(q), AtHand(q), w.add = <<>>,
           \A i \in DOMAIN w.end : i \in DOMAIN enr /\ w.end[i].status # "Transferred"
    PROVE  Fits' /\ Apart'
  BY FitFresh, Advance

\* What a request knows when it begins or comes to its next check.
LEMMA EditSteady ==
    ASSUME NEW q \in Edits, Listed(q)
    PROVE  q \in Requests /\ Steady(q) /\ AtHand(q)
  <1>1. q \in Requests
    BY DEF Requests
  <1>2. q.step \in {"class", "conflict", "write", "delete", "insert", "sync", "commit"}
    BY DEF Edits
  <1> QED BY <1>1, <1>2 DEF Steady, AtHand, SyncSteps

LEMMA SimpleSteady ==
    ASSUME NEW q \in {Idle} \cup Leaves \cup Deletions \cup Counts \cup Placings \cup Rounds
    PROVE  q \in Requests /\ Steady(q) /\ AtHand(q)
  <1>1. q \in Requests
    BY DEF Requests
  <1>2. q.step \notin SyncSteps \cup {"unassign", "deleting", "dropping", "withdraw"}
    <2>1. Idle.step = "idle"
      BY DEF Idle
    <2> QED BY <2>1 DEF Leaves, Deletions, Counts, Placings, Rounds, SyncSteps
  <1>3. q \in Edits => Listed(q)
    <2>1. q \in Leaves \/ q \in Deletions => q \notin Edits
      BY Fields
    <2>2. q \notin Leaves \/ q \notin Deletions =>
             q.step \in {"idle", "count", "place", "each"} \/ q \in Leaves \/ q \in Deletions
      <3>1. Idle.step = "idle"
        BY DEF Idle
      <3> QED BY <3>1 DEF Counts, Placings, Rounds
    <2> QED BY <2>1, <2>2 DEF Listed
  <1> QED BY <1>1, <1>2, <1>3 DEF Steady, AtHand, SyncSteps

\* The checks of an edit, in their order.
LEMMA CheckOrder ==
    ASSUME NEW class, NEW members
    PROVE  /\ FirstCheck(class, members) \in {"class", "conflict", "write"}
           /\ FirstCheck(class, members) = "conflict" => members # Keep
           /\ class \notin Classes => FirstCheck(class, members) # "class"
  BY DEF FirstCheck

LEMMA EditTyped ==
    ASSUME NEW step \in {"class", "conflict", "write"}, NEW t \in Teams, NEW set \in Columns,
           NEW force \in BOOLEAN, NEW members \in (SUBSET Learners) \cup {Keep},
           NEW old \in SUBSET Learners, NEW class \in Places, NEW asked \in Nat,
           step = "conflict" => members # Keep
    PROVE  /\ Edit(step, t, set, force, members, old, class, asked) \in Edits
           /\ Listed(Edit(step, t, set, force, members, old, class, asked))
  BY DEF Edit, Edits, Listed

LEMMA CreateTeamFits ==
    ASSUME Inv, NEW p \in Operators, CreateTeam(p)
    PROVE  Fits' /\ Apart'
  <1>1. PICK t \in Teams, class \in Classes \cup {None}, leader \in Learners \cup {None},
             list \in SUBSET Learners, force \in BOOLEAN :
          LET members == list \cup ({leader} \ {None}) IN
          Read(p, Edit(FirstCheck(class, members), t,
                       [state |-> "live", class |-> class, leader |-> leader],
                       force, members, {}, class, 0))
    BY DEF CreateTeam
  <1> DEFINE members == list \cup ({leader} \ {None})
             set == [state |-> "live", class |-> class, leader |-> leader]
  <1>2. members \in SUBSET Learners
    OBVIOUS
  <1>3. set \in Columns
    BY DEF Columns, ColumnsOK, Places, Leaders
  <1> HIDE DEF members, set
  <1>4. PICK q : q = Edit(FirstCheck(class, members), t, set, force, members, {}, class, 0)
    OBVIOUS
  <1>5. q \in Edits /\ Listed(q)
    BY <1>2, <1>3, <1>4, CheckOrder, EditTyped DEF Places
  <1>6. op[p] = Idle /\ Become(p, q) /\ UNCHANGED <<enr, tx>>
    BY <1>1, <1>4 DEF CreateTeam, Begin, Read, rows, members, set
  <1> QED BY <1>5, <1>6, EditSteady, ReadsOutside DEF Idle, SyncSteps

LEMMA UpdateTeamFits ==
    ASSUME Inv, NEW p \in Operators, UpdateTeam(p)
    PROVE  Fits' /\ Apart'
  <1>1. PICK t \in Live, class \in Classes \cup {None, Keep}, leader \in Learners \cup {Keep},
             list \in {Keep} \cup (SUBSET Learners), force \in BOOLEAN :
          /\ force => class \in Classes
          /\ LET given == [class |-> class, leader |-> leader]
                 set == [f \in {g \in {"class", "leader"} : given[g] # Keep} |-> given[f]]
                 lead == {IF leader = Keep THEN team[t].leader ELSE leader} \ {None}
                 members == IF list = Keep THEN Keep ELSE list \cup lead
             IN /\ DOMAIN set # {} \/ list # Keep
                /\ Read(p, Edit(FirstCheck(class, members), t, set, force, members, member[t],
                                IF class = Keep THEN team[t].class ELSE class, 0))
    BY DEF UpdateTeam
  <1> DEFINE given == [class |-> class, leader |-> leader]
             set == [f \in {g \in {"class", "leader"} : given[g] # Keep} |-> given[f]]
             lead == {IF leader = Keep THEN team[t].leader ELSE leader} \ {None}
             members == IF list = Keep THEN Keep ELSE list \cup lead
             final == IF class = Keep THEN team[t].class ELSE class
  <1>2. /\ t \in Teams /\ team[t].leader \in Leaders /\ team[t].class \in Places
        /\ member[t] \in SUBSET Learners
    BY DEF Live, Inv, TypeOK, Team, Places, Leaders
  <1>3. members \in (SUBSET Learners) \cup {Keep} /\ final \in Places
    BY <1>2 DEF Places, Leaders
  <1>4. set \in Columns
    BY DEF Columns, ColumnsOK, Places, Leaders
  <1> HIDE DEF given, set, lead, members, final
  <1>5. PICK q : q = Edit(FirstCheck(class, members), t, set, force, members, member[t], final, 0)
    OBVIOUS
  <1>6. q \in Edits /\ Listed(q)
    BY <1>2, <1>3, <1>4, <1>5, CheckOrder, EditTyped
  <1>7. op[p] = Idle /\ Become(p, q) /\ UNCHANGED <<enr, tx>>
    BY <1>1, <1>5 DEF UpdateTeam, Begin, Read, rows, given, set, lead, members, final
  <1> QED BY <1>6, <1>7, EditSteady, ReadsOutside DEF Idle, SyncSteps

LEMMA TransferFits ==
    ASSUME Inv, NEW p \in Operators, TransferEnrollment(p)
    PROVE  Fits' /\ Apart'
  <1>1. PICK i \in Active, t \in Live :
          Read(p, Edit("write", t, <<>>, FALSE, member[t] \cup {enr[i].who}, member[t],
                       team[t].class, i))
    BY DEF TransferEnrollment
  <1>2. /\ t \in Teams /\ team[t].class \in Places
        /\ member[t] \in SUBSET Learners /\ enr \in Seq(Enrollment) /\ i \in DOMAIN enr
    BY DEF Live, Active, Inv, TypeOK, Team, Places
  <1>3. i \in Nat /\ enr[i].who \in Learners
    <2>1. DOMAIN enr = 1 .. Len(enr) /\ enr[i] \in Enrollment
      BY <1>2
    <2> QED BY <1>2, <2>1 DEF Enrollment
  <1>4. member[t] \cup {enr[i].who} \in (SUBSET Learners) \cup {Keep} /\ <<>> \in Columns
    BY <1>2, <1>3 DEF Columns, ColumnsOK, Places, Leaders
  <1>5. PICK q : q = Edit("write", t, <<>>, FALSE, member[t] \cup {enr[i].who}, member[t],
                          team[t].class, i)
    OBVIOUS
  <1>6. q \in Edits /\ Listed(q)
    BY <1>2, <1>3, <1>4, <1>5, EditTyped
  <1>7. op[p] = Idle /\ Become(p, q) /\ UNCHANGED <<enr, tx>>
    BY <1>1, <1>5 DEF TransferEnrollment, Begin, Read, rows
  <1> QED BY <1>6, <1>7, EditSteady, ReadsOutside DEF Idle, SyncSteps

EditStepNames == {"class", "conflict", "write", "delete", "insert", "sync", "commit"}

\* An edit that comes to its next statement.
LEMMA EditMoves ==
    ASSUME NEW q \in Edits, NEW s \in EditStepNames,
           s \in {"conflict", "delete", "insert"} => q.members # Keep
    PROVE  /\ [q EXCEPT !.step = s] \in Edits /\ Listed([q EXCEPT !.step = s])
           /\ [q EXCEPT !.step = s].step = s /\ [q EXCEPT !.step = s].members = q.members
           /\ [q EXCEPT !.step = s].team = q.team
  BY DEF Edits, EditStepNames, Listed

\* A request that waits outside of the synchronisation is as the invariant says.
LEMMA AtStep ==
    ASSUME Inv, NEW p \in Operators
    PROVE  /\ op[p] \in Requests /\ tx[p] \in Writes /\ Steady(op[p]) /\ AtHand(op[p])
           /\ Fit(op[p], tx[p])
  BY DEF Inv, Fits, Fit

LEMMA FindTeamByClassFits ==
    ASSUME Inv, NEW p \in Operators, FindTeamByClass(p)
    PROVE  Fits' /\ Apart'
  <1>1. PICK q : q = op[p]
    OBVIOUS
  <1>2. q.step = "class" /\ q \in Requests
    BY <1>1, AtStep DEF FindTeamByClass
  <1>3. q \in Edits
    BY <1>2, Shapes
  <1>4. PICK checked : checked = [q EXCEPT !.step = FirstCheck(None, q.members)]
    OBVIOUS
  <1>5. /\ FirstCheck(None, q.members) \in {"conflict", "write"}
        /\ FirstCheck(None, q.members) = "conflict" => q.members # Keep
    BY MembershipAssumption, CheckOrder
  <1>6. checked \in Edits /\ Listed(checked) /\ checked.step \in {"conflict", "write"}
    <2>1. PICK s : s = FirstCheck(None, q.members)
      OBVIOUS
    <2>2. /\ s \in EditStepNames /\ s \in {"conflict", "write"}
          /\ s \in {"conflict", "delete", "insert"} => q.members # Keep
      BY <1>5, <2>1 DEF EditStepNames
    <2> QED BY <1>3, <1>4, <2>1, <2>2, EditMoves
  <1>7. \/ Become(p, checked)
        \/ \E s \in Teams : Become(p, [step |-> "unassign", holder |-> s, then |-> checked])
    BY <1>1, <1>4 DEF FindTeamByClass, Read, Live
  <1>8. UNCHANGED <<enr, tx>> /\ op[p].step \notin SyncSteps
    BY <1>1, <1>2 DEF FindTeamByClass, Read, rows, SyncSteps
  <1>9. CASE Become(p, checked)
    BY <1>6, <1>8, <1>9, EditSteady, ReadsOutside
  <1>10. ASSUME NEW s \in Teams, Become(p, [step |-> "unassign", holder |-> s, then |-> checked])
         PROVE  Fits' /\ Apart'
    <2>1. PICK u : u = [step |-> "unassign", holder |-> s, then |-> checked]
      OBVIOUS
    <2>2. u \in Unassigns /\ u.step = "unassign" /\ u.then = checked
      BY <2>1, <1>6 DEF Unassigns
    <2>3. u \in Requests
      BY <2>2 DEF Requests
    <2>4. Steady(u) /\ AtHand(u)
      BY <2>2, <1>6 DEF Steady, AtHand, SyncSteps, Edits
    <2> QED BY <2>1, <2>3, <2>4, <1>8, <1>10, ReadsOutside
  <1> QED BY <1>7, <1>9, <1>10

LEMMA UnassignTeamClassFits ==
    ASSUME Inv, NEW p \in Operators, UnassignTeamClass(p)
    PROVE  Fits' /\ Apart'
  <1>1. op[p].step = "unassign" /\ Become(p, op[p].then) /\ UNCHANGED <<enr, tx>>
    BY DEF UnassignTeamClass
  <1>2. op[p] \in Unassigns
    BY <1>1, AtStep, Shapes
  <1>3. op[p].then \in Edits /\ Listed(op[p].then)
    BY <1>1, <1>2, AtStep DEF Unassigns, Steady
  <1> QED BY <1>1, <1>3, EditSteady, ReadsOutside DEF SyncSteps

LEMMA CheckMemberConflictsFits ==
    ASSUME Inv, NEW p \in Operators, CheckMemberConflicts(p)
    PROVE  Fits' /\ Apart'
  <1>1. PICK q : q = [op[p] EXCEPT !.step = "write"]
    OBVIOUS
  <1>2. op[p].step = "conflict" /\ Become(p, q) /\ UNCHANGED <<enr, tx>>
    BY <1>1 DEF CheckMemberConflicts, Read, rows
  <1>3. op[p] \in Edits
    BY <1>2, AtStep, Shapes
  <1>4. q \in Edits /\ Listed(q)
    BY <1>1, <1>3, EditMoves DEF EditStepNames
  <1> QED BY <1>2, <1>4, EditSteady, ReadsOutside DEF SyncSteps

LEMMA WriteTeamRowFits ==
    ASSUME Inv, NEW p \in Operators, WriteTeamRow(p)
    PROVE  Fits' /\ Apart'
  <1>1. PICK q : q = op[p]
    OBVIOUS
  <1>2. q.step = "write" /\ q \in Requests
    BY <1>1, AtStep DEF WriteTeamRow
  <1>3. q \in Edits
    BY <1>2, Shapes
  <1>4. PICK w : w = IF q.set = <<>> THEN NoWrites
                     ELSE [NoWrites EXCEPT !.team = q.team, !.set = q.set]
    OBVIOUS
  <1>5. w \in Writes /\ w.add = <<>> /\ DOMAIN w.end = {}
    <2>1. q.team \in Teams /\ q.set \in Columns
      BY <1>3 DEF Edits
    <2> QED BY <1>4, <2>1, NoWritesTyped DEF Writes
  <1>6. PICK after : after = [q EXCEPT !.step = IF q.members = Keep THEN "commit" ELSE "delete"]
    OBVIOUS
  <1>7. after \in Edits /\ Listed(after)
    BY <1>3, <1>6, EditMoves DEF EditStepNames
  <1>8. Become(p, after) /\ Write(p, w) /\ UNCHANGED enr
    BY <1>1, <1>4, <1>6 DEF WriteTeamRow, rows
  <1> QED BY <1>5, <1>7, <1>8, EditSteady, WritesOutside

LEMMA StartDeleteFits ==
    ASSUME Inv, NEW p \in Operators, StartDelete(p)
    PROVE  Fits' /\ Apart'
  <1>1. PICK q : q = op[p]
    OBVIOUS
  <1>2. q.step = "delete" /\ q \in Requests /\ Steady(q)
    BY <1>1, AtStep DEF StartDelete
  <1>3. q \in Edits \cup Leaves
    BY <1>2, Shapes
  <1>4. PICK d : d = [step |-> "deleting", pairs |-> Found(q), then |-> q]
    OBVIOUS
  <1>5. Found(q) \in SUBSET Members
    BY DEF Found, Pairs, Members
  <1>6. d \in Deletes /\ d.step = "deleting" /\ d.then = q
    BY <1>3, <1>4, <1>5 DEF Deletes
  <1>7. d \in Requests /\ Steady(d) /\ AtHand(d)
    <2>1. d \in Requests
      BY <1>6 DEF Requests
    <2>2. d \notin Edits
      BY <1>6 DEF Edits
    <2> QED BY <1>2, <1>6, <2>1, <2>2 DEF Steady, AtHand, SyncSteps
  <1>8. Become(p, d) /\ UNCHANGED <<enr, tx>>
    BY <1>1, <1>4 DEF StartDelete, Read, rows
  <1> QED BY <1>1, <1>2, <1>7, <1>8, ReadsOutside DEF SyncSteps

LEMMA FinishDeleteFits ==
    ASSUME Inv, NEW p \in Operators, FinishDelete(p)
    PROVE  Fits' /\ Apart'
  <1>1. PICK q : q = op[p]
    OBVIOUS
  <1>2. q.step = "deleting" /\ q \in Requests /\ Steady(q)
    BY <1>1, AtStep DEF FinishDelete
  <1>3. q \in Deletes
    BY <1>2, Shapes
  <1>4. PICK w : w = [tx[p] EXCEPT !.del = {pair \in q.pairs : pair[2] \in member[pair[1]]}]
    OBVIOUS
  <1>5. /\ tx[p] \in Writes /\ tx[p].add = <<>>
        /\ \A i \in DOMAIN tx[p].end : i \in DOMAIN enr /\ tx[p].end[i].status # "Transferred"
    BY <1>1, <1>2, AtStep, Outside DEF SyncSteps
  <1>6. w \in Writes /\ w.add = <<>> /\ w.end = tx[p].end
    <2>1. q.pairs \in SUBSET Members
      BY <1>3 DEF Deletes
    <2>2. {pair \in q.pairs : pair[2] \in member[pair[1]]} \in SUBSET Members
      BY <2>1
    <2> QED BY <1>4, <1>5, <2>2 DEF Writes
  <1>7. PICK after : after = [q.then EXCEPT !.step = IF "user" \in DOMAIN q.then
                                                     THEN "drop all" ELSE "insert"]
    OBVIOUS
  <1>8. after \in Requests /\ Steady(after) /\ AtHand(after)
    <2>1. q.then \in Edits \/ q.then \in Leaves
      BY <1>3 DEF Deletes
    <2>2. CASE q.then \in Edits
      <3>1. q.then.step = "delete" /\ Listed(q.then)
        BY <1>2, <2>2 DEF Steady
      <3>2. after = [q.then EXCEPT !.step = "insert"] /\ q.then.members # Keep
        BY <1>7, <2>2, <3>1, Fields DEF Listed
      <3>3. after \in Edits /\ Listed(after)
        BY <2>2, <3>2, EditMoves DEF EditStepNames
      <3> QED BY <3>3, EditSteady
    <2>3. CASE q.then \in Leaves
      <3>1. after = [q.then EXCEPT !.step = "drop all"]
        BY <1>7, <2>3, Fields
      <3>2. after \in Leaves
        BY <2>3, <3>1 DEF Leaves
      <3> QED BY <3>2, SimpleSteady
    <2> QED BY <2>1, <2>2, <2>3
  <1>9. Become(p, after) /\ Write(p, w) /\ UNCHANGED enr
    BY <1>1, <1>4, <1>7 DEF FinishDelete, rows
  <1> QED BY <1>5, <1>6, <1>8, <1>9, WritesOutside

LEMMA InsertMembersFits ==
    ASSUME Inv, NEW p \in Operators, InsertMembers(p)
    PROVE  Fits' /\ Apart'
  <1>1. PICK q : q = op[p]
    OBVIOUS
  <1>2. q.step = "insert" /\ q \in Requests /\ Steady(q)
    BY <1>1, AtStep DEF InsertMembers
  <1>3. q \in Edits /\ q.members # Keep
    BY <1>2, Shapes DEF Steady, Listed
  <1>4. /\ q.team \in Teams /\ q.members \in SUBSET Learners /\ q.old \in SUBSET Learners
    BY <1>3 DEF Edits
  <1>5. PICK ins : ins = {pair \in {q.team} \X q.members :
                            pair \in tx[p].del \/ pair[2] \notin member[q.team]}
    OBVIOUS
  <1>6. ins \in SUBSET Members
    BY <1>4, <1>5 DEF Members
  <1>7. PICK w : w = [tx[p] EXCEPT !.ins = ins]
    OBVIOUS
  <1>8. /\ tx[p] \in Writes /\ tx[p].add = <<>>
        /\ \A i \in DOMAIN tx[p].end : i \in DOMAIN enr /\ tx[p].end[i].status # "Transferred"
    BY <1>1, <1>2, AtStep, Outside DEF SyncSteps
  <1>9. w \in Writes /\ w.add = <<>> /\ w.end = tx[p].end
    BY <1>6, <1>7, <1>8 DEF Writes
  <1>10. PICK after : after = [q EXCEPT !.step = "sync", !.todo = q.members \ q.old,
                                        !.left = q.old \ q.members]
    OBVIOUS
  <1>11. after \in Edits /\ Listed(after)
    BY <1>3, <1>4, <1>10 DEF Edits, Listed
  <1>12. Become(p, after) /\ Write(p, w) /\ UNCHANGED enr
    BY <1>1, <1>5, <1>7, <1>10 DEF InsertMembers, rows
  <1> QED BY <1>8, <1>9, <1>11, <1>12, EditSteady, WritesOutside

LEMMA DeleteTeamFits ==
    ASSUME Inv, NEW p \in Operators, DeleteTeam(p)
    PROVE  Fits' /\ Apart'
  <1>1. PICK t \in Live : Read(p, [step |-> "drop all", team |-> t])
    BY DEF DeleteTeam
  <1>2. PICK q : q = [step |-> "drop all", team |-> t]
    OBVIOUS
  <1>3. q \in Deletions
    BY <1>2 DEF Live, Deletions
  <1>4. op[p] = Idle /\ Become(p, q) /\ UNCHANGED <<enr, tx>>
    BY <1>1, <1>2 DEF DeleteTeam, Begin, Read, rows
  <1> QED BY <1>3, <1>4, SimpleSteady, ReadsOutside DEF Idle, SyncSteps

LEMMA DeleteUserFits ==
    ASSUME Inv, NEW p \in Operators, DeleteUser(p)
    PROVE  Fits' /\ Apart'
  <1>1. PICK x \in Learners \ gone : Read(p, [step |-> "delete", user |-> x])
    BY DEF DeleteUser
  <1>2. PICK q : q = [step |-> "delete", user |-> x]
    OBVIOUS
  <1>3. q \in Leaves
    BY <1>2 DEF Leaves
  <1>4. op[p] = Idle /\ Become(p, q) /\ UNCHANGED <<enr, tx>>
    BY <1>1, <1>2 DEF DeleteUser, Begin, Read, rows
  <1> QED BY <1>3, <1>4, SimpleSteady, ReadsOutside DEF Idle, SyncSteps

\* The enrollments are numbered.
LEMMA Numbered ==
    ASSUME Inv
    PROVE  /\ DOMAIN enr \in SUBSET Nat
           /\ \A i \in DOMAIN enr : enr[i] \in Enrollment
  BY DEF Inv, TypeOK

LEMMA StartDropAllFits ==
    ASSUME Inv, NEW p \in Operators, StartDropAll(p)
    PROVE  Fits' /\ Apart'
  <1>1. PICK q : q = op[p]
    OBVIOUS
  <1>2. q.step = "drop all" /\ q \in Requests /\ Steady(q)
    BY <1>1, AtStep DEF StartDropAll
  <1>3. q \in Leaves \cup Deletions
    BY <1>2, Shapes
  <1>4. PICK ids : ids = IF "user" \in DOMAIN q THEN {i \in Active : enr[i].who = q.user}
                         ELSE ActiveIn(q.team)
    OBVIOUS
  <1>5. ids \in SUBSET Nat /\ ids \subseteq DOMAIN enr
    BY <1>4, Numbered DEF ActiveIn, Active
  <1>6. PICK d : d = [step |-> "dropping", then |-> q, ids |-> ids]
    OBVIOUS
  <1>7. d \in Drops /\ d.step = "dropping" /\ d.then = q /\ d.ids = ids
    BY <1>3, <1>5, <1>6 DEF Drops
  <1>8. d \in Requests /\ Steady(d) /\ AtHand(d)
    <2>1. d \in Requests
      BY <1>7 DEF Requests
    <2>2. d \notin Edits
      BY <1>7 DEF Edits
    <2> QED BY <1>2, <1>5, <1>7, <2>1, <2>2 DEF Steady, AtHand, SyncSteps
  <1>9. Become(p, d) /\ UNCHANGED <<enr, tx>>
    BY <1>1, <1>4, <1>6 DEF StartDropAll, Read, rows
  <1> QED BY <1>1, <1>2, <1>8, <1>9, ReadsOutside DEF SyncSteps

LEMMA FinishDropAllFits ==
    ASSUME Inv, NEW p \in Operators, FinishDropAll(p)
    PROVE  Fits' /\ Apart'
  <1>1. PICK q : q = op[p]
    OBVIOUS
  <1>2. q.step = "dropping" /\ q \in Requests /\ Steady(q)
    BY <1>1, AtStep DEF FinishDropAll
  <1>3. q \in Drops
    BY <1>2, Shapes
  <1>4. PICK end : end = [i \in q.ids \cap Active |-> [status |-> "Dropped"]]
    OBVIOUS
  <1>5. /\ end \in EndMaps
        /\ \A i \in DOMAIN end : i \in DOMAIN enr /\ end[i].status # "Transferred"
    <2>1. DOMAIN end = q.ids \cap Active /\ q.ids \cap Active \in SUBSET Nat
      BY <1>3, <1>4 DEF Drops
    <2>2. \A i \in DOMAIN end : end[i] = [status |-> "Dropped"] /\ end[i] \in Ends
      BY <1>4 DEF Ends
    <2>3. end \in [q.ids \cap Active -> Ends]
      BY <1>4, <2>1, <2>2
    <2>4. end \in EndMaps
      BY <2>1, <2>3 DEF EndMaps
    <2> QED BY <2>1, <2>2, <2>4 DEF Active
  <1>6. PICK w : w = [tx[p] EXCEPT !.end = end]
    OBVIOUS
  <1>7. tx[p] \in Writes /\ tx[p].add = <<>>
    BY <1>1, <1>2, AtStep, Outside DEF SyncSteps
  <1>8. w \in Writes /\ w.add = <<>> /\ w.end = end
    BY <1>5, <1>6, <1>7 DEF Writes
  <1>9. PICK after : after = [q.then EXCEPT !.step = "mark"]
    OBVIOUS
  <1>10. after \in Leaves \cup Deletions
    <2>1. q.then \in Leaves \/ q.then \in Deletions
      BY <1>3 DEF Drops
    <2> QED BY <1>9, <2>1 DEF Leaves, Deletions
  <1>11. Become(p, after) /\ Write(p, w) /\ UNCHANGED enr
    BY <1>1, <1>4, <1>6, <1>9 DEF FinishDropAll, rows
  <1> QED BY <1>5, <1>8, <1>10, <1>11, SimpleSteady, WritesOutside

LEMMA MarkTeamDeletedFits ==
    ASSUME Inv, NEW p \in Operators, MarkTeamDeleted(p)
    PROVE  Fits' /\ Apart'
  <1>1. PICK q : q = op[p]
    OBVIOUS
  <1>2. q.step = "mark" /\ "team" \in DOMAIN q /\ q \in Requests
    BY <1>1, AtStep DEF MarkTeamDeleted
  <1>3. q \in Deletions
    BY <1>2, Shapes, Fields
  <1>4. PICK w : w = [tx[p] EXCEPT !.team = q.team, !.set = [state |-> "deleted"]]
    OBVIOUS
  <1>5. /\ tx[p] \in Writes /\ tx[p].add = <<>>
        /\ \A i \in DOMAIN tx[p].end : i \in DOMAIN enr /\ tx[p].end[i].status # "Transferred"
    BY <1>1, <1>2, AtStep, Outside DEF SyncSteps
  <1>6. w \in Writes /\ w.add = <<>> /\ w.end = tx[p].end
    <2>1. q.team \in Teams
      BY <1>3 DEF Deletions
    <2>2. [state |-> "deleted"] \in Columns
      BY DEF Columns, ColumnsOK, Places, Leaders
    <2> QED BY <1>4, <1>5, <2>1, <2>2 DEF Writes
  <1>7. PICK after : after = [q EXCEPT !.step = "commit"]
    OBVIOUS
  <1>8. after \in Deletions
    BY <1>3, <1>7 DEF Deletions
  <1>9. Become(p, after) /\ Write(p, w) /\ UNCHANGED enr
    BY <1>1, <1>4, <1>7 DEF MarkTeamDeleted, rows
  <1> QED BY <1>5, <1>6, <1>8, <1>9, SimpleSteady, WritesOutside

-----------------------------------------------------------------------------
(* Direct enrollment.                                                      *)

LEMMA EnrollFits ==
    ASSUME Inv, NEW p \in Operators, Enroll(p)
    PROVE  Fits' /\ Apart'
  <1>1. PICK x \in Learners, c \in Classes : Read(p, [step |-> "count", who |-> x, class |-> c])
    BY DEF Enroll
  <1>2. PICK q : q = [step |-> "count", who |-> x, class |-> c]
    OBVIOUS
  <1>3. q \in Counts
    BY <1>2 DEF Counts
  <1>4. op[p] = Idle /\ Become(p, q) /\ UNCHANGED <<enr, tx>>
    BY <1>1, <1>2 DEF Enroll, Begin, Read, rows
  <1> QED BY <1>3, <1>4, SimpleSteady, ReadsOutside DEF Idle, SyncSteps

LEMMA CountEnrollmentsFits ==
    ASSUME Inv, NEW p \in Operators, CountEnrollments(p)
    PROVE  Fits' /\ Apart'
  <1>1. op[p].step = "count" /\ op[p] \in Counts
    BY AtStep, Shapes DEF CountEnrollments
  <1>2. PICK q : q = [step |-> "place", who |-> op[p].who, class |-> op[p].class,
                      todo |-> {}, count |-> Cap]
    OBVIOUS
  <1>3. q \in Placings
    BY <1>1, <1>2, MembershipAssumption DEF Counts, Placings
  <1>4. Become(p, q) /\ UNCHANGED <<enr, tx>>
    BY <1>2 DEF CountEnrollments, Read, rows
  <1> QED BY <1>1, <1>3, <1>4, SimpleSteady, ReadsOutside DEF SyncSteps

\* The enrollments in a class are finitely many.
LEMMA DirectFinite ==
    ASSUME Inv, NEW c
    PROVE  Cardinality(Direct(c)) \in Nat
  <1>1. Direct(c) \subseteq 1 .. Len(enr) /\ Len(enr) \in Nat
    BY DEF Inv, TypeOK, Direct, Active
  <1>2. IsFiniteSet(1 .. Len(enr))
    BY <1>1, FS_Interval
  <1> QED BY <1>1, <1>2, FS_Subset, FS_CardinalityType

LEMMA BulkEnrollFits ==
    ASSUME Inv, NEW p \in Operators, BulkEnroll(p)
    PROVE  Fits' /\ Apart'
  <1>1. PICK c \in Classes, learners \in SUBSET Learners \ {{}} :
           Read(p, [step |-> "each", class |-> c, todo |-> learners,
                    count |-> Cardinality(Direct(c))])
    BY DEF BulkEnroll
  <1>2. PICK q : q = [step |-> "each", class |-> c, todo |-> learners,
                      count |-> Cardinality(Direct(c))]
    OBVIOUS
  <1>3. q \in Rounds
    BY <1>2, DirectFinite DEF Rounds
  <1>4. op[p] = Idle /\ Become(p, q) /\ UNCHANGED <<enr, tx>>
    BY <1>1, <1>2 DEF BulkEnroll, Begin, Read, rows
  <1> QED BY <1>3, <1>4, SimpleSteady, ReadsOutside DEF Idle, SyncSteps

LEMMA NextLearnerFits ==
    ASSUME Inv, NEW p \in Operators, NextLearner(p)
    PROVE  Fits' /\ Apart'
  <1>1. PICK q : q = op[p]
    OBVIOUS
  <1>2. q.step = "each" /\ q \in Requests
    BY <1>1, AtStep DEF NextLearner
  <1>3. q \in Rounds
    BY <1>2, Shapes
  <1>4. PICK after : /\ Become(p, after)
                     /\ \/ after = Idle
                        \/ \E x \in q.todo :
                              \/ after = [q EXCEPT !.todo = @ \ {x}]
                              \/ after = [step |-> "place", who |-> x, class |-> q.class,
                                          todo |-> q.todo \ {x}, count |-> q.count]
    BY <1>1 DEF NextLearner, Read
  <1>5. after \in {Idle} \cup Placings \cup Rounds
    BY <1>3, <1>4 DEF Placings, Rounds
  <1>6. UNCHANGED <<enr, tx>>
    BY DEF NextLearner, Read, rows
  <1> QED BY <1>1, <1>2, <1>4, <1>5, <1>6, SimpleSteady, ReadsOutside DEF SyncSteps

LEMMA WithdrawFits ==
    ASSUME Inv, NEW p \in Operators, Withdraw(p)
    PROVE  Fits' /\ Apart'
  <1>1. PICK i \in Active : Read(p, [step |-> "withdraw", id |-> i])
    BY DEF Withdraw
  <1>2. PICK q : q = [step |-> "withdraw", id |-> i]
    OBVIOUS
  <1>3. i \in DOMAIN enr /\ i \in Nat
    BY Numbered DEF Active
  <1>4. q \in Requests /\ Steady(q) /\ AtHand(q)
    <2>1. q \in Withdrawals /\ q.step = "withdraw" /\ q.id = i
      BY <1>2, <1>3 DEF Withdrawals
    <2>2. q \in Requests
      BY <2>1 DEF Requests
    <2>3. q \notin Edits
      BY <2>1 DEF Edits
    <2> QED BY <1>3, <2>1, <2>2, <2>3 DEF Steady, AtHand, SyncSteps
  <1>5. op[p] = Idle /\ Become(p, q) /\ UNCHANGED <<enr, tx>>
    BY <1>1, <1>2 DEF Withdraw, Begin, Read, rows
  <1> QED BY <1>4, <1>5, ReadsOutside DEF Idle, SyncSteps

\* A step no request notices.
LEMMA Unnoticed ==
    ASSUME Inv, NEW p \in Operators, UNCHANGED <<enr, op, tx>>
    PROVE  Fits' /\ Apart'
  <1>1. PICK q : q = op[p]
    OBVIOUS
  <1>2. Become(p, q)
    BY <1>1 DEF Become, Inv, Fits
  <1> QED BY <1>1, <1>2, AtStep, Reads

-----------------------------------------------------------------------------
(* The synchronisation of the enrollments.                                 *)

\* A request in the middle of it, and the edit it comes back to.
LEMMA Syncing ==
    ASSUME Inv, NEW p \in Operators, op[p].step \in SyncSteps
    PROVE  /\ SyncOf(op[p]) \in Edits /\ SyncOf(op[p]).step = "sync"
           /\ op[p].step = "sync" => op[p] \in Edits
           /\ op[p].step \in {"seek", "enroll"} => op[p] \in Seeks
           /\ op[p].step \in {"close", "pull"} => op[p] \in Closes
           /\ op[p].step = "drop" => op[p] \in Parts
  <1>1. op[p] \in Requests /\ Steady(op[p])
    BY AtStep
  <1>2. CASE op[p].step = "sync"
    BY <1>1, <1>2, Shapes DEF SyncOf
  <1>3. CASE op[p].step \in {"seek", "enroll"}
    BY <1>1, <1>3, Shapes DEF SyncOf, Seeks, Steady, SyncSteps
  <1>4. CASE op[p].step \in {"close", "pull"}
    BY <1>1, <1>4, Shapes DEF SyncOf, Closes, Steady, SyncSteps
  <1>5. CASE op[p].step = "drop"
    BY <1>1, <1>5, Shapes DEF SyncOf, Parts, Steady, SyncSteps
  <1> QED BY <1>2, <1>3, <1>4, <1>5 DEF SyncSteps

\* The next request of a synchronisation is steady.
LEMMA SyncSteady ==
    ASSUME NEW edit \in Edits, edit.step = "sync"
    PROVE  /\ edit \in Requests /\ Steady(edit) /\ AtHand(edit) /\ SyncOf(edit) = edit
           /\ \A q \in Seeks : q.then = edit /\ q.who \in edit.todo =>
                 /\ q \in Requests /\ Steady(q) /\ AtHand(q) /\ SyncOf(q) = edit
                 /\ q.step \in {"seek", "enroll"}
           /\ \A q \in Closes : q.then = edit /\ q.who \in edit.todo /\ q.id \in DOMAIN enr
                                /\ enr[q.id].who = q.who /\ (q.step = "pull" => q.from # None) =>
                 /\ q \in Requests /\ Steady(q) /\ AtHand(q) /\ SyncOf(q) = edit
                 /\ q.step \in {"close", "pull"}
           /\ \A q \in Parts : q.then = edit /\ edit.todo = {} /\ q.id \in DOMAIN enr
                               /\ enr[q.id].who = q.who =>
                 /\ q \in Requests /\ Steady(q) /\ AtHand(q) /\ SyncOf(q) = edit
                 /\ q.step = "drop"
  <1>1. edit \in Requests /\ Steady(edit) /\ AtHand(edit) /\ SyncOf(edit) = edit
    BY EditSteady DEF Listed, SyncOf
  <1>2. ASSUME NEW q \in Seeks, q.then = edit, q.who \in edit.todo
        PROVE  /\ q \in Requests /\ Steady(q) /\ AtHand(q) /\ SyncOf(q) = edit
               /\ q.step \in {"seek", "enroll"}
    <2>1. q.step \in {"seek", "enroll"}
      BY DEF Seeks
    <2>2. q \in Requests /\ q \notin Edits
      BY <2>1 DEF Requests, Edits
    <2> QED BY <1>2, <2>1, <2>2 DEF Steady, AtHand, SyncOf, SyncSteps
  <1>3. ASSUME NEW q \in Closes, q.then = edit, q.who \in edit.todo, q.id \in DOMAIN enr,
               enr[q.id].who = q.who, q.step = "pull" => q.from # None
        PROVE  /\ q \in Requests /\ Steady(q) /\ AtHand(q) /\ SyncOf(q) = edit
               /\ q.step \in {"close", "pull"}
    <2>1. q.step \in {"close", "pull"}
      BY DEF Closes
    <2>2. q \in Requests /\ q \notin Edits
      BY <2>1 DEF Requests, Edits
    <2> QED BY <1>3, <2>1, <2>2 DEF Steady, AtHand, SyncOf, SyncSteps
  <1>4. ASSUME NEW q \in Parts, q.then = edit, edit.todo = {}, q.id \in DOMAIN enr,
               enr[q.id].who = q.who
        PROVE  /\ q \in Requests /\ Steady(q) /\ AtHand(q) /\ SyncOf(q) = edit
               /\ q.step = "drop"
    <2>1. q.step = "drop"
      BY DEF Parts
    <2>2. q \in Requests /\ q \notin Edits
      BY <2>1 DEF Requests, Edits
    <2> QED BY <1>4, <2>1, <2>2 DEF Steady, AtHand, SyncOf, SyncSteps
  <1> QED BY <1>1, <1>2, <1>3, <1>4

\* A learner the edit is done with leaves fewer to enroll.
LEMMA DoneFits ==
    ASSUME NEW edit \in Edits, edit.step = "sync", NEW x
    PROVE  /\ Done(edit, x) \in Edits /\ Done(edit, x).step = "sync"
           /\ Done(edit, x).team = edit.team
           /\ Done(edit, x).todo = edit.todo \ {x}
           /\ Done(edit, x).left = edit.left \ {x}
  BY DEF Done, Edits

Arriving == {"pull", "seek", "enroll"}

\* A step of it that adds no enrollment.
LEMMA SyncMoves ==
    ASSUME Inv, NEW p \in Operators, NEW q \in Requests, NEW w \in Writes,
           Become(p, q), Write(p, w), UNCHANGED enr, Steady(q), AtHand(q),
           op[p].step \in SyncSteps, q.step \in SyncSteps,
           SyncOf(q).team = SyncOf(op[p]).team, SyncOf(q).todo \subseteq SyncOf(op[p]).todo,
           w.add = tx[p].add, Ending(q, w)
    PROVE  Fits' /\ Apart'
  <1>1. Adding(op[p], tx[p])
    BY AtStep DEF Fit
  <1>2. PICK e, f : e = SyncOf(op[p]) /\ f = SyncOf(q)
    OBVIOUS
  <1>3. Adding(q, w)
    BY <1>1, <1>2 DEF Adding
  <1>4. Fit(q, w)
    BY <1>3 DEF Fit
  <1> QED BY <1>4, Advance

\* What was promised to the transferred is promised by the next request.
LEMMA EndingKept ==
    ASSUME NEW q, NEW w, NEW r, NEW v, Ending(q, w),
           q.step \in SyncSteps, r.step \in SyncSteps, SyncOf(r).team = SyncOf(q).team,
           v.end = w.end, v.add = w.add,
           q.step \in Arriving => \/ r.step \in Arriving /\ r.who = q.who
                                  \/ EnrolledOnce(q.who, SyncOf(q).team, w.add)
    PROVE  Ending(r, v)
  <1>1. PICK e, f : e = SyncOf(q) /\ f = SyncOf(r)
    OBVIOUS
  <1> QED BY <1>1 DEF Ending, Arriving

\* One more enrollment is ended.
LEMMA PutTyped ==
    ASSUME NEW end \in EndMaps, NEW i \in Nat, NEW set \in Ends
    PROVE  /\ Put(end, i, set) \in EndMaps
           /\ DOMAIN Put(end, i, set) = DOMAIN end \cup {i}
           /\ Put(end, i, set)[i] = set
           /\ \A j \in DOMAIN end \ {i} : Put(end, i, set)[j] = end[j]
  <1>1. PICK D \in SUBSET Nat : end \in [D -> Ends]
    BY DEF EndMaps
  <1>2. Put(end, i, set) \in [D \cup {i} -> Ends] /\ D \cup {i} \in SUBSET Nat
    BY <1>1 DEF Put
  <1>3. Put(end, i, set) \in EndMaps
    BY <1>2 DEF EndMaps
  <1> QED BY <1>1, <1>3 DEF Put

LEMMA FindSourceEnrollmentFits ==
    ASSUME Inv, NEW p \in Operators, FindSourceEnrollment(p)
    PROVE  Fits' /\ Apart'
  <1>1. PICK q, w : q = op[p] /\ w = tx[p]
    OBVIOUS
  <1>2. q.step = "sync" /\ q \in Edits /\ SyncOf(q) = q /\ w \in Writes /\ Ending(q, w)
    BY <1>1, AtStep, Syncing DEF FindSourceEnrollment, SyncSteps, SyncOf, Fit
  <1>3. PICK x \in q.todo :
           \/ Become(p, [step |-> "seek", who |-> x, then |-> q])
           \/ \E i \in ActiveElsewhere(x, q.team) :
                 Become(p, [step |-> "close", who |-> x, id |-> i, from |-> enr[i].team,
                            then |-> q])
    BY <1>1 DEF FindSourceEnrollment, Read
  <1>4. x \in Learners
    BY <1>2 DEF Edits
  <1>5. UNCHANGED enr /\ Write(p, w)
    BY <1>1 DEF FindSourceEnrollment, Read, rows, Write, Inv, Fits
  <1>6. ASSUME NEW r \in Requests, Become(p, r), Steady(r), AtHand(r), SyncOf(r) = q,
               r.step \in {"seek", "close"}
        PROVE  Fits' /\ Apart'
    <2>1. Ending(r, w)
      BY <1>2, <1>6, EndingKept DEF SyncSteps, Arriving
    <2> QED BY <1>1, <1>2, <1>5, <1>6, <2>1, SyncMoves DEF SyncSteps
  <1>7. CASE Become(p, [step |-> "seek", who |-> x, then |-> q])
    <2>1. PICK r : r = [step |-> "seek", who |-> x, then |-> q]
      OBVIOUS
    <2>2. r \in Seeks /\ r.then = q /\ r.who = x /\ r.step = "seek"
      BY <2>1, <1>2, <1>4 DEF Seeks
    <2> QED BY <1>2, <1>6, <1>7, <2>1, <2>2, SyncSteady
  <1>8. ASSUME NEW i \in ActiveElsewhere(x, q.team),
               Become(p, [step |-> "close", who |-> x, id |-> i, from |-> enr[i].team,
                          then |-> q])
        PROVE  Fits' /\ Apart'
    <2>1. PICK r : r = [step |-> "close", who |-> x, id |-> i, from |-> enr[i].team,
                        then |-> q]
      OBVIOUS
    <2>2. i \in DOMAIN enr /\ i \in Nat /\ enr[i].who = x /\ enr[i].team \in Teams \cup {None}
      BY Numbered DEF ActiveElsewhere, Active, Enrollment
    <2>3. r \in Closes /\ r.then = q /\ r.who = x /\ r.id = i /\ r.step = "close"
      BY <2>1, <2>2, <1>2, <1>4 DEF Closes
    <2> QED BY <1>2, <1>6, <1>8, <2>1, <2>2, <2>3, SyncSteady
  <1> QED BY <1>3, <1>7, <1>8

LEMMA CloseSourceFits ==
    ASSUME Inv, NEW p \in Operators, CloseSource(p)
    PROVE  Fits' /\ Apart'
  <1>1. PICK q, w : q = op[p] /\ w = tx[p]
    OBVIOUS
  <1>2. /\ q.step = "close" /\ q \in Closes /\ SyncOf(q) = q.then
        /\ q.then \in Edits /\ q.then.step = "sync" /\ q.who \in q.then.todo
        /\ q.id \in DOMAIN enr /\ enr[q.id].who = q.who
        /\ w \in Writes /\ Ending(q, w)
    BY <1>1, AtStep, Syncing DEF CloseSource, SyncSteps, SyncOf, Fit, Steady, AtHand
  <1>3. /\ q.id \in Nat /\ q.who \in Learners /\ q.then.team \in Teams
        /\ q.from \in Teams \cup {None}
    BY <1>2 DEF Closes, Edits
  <1>4. PICK set : set = [status |-> "Transferred", to |-> q.then.team]
    OBVIOUS
  <1>5. set \in Ends
    BY <1>3, <1>4 DEF Ends
  <1>6. PICK end : end = Put(w.end, q.id, set)
    OBVIOUS
  <1>7. w.end \in EndMaps
    BY <1>2 DEF Writes
  <1>8. /\ end \in EndMaps /\ DOMAIN end = DOMAIN w.end \cup {q.id} /\ end[q.id] = set
        /\ \A j \in DOMAIN w.end \ {q.id} : end[j] = w.end[j]
    <2>1. PICK old, i : old = w.end /\ i = q.id
      OBVIOUS
    <2>2. /\ Put(old, i, set) \in EndMaps /\ DOMAIN Put(old, i, set) = DOMAIN old \cup {i}
          /\ Put(old, i, set)[i] = set
          /\ \A j \in DOMAIN old \ {i} : Put(old, i, set)[j] = old[j]
      <3>1. old \in EndMaps /\ i \in Nat /\ set \in Ends
        BY <1>3, <1>5, <1>7, <2>1
      <3> QED BY <3>1, PutTyped
    <2> QED BY <1>6, <2>1, <2>2
  <1>9. PICK v : v = [w EXCEPT !.end = end]
    OBVIOUS
  <1>10. v \in Writes /\ v.add = w.add /\ v.end = end
    BY <1>2, <1>8, <1>9 DEF Writes
  <1>11. PICK r : r = IF q.from = None THEN [step |-> "seek", who |-> q.who, then |-> q.then]
                      ELSE [q EXCEPT !.step = "pull"]
    OBVIOUS
  <1>12. /\ r \in Requests /\ Steady(r) /\ AtHand(r) /\ SyncOf(r) = q.then
         /\ r.step \in {"seek", "pull"} /\ r.who = q.who
    <2>1. CASE q.from = None
      <3>1. r \in Seeks /\ r.step = "seek" /\ r.then = q.then /\ r.who = q.who
        BY <1>2, <1>3, <1>11, <2>1 DEF Seeks
      <3> QED BY <1>2, <3>1, SyncSteady
    <2>2. CASE q.from # None
      <3>1. /\ r \in Closes /\ r.step = "pull" /\ r.then = q.then /\ r.who = q.who /\ r.id = q.id
            /\ r.from # None
        BY <1>2, <1>11, <2>2 DEF Closes
      <3> QED BY <1>2, <3>1, SyncSteady
    <2> QED BY <2>1, <2>2
  <1>13. Ending(r, v)
    <2> SUFFICES ASSUME NEW i \in DOMAIN v.end
                 PROVE  /\ i \in DOMAIN enr
                        /\ v.end[i].status = "Transferred" =>
                              /\ r.step \in SyncSteps
                              /\ v.end[i].to = SyncOf(r).team
                              /\ \/ r.step \in {"pull", "seek", "enroll"} /\ enr[i].who = r.who
                                 \/ EnrolledOnce(enr[i].who, v.end[i].to, v.add)
      BY DEF Ending
    <2>1. CASE i = q.id
      <3>1. v.end[i].to = q.then.team
        BY <1>4, <1>8, <1>10, <2>1
      <3> QED BY <1>2, <1>12, <2>1, <3>1 DEF SyncSteps
    <2>2. CASE i # q.id
      <3>1. i \in DOMAIN w.end /\ v.end[i] = w.end[i]
        BY <1>8, <1>10, <2>2
      <3>2. /\ i \in DOMAIN enr
            /\ w.end[i].status = "Transferred" =>
                  w.end[i].to = q.then.team /\ EnrolledOnce(enr[i].who, w.end[i].to, w.add)
        BY <1>2, <3>1 DEF Ending
      <3> QED BY <1>10, <1>12, <3>1, <3>2 DEF SyncSteps
    <2> QED BY <2>1, <2>2
  <1>14. Become(p, r) /\ Write(p, v) /\ UNCHANGED enr
    BY <1>1, <1>4, <1>6, <1>9, <1>11 DEF CloseSource, rows
  <1> QED BY <1>1, <1>2, <1>10, <1>12, <1>13, <1>14, SyncMoves DEF SyncSteps

LEMMA PullTeamMemberFits ==
    ASSUME Inv, NEW p \in Operators, PullTeamMember(p)
    PROVE  Fits' /\ Apart'
  <1>1. PICK q, w : q = op[p] /\ w = tx[p]
    OBVIOUS
  <1>2. /\ q.step = "pull" /\ q \in Closes /\ SyncOf(q) = q.then
        /\ q.then \in Edits /\ q.then.step = "sync" /\ q.who \in q.then.todo
        /\ w \in Writes /\ Ending(q, w)
    BY <1>1, AtStep, Syncing DEF PullTeamMember, SyncSteps, SyncOf, Fit, Steady, AtHand
  <1>3. q.who \in Learners /\ q.from \in Teams
    BY <1>1, <1>2, AtStep DEF Closes, Steady
  <1>4. PICK v : v = IF q.who \in member[q.from] THEN [w EXCEPT !.del = @ \cup {<<q.from, q.who>>}]
                     ELSE w
    OBVIOUS
  <1>5. v \in Writes /\ v.add = w.add /\ v.end = w.end
    <2>1. {<<q.from, q.who>>} \in SUBSET Members
      BY <1>3 DEF Members
    <2> QED BY <1>2, <1>4, <2>1 DEF Writes
  <1>6. PICK r : r = [step |-> "seek", who |-> q.who, then |-> q.then]
    OBVIOUS
  <1>7. r \in Seeks /\ r.step = "seek" /\ r.then = q.then /\ r.who = q.who
    BY <1>2, <1>3, <1>6 DEF Seeks
  <1>8. r \in Requests /\ Steady(r) /\ AtHand(r) /\ SyncOf(r) = q.then
    BY <1>2, <1>7, SyncSteady
  <1>9. Ending(r, v)
    BY <1>2, <1>5, <1>7, <1>8, EndingKept DEF SyncSteps, Arriving
  <1>10. Become(p, r) /\ Write(p, v) /\ UNCHANGED enr
    BY <1>1, <1>4, <1>6 DEF PullTeamMember, rows
  <1> QED BY <1>1, <1>2, <1>5, <1>7, <1>8, <1>9, <1>10, SyncMoves DEF SyncSteps

LEMMA FindTargetEnrollmentFits ==
    ASSUME Inv, NEW p \in Operators, FindTargetEnrollment(p)
    PROVE  Fits' /\ Apart'
  <1>1. PICK q, w : q = op[p] /\ w = tx[p]
    OBVIOUS
  <1>2. /\ q.step = "seek" /\ q \in Seeks /\ SyncOf(q) = q.then
        /\ q.then \in Edits /\ q.then.step = "sync" /\ q.who \in q.then.todo
        /\ w \in Writes /\ Ending(q, w)
    BY <1>1, AtStep, Syncing DEF FindTargetEnrollment, SyncSteps, SyncOf, Fit, Steady, AtHand
  <1>3. /\ UNCHANGED enr /\ Write(p, w)
        /\ Become(p, IF EnrolledIn(q.who, q.then.team) # {} THEN Done(q.then, q.who)
                     ELSE [q EXCEPT !.step = "enroll"])
    BY <1>1 DEF FindTargetEnrollment, Read, rows, Write, Inv, Fits
  <1>4. CASE EnrolledIn(q.who, q.then.team) # {}
    <2>1. PICK r : r = Done(q.then, q.who)
      OBVIOUS
    <2>2. /\ r \in Edits /\ r.step = "sync" /\ r.team = q.then.team
          /\ r.todo \subseteq q.then.todo
      BY <1>2, <2>1, DoneFits
    <2>3. r \in Requests /\ Steady(r) /\ AtHand(r) /\ SyncOf(r) = r
      BY <2>2, SyncSteady
    <2>4. EnrolledOnce(q.who, q.then.team, w.add)
      BY <1>4 DEF EnrolledIn, ActiveIn, Active, EnrolledOnce
    <2>5. Ending(r, w)
      BY <1>2, <2>2, <2>3, <2>4, EndingKept DEF SyncSteps
    <2>6. Become(p, r)
      BY <1>3, <1>4, <2>1
    <2> QED BY <1>1, <1>2, <1>3, <2>2, <2>3, <2>5, <2>6, SyncMoves DEF SyncSteps
  <1>5. CASE EnrolledIn(q.who, q.then.team) = {}
    <2>1. PICK r : r = [q EXCEPT !.step = "enroll"]
      OBVIOUS
    <2>2. r \in Seeks /\ r.step = "enroll" /\ r.then = q.then /\ r.who = q.who
      BY <1>2, <2>1 DEF Seeks
    <2>3. r \in Requests /\ Steady(r) /\ AtHand(r) /\ SyncOf(r) = q.then
      BY <1>2, <2>2, SyncSteady
    <2>4. Ending(r, w)
      BY <1>2, <2>2, <2>3, EndingKept DEF SyncSteps, Arriving
    <2>5. Become(p, r)
      BY <1>3, <1>5, <2>1
    <2> QED BY <1>1, <1>2, <1>3, <2>2, <2>3, <2>4, <2>5, SyncMoves DEF SyncSteps
  <1> QED BY <1>4, <1>5

LEMMA FindLeaverFits ==
    ASSUME Inv, NEW p \in Operators, FindLeaver(p)
    PROVE  Fits' /\ Apart'
  <1>1. PICK q, w : q = op[p] /\ w = tx[p]
    OBVIOUS
  <1>2. /\ q.step = "sync" /\ q.todo = {} /\ q \in Edits /\ SyncOf(q) = q
        /\ w \in Writes /\ Ending(q, w)
    BY <1>1, AtStep, Syncing DEF FindLeaver, SyncSteps, SyncOf, Fit
  <1>3. PICK x \in q.left :
           \/ Become(p, Done(q, x))
           \/ \E i \in EnrolledIn(x, q.team) :
                 Become(p, [step |-> "drop", who |-> x, id |-> i, then |-> q])
    BY <1>1 DEF FindLeaver, Read
  <1>4. x \in Learners
    BY <1>2 DEF Edits
  <1>5. UNCHANGED enr /\ Write(p, w)
    BY <1>1 DEF FindLeaver, Read, rows, Write, Inv, Fits
  <1>6. CASE Become(p, Done(q, x))
    <2>1. PICK r : r = Done(q, x)
      OBVIOUS
    <2>2. r \in Edits /\ r.step = "sync" /\ r.team = q.team /\ r.todo \subseteq q.todo
      BY <1>2, <2>1, DoneFits
    <2>3. r \in Requests /\ Steady(r) /\ AtHand(r) /\ SyncOf(r) = r
      BY <2>2, SyncSteady
    <2>4. Ending(r, w)
      BY <1>2, <2>2, <2>3, EndingKept DEF SyncSteps, Arriving
    <2> QED BY <1>1, <1>2, <1>5, <1>6, <2>1, <2>2, <2>3, <2>4, SyncMoves DEF SyncSteps
  <1>7. ASSUME NEW i \in EnrolledIn(x, q.team),
               Become(p, [step |-> "drop", who |-> x, id |-> i, then |-> q])
        PROVE  Fits' /\ Apart'
    <2>1. PICK r : r = [step |-> "drop", who |-> x, id |-> i, then |-> q]
      OBVIOUS
    <2>2. i \in DOMAIN enr /\ i \in Nat /\ enr[i].who = x
      BY Numbered DEF EnrolledIn, ActiveIn, Active
    <2>3. r \in Parts /\ r.then = q /\ r.who = x /\ r.id = i /\ r.step = "drop"
      BY <2>1, <2>2, <1>2, <1>4 DEF Parts
    <2>4. r \in Requests /\ Steady(r) /\ AtHand(r) /\ SyncOf(r) = q
      BY <1>2, <2>2, <2>3, SyncSteady
    <2>5. Ending(r, w)
      BY <1>2, <2>3, <2>4, EndingKept DEF SyncSteps, Arriving
    <2> QED BY <1>1, <1>2, <1>5, <1>7, <2>1, <2>3, <2>4, <2>5, SyncMoves DEF SyncSteps
  <1> QED BY <1>3, <1>6, <1>7

LEMMA DropEnrollmentFits ==
    ASSUME Inv, NEW p \in Operators, DropEnrollment(p)
    PROVE  Fits' /\ Apart'
  <1>1. PICK q, w : q = op[p] /\ w = tx[p]
    OBVIOUS
  <1>2. /\ q.step = "drop" /\ q \in Parts /\ SyncOf(q) = q.then
        /\ q.then \in Edits /\ q.then.step = "sync"
        /\ q.id \in DOMAIN enr /\ w \in Writes /\ Ending(q, w)
    BY <1>1, AtStep, Syncing DEF DropEnrollment, SyncSteps, SyncOf, Fit, Steady, AtHand
  <1>3. PICK set : set = [status |-> "Dropped"]
    OBVIOUS
  <1>4. set \in Ends /\ set.status # "Transferred"
    BY <1>3 DEF Ends
  <1>5. PICK end : end = Put(w.end, q.id, set)
    OBVIOUS
  <1>6. w.end \in EndMaps /\ q.id \in Nat
    BY <1>2 DEF Writes, Parts
  <1>7. /\ end \in EndMaps /\ DOMAIN end = DOMAIN w.end \cup {q.id} /\ end[q.id] = set
        /\ \A j \in DOMAIN w.end \ {q.id} : end[j] = w.end[j]
    <2>1. PICK old, i : old = w.end /\ i = q.id
      OBVIOUS
    <2>2. /\ Put(old, i, set) \in EndMaps /\ DOMAIN Put(old, i, set) = DOMAIN old \cup {i}
          /\ Put(old, i, set)[i] = set
          /\ \A j \in DOMAIN old \ {i} : Put(old, i, set)[j] = old[j]
      <3>1. old \in EndMaps /\ i \in Nat /\ set \in Ends
        BY <1>4, <1>6, <2>1
      <3> QED BY <3>1, PutTyped
    <2> QED BY <1>5, <2>1, <2>2
  <1>8. PICK v : v = [w EXCEPT !.end = end]
    OBVIOUS
  <1>9. v \in Writes /\ v.add = w.add /\ v.end = end
    BY <1>2, <1>7, <1>8 DEF Writes
  <1>10. PICK r : r = Done(q.then, q.who)
    OBVIOUS
  <1>11. /\ r \in Edits /\ r.step = "sync" /\ r.team = q.then.team /\ r.todo \subseteq q.then.todo
    BY <1>2, <1>10, DoneFits
  <1>12. r \in Requests /\ Steady(r) /\ AtHand(r) /\ SyncOf(r) = r
    BY <1>11, SyncSteady
  <1>13. Ending(r, v)
    <2> SUFFICES ASSUME NEW i \in DOMAIN v.end
                 PROVE  /\ i \in DOMAIN enr
                        /\ v.end[i].status = "Transferred" =>
                              /\ r.step \in SyncSteps
                              /\ v.end[i].to = SyncOf(r).team
                              /\ \/ r.step \in {"pull", "seek", "enroll"} /\ enr[i].who = r.who
                                 \/ EnrolledOnce(enr[i].who, v.end[i].to, v.add)
      BY DEF Ending
    <2>1. CASE i = q.id
      BY <1>2, <1>4, <1>7, <1>9, <2>1
    <2>2. CASE i # q.id
      <3>1. i \in DOMAIN w.end /\ v.end[i] = w.end[i]
        BY <1>7, <1>9, <2>2
      <3>2. /\ i \in DOMAIN enr
            /\ w.end[i].status = "Transferred" =>
                  w.end[i].to = q.then.team /\ EnrolledOnce(enr[i].who, w.end[i].to, w.add)
        BY <1>2, <3>1 DEF Ending
      <3> QED BY <1>9, <1>11, <1>12, <3>1, <3>2 DEF SyncSteps
    <2> QED BY <2>1, <2>2
  <1>14. Become(p, r) /\ Write(p, v) /\ UNCHANGED enr
    BY <1>1, <1>3, <1>5, <1>8, <1>10 DEF DropEnrollment, rows
  <1> QED BY <1>1, <1>2, <1>9, <1>11, <1>12, <1>13, <1>14, SyncMoves DEF SyncSteps

\* Two active rows clash whichever of them comes first.
LEMMA ClashSymmetric ==
    ASSUME NEW r, NEW s, Clash(r, s)
    PROVE  Clash(s, r)
  BY DEF Clash

LEMMA CreateActiveEnrollmentFits ==
    ASSUME Inv, NEW p \in Operators, CreateActiveEnrollment(p)
    PROVE  Fits' /\ Apart'
  <1>1. PICK q, w : q = op[p] /\ w = tx[p]
    OBVIOUS
  <1>2. /\ q.step = "enroll" /\ q \in Seeks /\ SyncOf(q) = q.then
        /\ q.then \in Edits /\ q.then.step = "sync" /\ q.who \in q.then.todo
        /\ w \in Writes /\ Ending(q, w) /\ Adding(q, w)
    BY <1>1, AtStep, Syncing DEF CreateActiveEnrollment, SyncSteps, SyncOf, Fit, Steady, AtHand
  <1>3. q.who \in Learners /\ q.then.team \in Teams /\ q.then.class \in Places
    BY <1>2 DEF Seeks, Edits
  <1>4. PICK row : row = [who |-> q.who, class |-> q.then.class, team |-> q.then.team,
                          status |-> "Active", to |-> None]
    OBVIOUS
  <1>5. /\ row \in Enrollment /\ row.who = q.who /\ row.team = q.then.team
        /\ row.status = "Active" /\ row.to = None
    BY <1>3, <1>4 DEF Enrollment, Statuses, Places
  <1>6. w.add \in Seq(Enrollment)
    BY <1>2 DEF Writes
  <1>7. PICK add : add = Append(w.add, row)
    OBVIOUS
  <1>8. /\ add \in Seq(Enrollment)
        /\ \A j \in DOMAIN w.add : j \in DOMAIN add /\ add[j] = w.add[j]
        /\ \A j \in DOMAIN add : (j \in DOMAIN w.add /\ add[j] = w.add[j]) \/
                                 (j = Len(w.add) + 1 /\ add[j] = row)
        /\ Len(w.add) + 1 \in DOMAIN add /\ add[Len(w.add) + 1] = row
    <2>1. PICK old : old = w.add
      OBVIOUS
    <2>2. old \in Seq(Enrollment)
      BY <1>6, <2>1
    <2>3. /\ DOMAIN old = 1 .. Len(old) /\ Len(old) \in Nat
          /\ Append(old, row) \in Seq(Enrollment)
          /\ DOMAIN Append(old, row) = 1 .. Len(old) + 1
          /\ \A j \in 1 .. Len(old) : Append(old, row)[j] = old[j]
          /\ Append(old, row)[Len(old) + 1] = row
      BY <1>5, <2>2
    <2> QED BY <1>7, <2>1, <2>3
  <1>9. PICK v : v = [w EXCEPT !.add = add]
    OBVIOUS
  <1>10. v \in Writes /\ v.add = add /\ v.end = w.end
    BY <1>2, <1>8, <1>9 DEF Writes
  <1>11. PICK r : r = Done(q.then, q.who)
    OBVIOUS
  <1>12. /\ r \in Edits /\ r.step = "sync" /\ r.team = q.then.team
         /\ r.todo = q.then.todo \ {q.who}
    BY <1>2, <1>11, DoneFits
  <1>13. r \in Requests /\ Steady(r) /\ AtHand(r) /\ SyncOf(r) = r
    BY <1>12, SyncSteady
  <1>14. Ending(r, v)
    <2> SUFFICES ASSUME NEW i \in DOMAIN w.end
                 PROVE  /\ i \in DOMAIN enr
                        /\ w.end[i].status = "Transferred" =>
                              /\ w.end[i].to = r.team
                              /\ EnrolledOnce(enr[i].who, w.end[i].to, add)
      BY <1>10, <1>12, <1>13 DEF Ending, SyncSteps
    <2>1. /\ i \in DOMAIN enr
          /\ w.end[i].status = "Transferred" =>
                /\ w.end[i].to = q.then.team
                /\ enr[i].who = q.who \/ EnrolledOnce(enr[i].who, w.end[i].to, w.add)
      BY <1>2 DEF Ending
    <2>2. ASSUME EnrolledOnce(enr[i].who, w.end[i].to, w.add)
          PROVE  EnrolledOnce(enr[i].who, w.end[i].to, add)
      BY <1>8, <2>2 DEF EnrolledOnce
    <2>3. ASSUME w.end[i].to = q.then.team, enr[i].who = q.who
          PROVE  EnrolledOnce(enr[i].who, w.end[i].to, add)
      BY <1>5, <1>8, <2>3 DEF EnrolledOnce
    <2> QED BY <1>12, <2>1, <2>2, <2>3
  <1>15. Adding(r, v)
    <2>1. \A j \in DOMAIN w.add :
             /\ w.add[j].status = "Active" /\ w.add[j].team = r.team /\ w.add[j].to = None
             /\ w.add[j].who \notin r.todo /\ w.add[j].who # q.who
             /\ \A k \in DOMAIN w.add : w.add[j].who = w.add[k].who => j = k
      BY <1>2, <1>12 DEF Adding
    <2>2. row.who \notin r.todo /\ row.team = r.team
      BY <1>5, <1>12
    <2>3. \A j \in DOMAIN add :
             /\ add[j].status = "Active" /\ add[j].team = r.team /\ add[j].to = None
             /\ add[j].who \notin r.todo
             /\ \A k \in DOMAIN add : add[j].who = add[k].who => j = k
      BY <1>5, <1>8, <2>1, <2>2
    <2> QED BY <1>10, <1>12, <1>13, <2>3 DEF Adding, SyncSteps
  <1>16. Fit(r, v)
    BY <1>10, <1>13, <1>14, <1>15 DEF Fit
  <1>17. /\ Become(p, r) /\ Write(p, v) /\ UNCHANGED enr /\ ~ Pending(p, row)
         /\ \A i \in DOMAIN enr : ~ Clash(enr[i], row)
    BY <1>1, <1>4, <1>7, <1>9, <1>11 DEF CreateActiveEnrollment, rows
  <1>18. Grown
    BY <1>17 DEF Grown
  <1>19. Fit(r, v)'
    BY <1>16, <1>18, FitKept
  <1>20. Fits'
    BY <1>17, <1>18, <1>19, FitsKept DEF Inv
  <1>21. tx'[p] = v /\ \A o \in Operators \ {p} : tx'[o] = tx[o]
    BY <1>17 DEF Write, Inv, Fits
  <1>22. \A o \in Operators \ {p} : \A j \in DOMAIN tx[o].add :
            ~ Clash(tx[o].add[j], row) /\ ~ Clash(row, tx[o].add[j])
    BY <1>17, ClashSymmetric DEF Pending, Others
  <1>23. \A o \in Operators : \A j \in DOMAIN tx'[o].add :
            \/ j \in DOMAIN tx[o].add /\ tx'[o].add[j] = tx[o].add[j]
            \/ o = p /\ tx'[o].add[j] = row
    BY <1>1, <1>8, <1>10, <1>21
  <1>24. Apart'
    <2>1. \A i, j \in DOMAIN enr' : Clash(enr'[i], enr'[j]) => i = j
      BY <1>17 DEF Inv, Apart
    <2>2. \A o \in Operators : \A j \in DOMAIN tx'[o].add : \A i \in DOMAIN enr' :
             ~ Clash(enr'[i], tx'[o].add[j])
      BY <1>17, <1>23 DEF Inv, Apart
    <2>3. ASSUME NEW o \in Operators, NEW u \in Operators, o # u,
                 NEW j \in DOMAIN tx'[o].add, NEW k \in DOMAIN tx'[u].add
          PROVE  ~ Clash(tx'[o].add[j], tx'[u].add[k])
      <3>1. CASE j \in DOMAIN tx[o].add /\ tx'[o].add[j] = tx[o].add[j]
        BY <1>22, <1>23, <2>3, <3>1 DEF Inv, Apart
      <3>2. CASE o = p /\ tx'[o].add[j] = row
        <4>1. k \in DOMAIN tx[u].add /\ tx'[u].add[k] = tx[u].add[k]
          BY <1>23, <2>3, <3>2
        <4> QED BY <1>22, <2>3, <3>2, <4>1
      <3> QED BY <1>23, <3>1, <3>2
    <2> QED BY <2>1, <2>2, <2>3 DEF Apart, Clash
  <1> QED BY <1>20, <1>24

-----------------------------------------------------------------------------
(* What is committed.                                                      *)

\* A request that others see the enrollments of, outside of a synchronisation.
LEMMA ShowsFits ==
    ASSUME Inv, NEW p \in Operators, op[p].step \notin SyncSteps, NEW q \in Requests,
           Become(p, q), UNCHANGED tx, Grown, Steady(q), AtHand(q)
    PROVE  Fits'
  <1>1. PICK w : w = tx[p]
    OBVIOUS
  <1>2. Fit(op[p], w)
    BY <1>1, AtStep
  <1>3. /\ w \in Writes /\ w.add = <<>>
        /\ \A i \in DOMAIN w.end : i \in DOMAIN enr /\ w.end[i].status # "Transferred"
    BY <1>2, Outside
  <1>4. Fit(q, w)
    BY <1>3, FitFresh
  <1>5. Fit(q, w)'
    BY <1>4, FitKept
  <1>6. Write(p, w)
    BY <1>1 DEF Write, Inv, Fits
  <1> QED BY <1>5, <1>6, FitsKept DEF Inv

\* The rows stay apart when those that are active afterwards were apart before,
\* or are apart from all that is written.
LEMMA ApartAfter ==
    ASSUME Inv, UNCHANGED tx,
           \A i, j \in DOMAIN enr' : Clash(enr'[i], enr'[j]) => i = j,
           \A o \in Operators : \A j \in DOMAIN tx[o].add : \A i \in DOMAIN enr' :
              ~ Clash(enr'[i], tx[o].add[j])
    PROVE  Apart'
  BY DEF Inv, Apart, Clash

LEMMA FailFits ==
    ASSUME Inv, NEW p \in Operators, Fail(p)
    PROVE  Fits' /\ Apart' /\ enr' \in Seq(Enrollment)
  <1>1. Become(p, Idle) /\ Write(p, NoWrites) /\ UNCHANGED enr
    BY DEF Fail, rows
  <1>2. Fits' /\ Apart'
    BY <1>1, SimpleSteady, NoWritesTyped, WritesOutside
  <1> QED BY <1>1, <1>2 DEF Inv, TypeOK

\* A transaction's enrollments are committed and it ends.
LEMMA WrittenFits ==
    ASSUME Inv, NEW p \in Operators, enr' = Written(p), Become(p, Idle), Write(p, NoWrites)
    PROVE  Fits' /\ Apart' /\ enr' \in Seq(Enrollment)
  <1>1. PICK w, q, n : w = tx[p] /\ q = op[p] /\ n = Len(enr)
    OBVIOUS
  <1>2. /\ w \in Writes /\ Adding(q, w) /\ Ending(q, w)
        /\ \A i \in DOMAIN enr : enr[i] \in Enrollment
    BY <1>1, AtStep, Numbered DEF Fit
  <1>3. /\ w.add \in Seq(Enrollment)
        /\ \A i \in DOMAIN w.end : w.end[i] \in Ends
    BY <1>2 DEF Writes, EndMaps
  <1>4. PICK all : all = Written(p)
    OBVIOUS
  <1>5. /\ all \in Seq(Enrollment)
        /\ \A i \in DOMAIN enr :
              i \in DOMAIN all /\ all[i] = IF i \in DOMAIN w.end THEN Over(enr[i], w.end[i])
                                           ELSE enr[i]
        /\ \A j \in DOMAIN w.add : n + j \in DOMAIN all /\ all[n + j] = w.add[j]
        /\ \A m \in DOMAIN all : m \in DOMAIN enr \/ \E j \in DOMAIN w.add : m = n + j
    BY <1>1, <1>4, WrittenFacts DEF Inv
  <1>6. \A i \in DOMAIN enr :
           /\ all[i].who = enr[i].who /\ all[i].team = enr[i].team
           /\ all[i].status = "Active" => all[i] = enr[i]
    BY <1>2, <1>3, <1>5, Ended
  <1>7. Grown
    BY <1>4, <1>5, <1>6 DEF Grown
  <1>8. Fit(Idle, NoWrites)
    BY SimpleSteady, NoWritesTyped, FitFresh
  <1>9. Fit(Idle, NoWrites)'
    BY <1>7, <1>8, FitKept
  <1>10. Fits'
    BY <1>7, <1>9, FitsKept DEF Inv
  <1>11. \A i, j \in DOMAIN enr : Clash(all[i], all[j]) => i = j
    BY <1>6 DEF Inv, Apart, Clash
  <1>12. \A i \in DOMAIN enr, j \in DOMAIN w.add :
            ~ Clash(all[i], w.add[j]) /\ ~ Clash(w.add[j], all[i])
    BY <1>1, <1>6, ClashSymmetric DEF Inv, Apart, Clash
  <1>13. \A j, k \in DOMAIN w.add : Clash(w.add[j], w.add[k]) => j = k
    BY <1>2 DEF Adding, Clash
  <1>14. \A i, j \in DOMAIN all : Clash(all[i], all[j]) => i = j
    <2> SUFFICES ASSUME NEW i \in DOMAIN all, NEW j \in DOMAIN all, Clash(all[i], all[j])
                 PROVE  i = j
      OBVIOUS
    <2>1. CASE i \in DOMAIN enr /\ j \in DOMAIN enr
      BY <1>11, <2>1
    <2>2. CASE i \in DOMAIN enr /\ j \notin DOMAIN enr
      BY <1>5, <1>12, <2>2
    <2>3. CASE i \notin DOMAIN enr /\ j \in DOMAIN enr
      BY <1>5, <1>12, <2>3
    <2>4. CASE i \notin DOMAIN enr /\ j \notin DOMAIN enr
      <3>1. PICK a \in DOMAIN w.add, b \in DOMAIN w.add : i = n + a /\ j = n + b
        BY <1>5, <2>4
      <3>2. a = b
        BY <1>5, <1>13, <3>1
      <3> QED BY <3>1, <3>2
    <2> QED BY <2>1, <2>2, <2>3, <2>4
  <1>15. \A o \in Operators \ {p} : \A k \in DOMAIN tx[o].add : \A i \in DOMAIN all :
            ~ Clash(all[i], tx[o].add[k])
    <2> SUFFICES ASSUME NEW o \in Operators \ {p}, NEW k \in DOMAIN tx[o].add,
                        NEW i \in DOMAIN all
                 PROVE  ~ Clash(all[i], tx[o].add[k])
      OBVIOUS
    <2>1. CASE i \in DOMAIN enr
      BY <1>6, <2>1 DEF Inv, Apart, Clash
    <2>2. CASE i \notin DOMAIN enr
      <3>1. PICK a \in DOMAIN w.add : i = n + a
        BY <1>5, <2>2
      <3>2. all[i] = tx[p].add[a] /\ a \in DOMAIN tx[p].add
        BY <1>1, <1>5, <3>1
      <3> QED BY <3>2 DEF Inv, Apart
    <2> QED BY <2>1, <2>2
  <1>16. /\ DOMAIN tx'[p].add = {}
         /\ \A o \in Operators \ {p} : tx'[o] = tx[o]
    BY NoWritesTyped DEF Write, Inv, Fits
  <1>17. Apart'
    <2>1. \A i, j \in DOMAIN enr' : Clash(enr'[i], enr'[j]) => i = j
      BY <1>4, <1>14
    <2>2. \A o \in Operators : \A j \in DOMAIN tx'[o].add : \A i \in DOMAIN enr' :
             ~ Clash(enr'[i], tx'[o].add[j])
      BY <1>4, <1>15, <1>16
    <2>3. \A o, u \in Operators : o # u => \A j \in DOMAIN tx'[o].add :
             \A k \in DOMAIN tx'[u].add : ~ Clash(tx'[o].add[j], tx'[u].add[k])
      BY <1>16 DEF Inv, Apart
    <2> QED BY <2>1, <2>2, <2>3 DEF Apart, Clash
  <1> QED BY <1>4, <1>5, <1>10, <1>17

LEMMA OverriddenFits ==
    ASSUME Inv, NEW p \in Operators, op[p] = Idle, NEW ids \in SUBSET DOMAIN enr,
           NEW status \in Statuses, Overridden(p, ids, status)
    PROVE  Fits' /\ Apart' /\ enr' \in Seq(Enrollment)
  <1>1. /\ enr' = [i \in DOMAIN enr |-> IF i \in ids THEN [enr[i] EXCEPT !.status = status]
                                       ELSE enr[i]]
        /\ status = "Active" => \A i \in ids : ~ Pending(p, [enr[i] EXCEPT !.status = status])
        /\ \A i, j \in DOMAIN enr : Clash(enr'[i], enr'[j]) => i = j
        /\ UNCHANGED <<op, tx>>
    BY DEF Overridden
  <1>2. /\ DOMAIN enr' = DOMAIN enr
        /\ \A i \in DOMAIN enr : enr'[i] = IF i \in ids THEN [enr[i] EXCEPT !.status = status]
                                           ELSE enr[i]
    BY <1>1
  <1>3. \A i \in DOMAIN enr :
           /\ enr'[i] \in Enrollment /\ enr'[i].who = enr[i].who /\ enr'[i].team = enr[i].team
           /\ enr'[i].status = IF i \in ids THEN status ELSE enr[i].status
    BY <1>2, Numbered DEF Enrollment
  <1>4. enr' \in Seq(Enrollment)
    <2>1. DOMAIN enr = 1 .. Len(enr) /\ Len(enr) \in Nat
      BY DEF Inv, TypeOK
    <2> QED BY <1>1, <1>2, <1>3, <2>1
  <1>5. Grown
    BY <1>2, <1>3 DEF Grown
  <1>6. op[p].step \notin SyncSteps /\ Become(p, Idle)
    BY <1>1 DEF Idle, SyncSteps, Become, Inv, Fits
  <1>7. Fits'
    BY <1>1, <1>5, <1>6, SimpleSteady, ShowsFits
  <1>8. tx[p].add = <<>>
    BY <1>6, AtStep DEF Fit, Adding
  <1>9. \A o \in Operators : \A j \in DOMAIN tx[o].add : \A i \in DOMAIN enr' :
           ~ Clash(enr'[i], tx[o].add[j])
    <2> SUFFICES ASSUME NEW o \in Operators, NEW j \in DOMAIN tx[o].add, NEW i \in DOMAIN enr
                 PROVE  ~ Clash(enr'[i], tx[o].add[j])
      BY <1>2
    <2>1. o \in Others(p)
      BY <1>8 DEF Others
    <2>2. CASE i \notin ids
      BY <1>2, <2>2 DEF Inv, Apart
    <2>3. CASE i \in ids /\ status # "Active"
      BY <1>3, <2>3 DEF Clash
    <2>4. CASE i \in ids /\ status = "Active"
      <3>1. ~ Clash(tx[o].add[j], enr'[i])
        BY <1>1, <1>2, <2>1, <2>4 DEF Pending
      <3> QED BY <3>1, ClashSymmetric
    <2> QED BY <2>2, <2>3, <2>4
  <1>10. Apart'
    BY <1>1, <1>2, <1>9, ApartAfter
  <1> QED BY <1>4, <1>7, <1>10

LEMMA MarkDroppedFits ==
    ASSUME Inv, NEW p \in Operators, MarkDropped(p)
    PROVE  Fits' /\ Apart' /\ enr' \in Seq(Enrollment)
  <1>1. PICK i : i = op[p].id
    OBVIOUS
  <1>2. /\ op[p].step = "withdraw" /\ enr' = [enr EXCEPT ![i].status = "Dropped"]
        /\ Become(p, Idle) /\ UNCHANGED tx
    BY <1>1 DEF MarkDropped
  <1>3. i \in DOMAIN enr
    BY <1>1, <1>2, AtStep DEF Steady
  <1>4. /\ enr \in Seq(Enrollment) /\ enr[i] \in Enrollment
    BY <1>3, Numbered DEF Inv, TypeOK
  <1>5. [enr[i] EXCEPT !.status = "Dropped"] \in Enrollment
    BY <1>4 DEF Enrollment, Statuses
  <1>6. /\ enr' \in Seq(Enrollment) /\ DOMAIN enr' = DOMAIN enr
        /\ \A j \in DOMAIN enr : j # i => enr'[j] = enr[j]
        /\ enr'[i].status = "Dropped" /\ enr'[i].who = enr[i].who /\ enr'[i].team = enr[i].team
    BY <1>2, <1>3, <1>4, <1>5 DEF Enrollment
  <1>7. Grown
    BY <1>6 DEF Grown
  <1>8. Fits'
    BY <1>2, <1>7, SimpleSteady, ShowsFits DEF SyncSteps
  <1>9. Apart'
    <2>1. \A j, k \in DOMAIN enr' : Clash(enr'[j], enr'[k]) => j = k
      BY <1>6 DEF Inv, Apart, Clash
    <2>2. \A o \in Operators : \A j \in DOMAIN tx[o].add : \A k \in DOMAIN enr' :
             ~ Clash(enr'[k], tx[o].add[j])
      BY <1>6 DEF Inv, Apart, Clash
    <2> QED BY <1>2, <2>1, <2>2, ApartAfter
  <1> QED BY <1>6, <1>8, <1>9

LEMMA InsertActiveEnrollmentFits ==
    ASSUME Inv, NEW p \in Operators, InsertActiveEnrollment(p)
    PROVE  Fits' /\ Apart' /\ enr' \in Seq(Enrollment)
  <1>1. PICK q : q = op[p]
    OBVIOUS
  <1>2. q.step = "place" /\ q \in Placings
    BY <1>1, AtStep, Shapes DEF InsertActiveEnrollment
  <1>3. PICK r : r = [who |-> q.who, class |-> q.class, team |-> None, status |-> "Active",
                      to |-> None]
    OBVIOUS
  <1>4. r \in Enrollment
    BY <1>2, <1>3 DEF Placings, Enrollment, Statuses
  <1>5. PICK lost \in BOOLEAN : lost = \E i \in DOMAIN enr : Clash(enr[i], r)
    OBVIOUS
  <1>6. PICK after : after = [step |-> "each", class |-> q.class, todo |-> q.todo,
                              count |-> IF lost THEN q.count ELSE Admitted(q.count)]
    OBVIOUS
  <1>7. /\ enr' = IF lost THEN enr ELSE Append(enr, r)
        /\ ~ Pending(p, r) /\ Become(p, after) /\ UNCHANGED tx
    BY <1>1, <1>3, <1>5, <1>6 DEF InsertActiveEnrollment
  <1>8. after \in Rounds
    BY <1>2, <1>6 DEF Placings, Rounds, Admitted
  <1>9. enr \in Seq(Enrollment)
    BY DEF Inv, TypeOK
  <1>10. CASE lost
    <2>1. Fits' /\ Apart'
      BY <1>1, <1>2, <1>7, <1>8, <1>10, SimpleSteady, ReadsOutside DEF SyncSteps
    <2> QED BY <1>7, <1>9, <1>10, <2>1
  <1>11. CASE ~ lost
    <2>1. \A i \in DOMAIN enr : ~ Clash(enr[i], r) /\ ~ Clash(r, enr[i])
      BY <1>5, <1>11, ClashSymmetric
    <2>2. PICK n : n = Len(enr) + 1
      OBVIOUS
    <2>3. /\ enr' \in Seq(Enrollment)
          /\ \A i \in DOMAIN enr : i \in DOMAIN enr' /\ enr'[i] = enr[i]
          /\ \A i \in DOMAIN enr' : i \in DOMAIN enr \/ i = n
          /\ enr'[n] = r
      BY <1>4, <1>7, <1>9, <1>11, <2>2
    <2>4. Grown
      BY <2>3 DEF Grown
    <2>5. Fits'
      BY <1>1, <1>2, <1>7, <1>8, <2>4, SimpleSteady, ShowsFits DEF SyncSteps
    <2>6. tx[p].add = <<>>
      BY <1>1, <1>2, AtStep DEF Fit, Adding, SyncSteps
    <2>7. \A i, j \in DOMAIN enr' : Clash(enr'[i], enr'[j]) => i = j
      BY <2>1, <2>3 DEF Inv, Apart
    <2>8. \A o \in Operators : \A j \in DOMAIN tx[o].add : \A i \in DOMAIN enr' :
             ~ Clash(enr'[i], tx[o].add[j])
      <3> SUFFICES ASSUME NEW o \in Operators, NEW j \in DOMAIN tx[o].add, NEW i \in DOMAIN enr'
                   PROVE  ~ Clash(enr'[i], tx[o].add[j])
        OBVIOUS
      <3>1. CASE i \in DOMAIN enr
        BY <2>3, <3>1 DEF Inv, Apart
      <3>2. CASE i \notin DOMAIN enr
        <4>1. o \in Others(p)
          BY <2>6 DEF Others
        <4>2. ~ Clash(tx[o].add[j], r)
          BY <1>7, <4>1 DEF Pending
        <4> QED BY <2>3, <3>2, <4>2, ClashSymmetric
      <3> QED BY <3>1, <3>2
    <2>9. Apart'
      BY <1>7, <2>7, <2>8, ApartAfter
    <2> QED BY <2>3, <2>5, <2>9
  <1> QED BY <1>10, <1>11

-----------------------------------------------------------------------------
(* Every step.                                                             *)

\* The count of the requests and the history.
LEMMA Counted ==
    ASSUME Inv, NEW p \in Operators, Continue \/ \E kind \in Kinds : Begin(p, kind)
    PROVE  begun' \in 0 .. MaxRequests /\ orderly' \in BOOLEAN
  <1>1. begun \in 0 .. MaxRequests /\ orderly \in BOOLEAN
    BY DEF Inv, TypeOK
  <1>2. CASE Continue
    BY <1>1, <1>2 DEF Continue
  <1>3. CASE \E kind \in Kinds : Begin(p, kind)
    BY <1>1, <1>3, MembershipAssumption DEF Begin
  <1> QED BY <1>2, <1>3

\* A step that leaves the committed rows alone.
LEMMA RowsKept ==
    ASSUME Inv, NEW p \in Operators, Continue \/ \E kind \in Kinds : Begin(p, kind),
           UNCHANGED rows, Fits' /\ Apart'
    PROVE  Inv'
  <1>1. TypeOK'
    BY Counted DEF Inv, TypeOK, rows
  <1> QED BY <1>1 DEF Inv

\* The first half of the steps only reads, or writes what is not committed yet.
Uncommitted(p) ==
    \/ CreateTeam(p) \/ UpdateTeam(p) \/ FindTeamByClass(p)
    \/ CheckMemberConflicts(p) \/ TransferEnrollment(p)
    \/ WriteTeamRow(p) \/ StartDelete(p) \/ FinishDelete(p) \/ InsertMembers(p)
    \/ FindSourceEnrollment(p) \/ CloseSource(p) \/ PullTeamMember(p)
    \/ FindTargetEnrollment(p) \/ CreateActiveEnrollment(p)
    \/ FindLeaver(p) \/ DropEnrollment(p)
    \/ DeleteTeam(p) \/ DeleteUser(p) \/ StartDropAll(p) \/ FinishDropAll(p)
    \/ MarkTeamDeleted(p)
    \/ Enroll(p) \/ CountEnrollments(p) \/ BulkEnroll(p) \/ NextLearner(p) \/ Withdraw(p)
    \/ Fail(p)

LEMMA UncommittedFits ==
    ASSUME Inv, NEW p \in Operators, Uncommitted(p)
    PROVE  Inv'
  <1>1. UNCHANGED rows
    BY DEF Uncommitted, CreateTeam, UpdateTeam, FindTeamByClass, CheckMemberConflicts,
           TransferEnrollment, WriteTeamRow, StartDelete, FinishDelete, InsertMembers,
           FindSourceEnrollment, CloseSource, PullTeamMember, FindTargetEnrollment,
           CreateActiveEnrollment, FindLeaver, DropEnrollment, DeleteTeam, DeleteUser,
           StartDropAll, FinishDropAll, MarkTeamDeleted, Enroll, CountEnrollments,
           BulkEnroll, NextLearner, Withdraw, Fail, Read
  <1>2. Continue \/ \E kind \in Kinds : Begin(p, kind)
    BY DEF Uncommitted, CreateTeam, UpdateTeam, FindTeamByClass, CheckMemberConflicts,
           TransferEnrollment, WriteTeamRow, StartDelete, FinishDelete, InsertMembers,
           FindSourceEnrollment, CloseSource, PullTeamMember, FindTargetEnrollment,
           CreateActiveEnrollment, FindLeaver, DropEnrollment, DeleteTeam, DeleteUser,
           StartDropAll, FinishDropAll, MarkTeamDeleted, Enroll, CountEnrollments,
           BulkEnroll, NextLearner, Withdraw, Fail, Begin
  <1>3. Fits' /\ Apart'
    BY CreateTeamFits, UpdateTeamFits, FindTeamByClassFits, CheckMemberConflictsFits,
       TransferFits, WriteTeamRowFits, StartDeleteFits, FinishDeleteFits, InsertMembersFits,
       FindSourceEnrollmentFits, CloseSourceFits, PullTeamMemberFits,
       FindTargetEnrollmentFits, CreateActiveEnrollmentFits, FindLeaverFits,
       DropEnrollmentFits, DeleteTeamFits, DeleteUserFits, StartDropAllFits,
       FinishDropAllFits, MarkTeamDeletedFits, EnrollFits, CountEnrollmentsFits,
       BulkEnrollFits, NextLearnerFits, WithdrawFits, FailFits
       DEF Uncommitted
  <1> QED BY <1>1, <1>2, <1>3, RowsKept

LEMMA CommitFits ==
    ASSUME Inv, NEW p \in Operators, Commit(p)
    PROVE  Inv'
  <1>1. Fits' /\ Apart' /\ enr' \in Seq(Enrollment)
    BY WrittenFits DEF Commit
  <1>2. PICK t, set : t = tx[p].team /\ set = tx[p].set
    OBVIOUS
  <1>3. set \in Columns
    BY <1>2, AtStep DEF Writes
  <1>4. \A s \in Teams : team[s] \in Team
    BY DEF Inv, TypeOK
  <1>5. team' = [s \in Teams |-> IF s = t THEN Over(team[s], set) ELSE team[s]]
    BY <1>2 DEF Commit
  <1>6. team' \in [Teams -> Team]
    BY <1>3, <1>4, <1>5, TeamOver
  <1>7. member' \in [Teams -> SUBSET Learners]
    BY DEF Commit
  <1>8. gone' \subseteq Learners
    BY DEF Commit, Inv, TypeOK
  <1>9. begun' \in 0 .. MaxRequests /\ orderly' \in BOOLEAN
    BY DEF Commit, Continue, Inv, TypeOK
  <1> QED BY <1>1, <1>6, <1>7, <1>8, <1>9 DEF Inv, TypeOK

LEMMA SoftDeleteUserFits ==
    ASSUME Inv, NEW p \in Operators, SoftDeleteUser(p)
    PROVE  Inv'
  <1>1. Fits' /\ Apart' /\ enr' \in Seq(Enrollment)
    BY WrittenFits DEF SoftDeleteUser
  <1>2. op[p].user \in Learners
    <2>1. op[p] \in Leaves
      BY AtStep, Shapes, Fields DEF SoftDeleteUser
    <2> QED BY <2>1 DEF Leaves
  <1>3. gone' \subseteq Learners
    BY <1>2 DEF SoftDeleteUser, Inv, TypeOK
  <1>4. member' \in [Teams -> SUBSET Learners]
    BY DEF SoftDeleteUser, Inv, TypeOK
  <1>5. team' \in [Teams -> Team] /\ begun' \in 0 .. MaxRequests /\ orderly' \in BOOLEAN
    BY DEF SoftDeleteUser, Continue, Inv, TypeOK
  <1> QED BY <1>1, <1>3, <1>4, <1>5 DEF Inv, TypeOK

LEMMA UnassignKept ==
    ASSUME Inv, NEW p \in Operators, UnassignTeamClass(p)
    PROVE  Inv'
  <1>1. Fits' /\ Apart'
    BY UnassignTeamClassFits
  <1>2. PICK t : t = op[p].holder
    OBVIOUS
  <1>3. team' = [team EXCEPT ![t].class = None]
    BY <1>2 DEF UnassignTeamClass
  <1>4. \A s \in Teams : team[s] \in Team /\ [team[s] EXCEPT !.class = None] \in Team
    BY DEF Inv, TypeOK, Team
  <1>5. team' \in [Teams -> Team]
    BY <1>3, <1>4 DEF Inv, TypeOK
  <1> QED BY <1>1, <1>5 DEF UnassignTeamClass, Continue, Inv, TypeOK

LEMMA RestoreKept ==
    ASSUME Inv, NEW p \in Operators, RestoreTeam(p) \/ RestoreUser(p)
    PROVE  Inv'
  <1>1. UNCHANGED <<member, enr, op, tx>> /\ \E kind \in Kinds : Begin(p, kind)
    BY DEF RestoreTeam, RestoreUser, Begin
  <1>2. Fits' /\ Apart'
    BY <1>1, Unnoticed
  <1>3. begun' \in 0 .. MaxRequests /\ orderly' \in BOOLEAN
    BY <1>1, Counted
  <1>4. \A s \in Teams : team[s] \in Team /\ [team[s] EXCEPT !.state = "live"] \in Team
    BY DEF Inv, TypeOK, Team
  <1>5. CASE RestoreTeam(p)
    <2>1. PICK t \in Teams : team' = [team EXCEPT ![t].state = "live"]
      BY <1>5 DEF RestoreTeam
    <2>2. team' \in [Teams -> Team]
      BY <1>4, <2>1 DEF Inv, TypeOK
    <2> QED BY <1>1, <1>2, <1>3, <1>5, <2>2 DEF RestoreTeam, Inv, TypeOK
  <1>6. CASE RestoreUser(p)
    BY <1>1, <1>2, <1>3, <1>6 DEF RestoreUser, Inv, TypeOK
  <1> QED BY <1>5, <1>6

LEMMA OverrideKept ==
    ASSUME Inv, NEW p \in Operators, UpdateEnrollment(p) \/ BulkUpdateEnrollmentStatus(p)
    PROVE  Inv'
  <1>1. PICK ids \in SUBSET DOMAIN enr, status \in Statuses : Overridden(p, ids, status)
    BY DEF UpdateEnrollment, BulkUpdateEnrollmentStatus, Statuses
  <1>2. op[p] = Idle /\ \E kind \in Kinds : Begin(p, kind)
    BY DEF UpdateEnrollment, BulkUpdateEnrollmentStatus, Begin
  <1>3. Fits' /\ Apart' /\ enr' \in Seq(Enrollment)
    BY <1>1, <1>2, OverriddenFits
  <1>4. begun' \in 0 .. MaxRequests /\ orderly' \in BOOLEAN
    BY <1>2, Counted
  <1> QED BY <1>1, <1>3, <1>4 DEF Overridden, Inv, TypeOK

LEMMA DirectKept ==
    ASSUME Inv, NEW p \in Operators, InsertActiveEnrollment(p) \/ MarkDropped(p)
    PROVE  Inv'
  <1>1. Fits' /\ Apart' /\ enr' \in Seq(Enrollment)
    BY InsertActiveEnrollmentFits, MarkDroppedFits
  <1>2. UNCHANGED <<team, member, gone>> /\ Continue
    BY DEF InsertActiveEnrollment, MarkDropped
  <1> QED BY <1>1, <1>2 DEF Continue, Inv, TypeOK

LEMMA Inductive ==
    ASSUME Inv, [Next]_vars
    PROVE  Inv'
  <1>1. CASE UNCHANGED vars
    <2>1. TypeOK'
      BY <1>1 DEF Inv, TypeOK, vars, rows
    <2>2. CASE Operators = {}
      BY <1>1, <2>1, <2>2 DEF Inv, Fits, Apart, Clash, vars, rows
    <2>3. CASE Operators # {}
      <3>1. PICK p \in Operators : TRUE
        BY <2>3
      <3> QED BY <1>1, <2>1, <3>1, Unnoticed DEF Inv, vars, rows
    <2> QED BY <2>2, <2>3
  <1>2. ASSUME NEW p \in Operators, TeamStep(p) \/ CohortStep(p) \/ Fail(p)
        PROVE  Inv'
    <2>1. \/ Uncommitted(p) \/ UnassignTeamClass(p) \/ SoftDeleteUser(p)
          \/ RestoreTeam(p) \/ RestoreUser(p) \/ Commit(p)
          \/ UpdateEnrollment(p) \/ BulkUpdateEnrollmentStatus(p)
          \/ InsertActiveEnrollment(p) \/ MarkDropped(p)
      BY <1>2 DEF TeamStep, CohortStep, Uncommitted
    <2> QED
      BY <2>1, UncommittedFits, UnassignKept, SoftDeleteUserFits, RestoreKept, CommitFits,
         OverrideKept, DirectKept
  <1> QED BY <1>1, <1>2 DEF Next

LEMMA Initially ==
    ASSUME Init
    PROVE  Inv
  <1>1. PICK order \in [1 .. Cardinality(Pairs) -> Pairs] :
           /\ \A i, j \in DOMAIN order : order[i] = order[j] => i = j
           /\ enr = [i \in DOMAIN order |->
                       [who |-> order[i][2], class |-> team[order[i][1]].class,
                        team |-> order[i][1], status |-> "Active", to |-> None]]
    BY DEF Init
  <1>2. Cardinality(Pairs) \in Nat
    <2>1. IsFiniteSet(Teams \X Learners)
      BY MembershipAssumption, FS_Product
    <2>2. Pairs \subseteq Teams \X Learners
      BY DEF Pairs
    <2> QED BY <2>1, <2>2, FS_Subset, FS_CardinalityType
  <1>3. /\ DOMAIN order = 1 .. Cardinality(Pairs)
        /\ \A i \in DOMAIN order : /\ order[i] = <<order[i][1], order[i][2]>>
                                   /\ order[i][1] \in Teams /\ order[i][2] \in Learners
    BY DEF Pairs
  <1>4. team \in [Teams -> Team] /\ member \in [Teams -> SUBSET Learners]
    BY DEF Init
  <1>5. \A i \in DOMAIN order :
           /\ enr[i] \in Enrollment /\ enr[i].who = order[i][2] /\ enr[i].team = order[i][1]
    BY <1>1, <1>3, <1>4 DEF Enrollment, Statuses, Team
  <1>6. DOMAIN enr = DOMAIN order
    BY <1>1
  <1>7. enr \in Seq(Enrollment)
    BY <1>1, <1>2, <1>3, <1>5
  <1>8. TypeOK
    BY <1>4, <1>7, MembershipAssumption DEF Init, TypeOK
  <1>9. \A i, j \in DOMAIN enr : Clash(enr[i], enr[j]) => i = j
    BY <1>1, <1>3, <1>5, <1>6 DEF Clash
  <1>10. \A p \in Operators : op[p] = Idle /\ tx[p] = NoWrites
    BY DEF Init
  <1>11. Fits
    <2>1. Fit(Idle, NoWrites)
      BY SimpleSteady, NoWritesTyped, FitFresh
    <2>2. Idle \in Requests
      BY DEF Requests
    <2> QED BY <1>10, <2>1, <2>2, NoWritesTyped DEF Init, Fits
  <1>12. Apart
    BY <1>9, <1>10, NoWritesTyped DEF Apart
  <1> QED BY <1>8, <1>11, <1>12 DEF Inv

LEMMA Invariant == Spec => []Inv
  BY Initially, Inductive, PTL DEF Spec

\* Types and shapes hold in every reachable state, for any number of requests.
THEOREM Typing == Spec => []TypeOK
  <1>1. Inv => TypeOK
    BY DEF Inv
  <1> QED BY <1>1, Invariant, PTL

\* Nobody is actively enrolled twice in a team, or twice directly in a cohort: the
\* two unique indexes hold through every interleaving of edits, transfers,
\* deletions, overrides and direct enrollments.
THEOREM EnrolledOnceEach == Spec => []OneEnrollmentEach
  <1>1. Inv => OneEnrollmentEach
    BY DEF Inv, Apart, Clash, OneEnrollmentEach, Active
  <1> QED BY <1>1, Invariant, PTL

-----------------------------------------------------------------------------
(* Transfers.                                                              *)

Arrives ==
    \A i \in DOMAIN enr : enr[i].to = None /\ enr'[i].to # None =>
        \E j \in DOMAIN enr' : enr'[j].who = enr[i].who /\ enr'[j].team = enr'[i].to

\* What a transaction that is through with its learners commits.
LEMMA WrittenArrives ==
    ASSUME Inv, NEW p \in Operators, enr' = Written(p), op[p].step \notin Arriving
    PROVE  Arrives
  <1>1. PICK w, q, n : w = tx[p] /\ q = op[p] /\ n = Len(enr)
    OBVIOUS
  <1>2. /\ w \in Writes /\ Ending(q, w)
        /\ \A i \in DOMAIN enr : enr[i] \in Enrollment
    BY <1>1, AtStep, Numbered DEF Fit
  <1>3. /\ w.add \in Seq(Enrollment)
        /\ \A i \in DOMAIN w.end : w.end[i] \in Ends
    BY <1>2 DEF Writes, EndMaps
  <1>4. PICK all : all = Written(p)
    OBVIOUS
  <1>5. /\ all \in Seq(Enrollment)
        /\ \A i \in DOMAIN enr :
              i \in DOMAIN all /\ all[i] = IF i \in DOMAIN w.end THEN Over(enr[i], w.end[i])
                                           ELSE enr[i]
        /\ \A j \in DOMAIN w.add : n + j \in DOMAIN all /\ all[n + j] = w.add[j]
    BY <1>1, <1>4, WrittenFacts DEF Inv
  <1>6. \A i \in DOMAIN enr : all[i].who = enr[i].who /\ all[i].team = enr[i].team
    BY <1>2, <1>3, <1>5, Ended
  <1>7. SUFFICES ASSUME NEW i \in DOMAIN enr, enr[i].to = None, all[i].to # None
                 PROVE  \E j \in DOMAIN all : all[j].who = enr[i].who /\ all[j].team = all[i].to
    BY <1>4 DEF Arrives
  <1>8. /\ i \in DOMAIN w.end /\ w.end[i].status = "Transferred" /\ all[i].to = w.end[i].to
    BY <1>2, <1>3, <1>5, <1>7, Ended
  <1>9. EnrolledOnce(enr[i].who, all[i].to, w.add)
    BY <1>1, <1>2, <1>8 DEF Ending, Arriving
  <1> QED BY <1>5, <1>6, <1>9 DEF EnrolledOnce

\* The other steps transfer nobody.
LEMMA NobodyTransferred ==
    ASSUME Inv, \A i \in DOMAIN enr : enr'[i].to = enr[i].to
    PROVE  Arrives
  BY DEF Arrives

LEMMA StepArrives ==
    ASSUME Inv, NEW p \in Operators, TeamStep(p) \/ CohortStep(p) \/ Fail(p)
    PROVE  Arrives
  <1>1. \/ Uncommitted(p) \/ UnassignTeamClass(p) \/ SoftDeleteUser(p)
        \/ RestoreTeam(p) \/ RestoreUser(p) \/ Commit(p)
        \/ UpdateEnrollment(p) \/ BulkUpdateEnrollmentStatus(p)
        \/ InsertActiveEnrollment(p) \/ MarkDropped(p)
    BY DEF TeamStep, CohortStep, Uncommitted
  <1>2. CASE Uncommitted(p)
    <2>1. UNCHANGED rows
      BY <1>2 DEF Uncommitted, CreateTeam, UpdateTeam, FindTeamByClass, CheckMemberConflicts,
           TransferEnrollment, WriteTeamRow, StartDelete, FinishDelete, InsertMembers,
           FindSourceEnrollment, CloseSource, PullTeamMember, FindTargetEnrollment,
           CreateActiveEnrollment, FindLeaver, DropEnrollment, DeleteTeam, DeleteUser,
           StartDropAll, FinishDropAll, MarkTeamDeleted, Enroll, CountEnrollments,
           BulkEnroll, NextLearner, Withdraw, Fail, Read
    <2> QED BY <2>1, NobodyTransferred DEF rows
  <1>3. CASE UnassignTeamClass(p) \/ RestoreTeam(p) \/ RestoreUser(p)
    BY <1>3, NobodyTransferred DEF UnassignTeamClass, RestoreTeam, RestoreUser
  <1>4. CASE Commit(p)
    BY <1>4, WrittenArrives DEF Commit, Arriving
  <1>5. CASE SoftDeleteUser(p)
    BY <1>5, WrittenArrives DEF SoftDeleteUser, Arriving
  <1>6. CASE UpdateEnrollment(p) \/ BulkUpdateEnrollmentStatus(p)
    <2>1. PICK ids \in SUBSET DOMAIN enr, status \in Statuses : Overridden(p, ids, status)
      BY <1>6 DEF UpdateEnrollment, BulkUpdateEnrollmentStatus, Statuses
    <2>2. \A i \in DOMAIN enr : enr'[i].to = enr[i].to
      BY <2>1, Numbered DEF Overridden, Enrollment
    <2> QED BY <2>2, NobodyTransferred
  <1>7. CASE InsertActiveEnrollment(p)
    <2>1. PICK r : enr' = enr \/ enr' = Append(enr, r)
      BY <1>7 DEF InsertActiveEnrollment
    <2>2. \A i \in DOMAIN enr : enr'[i] = enr[i]
      BY <2>1 DEF Inv, TypeOK
    <2> QED BY <2>2, NobodyTransferred
  <1>8. CASE MarkDropped(p)
    <2>1. PICK k : enr' = [enr EXCEPT ![k].status = "Dropped"]
      BY <1>8 DEF MarkDropped
    <2>2. \A i \in DOMAIN enr : enr'[i].to = enr[i].to
      BY <2>1, Numbered DEF Enrollment
    <2> QED BY <2>2, NobodyTransferred
  <1> QED BY <1>1, <1>2, <1>3, <1>4, <1>5, <1>6, <1>7, <1>8

\* "no dual-membership half-state" (enrollment-transfer.js): the commit that
\* ends an enrollment as transferred enrolls the learner in the other team, or
\* finds that he already was.
THEOREM NobodyLeftBehind == Spec => TransferArrives
  <1>1. ASSUME Inv, [Next]_vars
        PROVE  [\A i \in DOMAIN enr :
                  enr[i].to = None /\ enr'[i].to # None =>
                    \E j \in DOMAIN enr' : enr'[j].who = enr[i].who /\ enr'[j].team = enr'[i].to]_vars
    <2>1. CASE UNCHANGED vars
      BY <2>1
    <2>2. CASE Next
      BY <1>1, <2>2, StepArrives DEF Next, Arrives
    <2> QED BY <1>1, <2>1, <2>2
  <1> QED BY <1>1, Invariant, PTL DEF Spec, TransferArrives

-----------------------------------------------------------------------------
(* Requests that take turns. Then the committed rows agree between any two *)
(* statements, and what the request at work has written says exactly how   *)
(* they will agree after its commit.                                       *)

Enrolled(t) == {enr[i].who : i \in ActiveIn(t)}

Agree ==
    /\ \A t \in Teams : Enrolled(t) = IF t \in Live THEN member[t] ELSE {}
    /\ \A t \in Teams : team[t].state = "absent" => member[t] = {}

OneClass == \A s, t \in Live : s # t /\ team[s].class = team[t].class => team[s].class = None

\* Nobody has ever enrolled directly.
AllByTeam == \A i \in DOMAIN enr : enr[i].team # None

OneTeam == AllByTeam => \A s, t \in Live : s # t => member[s] \cap member[t] = {}

\* An edit e was begun on the rows as they are. Once the class has been looked for,
\* no other team has it, except one that is about to lose it.
Current(e, losing) ==
    /\ e.old = member[e.team]
    /\ IF "state" \in DOMAIN e.set
       THEN e.set.state = "live" /\ "class" \in DOMAIN e.set /\ team[e.team].state = "absent"
       ELSE e.team \in Live
    /\ e.step # "class" /\ "class" \in DOMAIN e.set =>
          \A s \in Live \ {e.team, losing} : team[s].class = e.set.class => e.set.class = None

\* The columns of the team's row it has written.
OwnRow(e, w) == w.team = (IF e.set = <<>> THEN None ELSE e.team) /\ w.set = e.set

NothingElse(w) == w.del = {} /\ w.ins = {} /\ w.end = <<>> /\ w.add = <<>>

Own(e) == {e.team} \X e.old

Joining(e) == e.members \ e.old
Leaving(e) == e.old \ e.members

\* The learners whose other enrollment has been looked for.
Sought(q) ==
    (Joining(SyncOf(q)) \ SyncOf(q).todo) \cup (IF q.step \in {"seek", "enroll"} THEN {q.who} ELSE {})

\* How far a synchronisation has come, in the members' rows it deletes ...
PairsSynced(q, w) ==
    LET e == SyncOf(q) IN
    /\ w.ins = {e.team} \X e.members
    /\ \A x \in Learners : <<e.team, x>> \in w.del <=> x \in e.old
    /\ \A s \in Teams \ {e.team}, x \in Learners : <<s, x>> \in w.del =>
          \E i \in ActiveIn(s) : enr[i].who = x /\ i \in DOMAIN w.end
    /\ AllByTeam => \A s \in Live \ {e.team} : \A x \in member[s] \cap Sought(q) : <<s, x>> \in w.del

\* ... and in the enrollments it ends and adds.
EnrSynced(q, w) ==
    LET e == SyncOf(q) IN
    /\ \A x \in Learners : x \in Joining(e) \ e.todo <=> \E j \in DOMAIN w.add : w.add[j].who = x
    /\ \A i \in ActiveIn(e.team) : i \in DOMAIN w.end <=> enr[i].who \in Leaving(e) \ e.left
    /\ \A s \in Teams \ {e.team} : \A i \in ActiveIn(s) : i \in DOMAIN w.end =>
          \/ <<s, enr[i].who>> \in w.del
          \/ q.step = "pull" /\ q.from = s /\ q.who = enr[i].who

Synced(q, w) ==
    LET e == SyncOf(q) IN
    /\ e.members \in SUBSET Learners /\ e.todo \subseteq Joining(e) /\ e.left \subseteq Leaving(e)
    /\ OwnRow(e, w) /\ PairsSynced(q, w) /\ EnrSynced(q, w)
    /\ q.step \in {"close", "pull"} =>
          q.id \in Active /\ enr[q.id].who = q.who /\ enr[q.id].team = q.from /\ q.from # e.team
    /\ q.step = "pull" => q.id \in DOMAIN w.end
    /\ q.step = "drop" => q.id \in ActiveIn(e.team) /\ q.who \in e.left

\* The user's rows a deletion has come to.
PairsOf(x) == {pair \in Pairs : pair[2] = x}
ActiveOf(x) == {i \in Active : enr[i].who = x}

Begun == {"idle", "class", "conflict", "write", "unassign", "count", "place", "each", "withdraw"}

EditKnows(q, w) ==
    /\ q \in Edits => Current(q, None)
    /\ q \in Unassigns => q.holder \in Live /\ Current(q.then, q.holder)
    /\ q \in Deletes /\ q.then \in Edits =>
          /\ Current(q.then, None) /\ OwnRow(q.then, w) /\ NothingElse(w)
          /\ q.pairs = Own(q.then)
    /\ q \in Edits /\ q.step \in {"delete", "commit"} => OwnRow(q, w) /\ NothingElse(w)
    /\ q.step = "insert" =>
          OwnRow(q, w) /\ w.del = Own(q) /\ w.ins = {} /\ w.end = <<>> /\ w.add = <<>>
    /\ q.step \in SyncSteps => Current(SyncOf(q), None) /\ Synced(q, w)

LeaveKnows(q, w) ==
    /\ q \in Leaves /\ q.step = "delete" => w = NoWrites
    /\ q \in Deletes /\ q.then \in Leaves => w = NoWrites /\ q.pairs = PairsOf(q.then.user)
    /\ q \in Leaves /\ q.step = "drop all" => w = [NoWrites EXCEPT !.del = PairsOf(q.user)]
    /\ q \in Drops /\ q.then \in Leaves =>
          w = [NoWrites EXCEPT !.del = PairsOf(q.then.user)] /\ q.ids = ActiveOf(q.then.user)
    /\ q \in Leaves /\ q.step = "mark" =>
          w.del = PairsOf(q.user) /\ w.ins = {} /\ w.add = <<>> /\ DOMAIN w.end = ActiveOf(q.user)

DeletionKnows(q, w) ==
    /\ q \in Deletions => q.team \in Live
    /\ q \in Deletions /\ q.step = "drop all" => w = NoWrites
    /\ q \in Drops /\ q.then \in Deletions =>
          q.then.team \in Live /\ w = NoWrites /\ q.ids = ActiveIn(q.then.team)
    /\ q \in Deletions /\ q.step \in {"mark", "commit"} =>
          w.del = {} /\ w.ins = {} /\ w.add = <<>> /\ DOMAIN w.end = ActiveIn(q.team)
    /\ q \in Deletions /\ q.step = "commit" => w.team = q.team /\ w.set = [state |-> "deleted"]

Knows(q, w) ==
    /\ q.step \in Begun => w = NoWrites
    /\ q.step = "withdraw" => enr[q.id].team = None
    /\ EditKnows(q, w) /\ LeaveKnows(q, w) /\ DeletionKnows(q, w)

Calm ==
    /\ \A p, q \in Operators : op[p] # Idle /\ op[q] # Idle => p = q
    /\ Agree /\ OneClass /\ OneTeam
    /\ \A p \in Operators, q \in Requests, w \in Writes : op[p] = q /\ tx[p] = w => Knows(q, w)

Turns == orderly => Calm

\* No request has two shapes that Knows tells apart.
LEMMA OneShape ==
    ASSUME NEW q
    PROVE  /\ q \in Edits => q \notin Leaves \cup Deletions \cup Unassigns \cup Deletes \cup Drops
           /\ q \in Leaves => q \notin Edits \cup Deletions \cup Unassigns \cup Deletes \cup Drops
           /\ q \in Deletions => q \notin Edits \cup Leaves \cup Unassigns \cup Deletes \cup Drops
           /\ q \in Unassigns => q \notin Edits \cup Leaves \cup Deletions \cup Deletes \cup Drops
           /\ q \in Deletes => q \notin Edits \cup Leaves \cup Deletions \cup Unassigns \cup Drops
           /\ q \in Drops => q \notin Edits \cup Leaves \cup Deletions \cup Unassigns \cup Deletes
           /\ q \in Seeks \cup Closes \cup Parts \cup Counts \cup Placings \cup Rounds
                    \cup Withdrawals \cup {Idle} =>
                q \notin Edits \cup Leaves \cup Deletions \cup Unassigns \cup Deletes \cup Drops
  <1>1. /\ q \in Edits => q.step \in EditStepNames
        /\ q \in Leaves => q.step \in {"delete", "drop all", "mark"}
        /\ q \in Deletions => q.step \in {"drop all", "mark", "commit"}
    BY DEF Edits, Leaves, Deletions, EditStepNames
  <1>2. /\ q \in Unassigns => q.step = "unassign"
        /\ q \in Deletes => q.step = "deleting"
        /\ q \in Drops => q.step = "dropping"
    BY DEF Unassigns, Deletes, Drops
  <1>3. q \in Seeks \cup Closes \cup Parts \cup Counts \cup Placings \cup Rounds
              \cup Withdrawals \cup {Idle} =>
          q.step \in {"seek", "enroll", "close", "pull", "drop", "count", "place", "each",
                      "withdraw", "idle"}
    <2>1. Idle.step = "idle"
      BY DEF Idle
    <2> QED BY <2>1 DEF Seeks, Closes, Parts, Counts, Placings, Rounds, Withdrawals
  <1>4. /\ q \in Edits => q \notin Leaves /\ q \notin Deletions
        /\ q \in Leaves => q \notin Deletions
    BY Fields
  <1>5. /\ q \in Edits \cup Leaves \cup Deletions =>
             q.step \notin {"unassign", "deleting", "dropping"}
        /\ q \in Edits \cup Leaves \cup Deletions =>
             q.step \notin {"seek", "enroll", "close", "pull", "drop", "count", "place", "each",
                            "withdraw", "idle"}
    BY <1>1 DEF EditStepNames
  <1> QED BY <1>2, <1>3, <1>4, <1>5

\* What each kind of request has to know, and nothing else.
LEMMA SimpleKnows ==
    ASSUME NEW q \in {Idle} \cup Counts \cup Placings \cup Rounds
    PROVE  Knows(q, NoWrites)
  <1>1. q.step \in {"count", "place", "each", "idle"}
    <2>1. Idle.step = "idle"
      BY DEF Idle
    <2> QED BY <2>1 DEF Counts, Placings, Rounds
  <1> QED BY <1>1, OneShape DEF Knows, EditKnows, LeaveKnows, DeletionKnows, SyncSteps

LEMMA BegunKnows ==
    ASSUME NEW q \in Edits, q.step \in {"class", "conflict", "write"}, Current(q, None)
    PROVE  Knows(q, NoWrites)
  BY OneShape DEF Knows, EditKnows, LeaveKnows, DeletionKnows, SyncSteps

LEMMA UnassignKnows ==
    ASSUME NEW q \in Unassigns, q.holder \in Live, Current(q.then, q.holder)
    PROVE  Knows(q, NoWrites)
  <1>1. q.step = "unassign"
    BY DEF Unassigns
  <1> QED BY <1>1, OneShape DEF Knows, EditKnows, LeaveKnows, DeletionKnows, SyncSteps

LEMMA WrittenKnows ==
    ASSUME NEW q \in Edits, q.step \in {"delete", "commit"}, Current(q, None), NEW w,
           OwnRow(q, w), NothingElse(w)
    PROVE  Knows(q, w)
  BY OneShape DEF Knows, EditKnows, LeaveKnows, DeletionKnows, SyncSteps, Begun

LEMMA DeletingKnows ==
    ASSUME NEW q \in Deletes, q.then \in Edits, Current(q.then, None), NEW w,
           OwnRow(q.then, w), NothingElse(w), q.pairs = Own(q.then)
    PROVE  Knows(q, w)
  <1>1. q.step = "deleting" /\ q.then \notin Leaves
    BY OneShape DEF Deletes
  <1> QED BY <1>1, OneShape DEF Knows, EditKnows, LeaveKnows, DeletionKnows, SyncSteps, Begun

LEMMA InsertKnows ==
    ASSUME NEW q \in Edits, q.step = "insert", Current(q, None), NEW w,
           OwnRow(q, w), w.del = Own(q), w.ins = {}, w.end = <<>>, w.add = <<>>
    PROVE  Knows(q, w)
  BY OneShape DEF Knows, EditKnows, LeaveKnows, DeletionKnows, SyncSteps, Begun

LEMMA SyncKnows ==
    ASSUME NEW q \in Edits \cup Seeks \cup Closes \cup Parts, q.step \in SyncSteps, NEW w,
           Current(SyncOf(q), None), Synced(q, w)
    PROVE  Knows(q, w)
  <1>1. /\ q \in Edits => SyncOf(q) = q
        /\ q \notin Leaves \cup Deletions \cup Unassigns \cup Deletes \cup Drops
    <2>1. q \in Edits => q.step = "sync"
      BY DEF Edits, SyncSteps
    <2> QED BY <2>1, OneShape DEF SyncOf
  <1> QED BY <1>1 DEF Knows, EditKnows, LeaveKnows, DeletionKnows, SyncSteps, Begun

LEMMA WithdrawKnows ==
    ASSUME NEW q \in Withdrawals, enr[q.id].team = None
    PROVE  Knows(q, NoWrites)
  <1>1. q.step = "withdraw"
    BY DEF Withdrawals
  <1> QED BY <1>1, OneShape DEF Knows, EditKnows, LeaveKnows, DeletionKnows, SyncSteps

LEMMA LeafKnows ==
    ASSUME NEW q \in Leaves, NEW w,
           q.step = "delete" => w = NoWrites,
           q.step = "drop all" => w = [NoWrites EXCEPT !.del = PairsOf(q.user)],
           q.step = "mark" =>
              w.del = PairsOf(q.user) /\ w.ins = {} /\ w.add = <<>>
              /\ DOMAIN w.end = ActiveOf(q.user)
    PROVE  Knows(q, w)
  <1>1. q.step \in {"delete", "drop all", "mark"}
    BY DEF Leaves
  <1> QED BY <1>1, OneShape DEF Knows, EditKnows, LeaveKnows, DeletionKnows, SyncSteps, Begun

LEMMA DeletingLeafKnows ==
    ASSUME NEW q \in Deletes, q.then \in Leaves, q.pairs = PairsOf(q.then.user)
    PROVE  Knows(q, NoWrites)
  <1>1. q.step = "deleting" /\ q.then \notin Edits
    BY OneShape DEF Deletes
  <1> QED BY <1>1, OneShape DEF Knows, EditKnows, LeaveKnows, DeletionKnows, SyncSteps, Begun

LEMMA DroppingKnows ==
    ASSUME NEW q \in Drops, NEW w,
           q.then \in Leaves => w = [NoWrites EXCEPT !.del = PairsOf(q.then.user)]
                                /\ q.ids = ActiveOf(q.then.user),
           q.then \in Deletions => q.then.team \in Live /\ w = NoWrites
                                   /\ q.ids = ActiveIn(q.then.team)
    PROVE  Knows(q, w)
  <1>1. q.step = "dropping"
    BY DEF Drops
  <1> QED BY <1>1, OneShape DEF Knows, EditKnows, LeaveKnows, DeletionKnows, SyncSteps, Begun

LEMMA DeletionStepKnows ==
    ASSUME NEW q \in Deletions, q.team \in Live, NEW w,
           q.step = "drop all" => w = NoWrites,
           q.step \in {"mark", "commit"} =>
              w.del = {} /\ w.ins = {} /\ w.add = <<>> /\ DOMAIN w.end = ActiveIn(q.team),
           q.step = "commit" => w.team = q.team /\ w.set = [state |-> "deleted"]
    PROVE  Knows(q, w)
  <1>1. q.step \in {"drop all", "mark", "commit"}
    BY DEF Deletions
  <1> QED BY <1>1, OneShape DEF Knows, EditKnows, LeaveKnows, DeletionKnows, SyncSteps, Begun

-----------------------------------------------------------------------------
(* Steps of a request that nobody interrupts.                              *)

Alone(p) == \A o \in Operators \ {p} : op[o] = Idle

LEMMA Undisturbed ==
    ASSUME Inv, Calm, NEW p \in Operators, op[p] # Idle
    PROVE  /\ Alone(p) /\ Knows(op[p], tx[p])
           /\ Agree /\ OneClass /\ OneTeam
           /\ \A i, j \in Active : enr[i].who = enr[j].who /\ enr[i].team = enr[j].team
                                  /\ enr[i].team # None => i = j
  <1>1. PICK q, w : q = op[p] /\ w = tx[p]
    OBVIOUS
  <1>2. q \in Requests /\ w \in Writes
    BY <1>1 DEF Inv, Fits
  <1>3. Knows(q, w)
    BY <1>1, <1>2 DEF Calm
  <1>4. Agree /\ OneClass /\ OneTeam /\ Alone(p)
    BY DEF Calm, Alone
  <1>5. \A i, j \in Active : enr[i].who = enr[j].who /\ enr[i].team = enr[j].team
                                /\ enr[i].team # None => i = j
    BY DEF Inv, Apart, Active, Clash
  <1> QED BY <1>1, <1>3, <1>4, <1>5

\* What it leaves is calm, if it knows the rows as they are then.
LEMMA CalmAfter ==
    ASSUME Inv, Calm, NEW p \in Operators, Alone(p), NEW q, NEW w, Become(p, q), Write(p, w),
           Agree', OneClass', OneTeam', Knows(q, w)'
    PROVE  Calm'
  <1>1. /\ op'[p] = q /\ tx'[p] = w
        /\ \A o \in Operators \ {p} : op'[o] = Idle /\ tx'[o] = tx[o]
    BY DEF Become, Write, Alone, Inv, Fits
  <1>2. ASSUME NEW o \in Operators \ {p}
        PROVE  tx'[o] = NoWrites
    <2>1. PICK i, n : i = op[o] /\ n = tx[o]
      OBVIOUS
    <2>2. i \in Requests /\ n \in Writes /\ i.step = "idle"
      BY <2>1 DEF Inv, Fits, Alone, Idle
    <2>3. Knows(i, n)
      BY <2>1, <2>2 DEF Calm
    <2> QED BY <1>1, <2>1, <2>2, <2>3 DEF Knows, Begun
  <1>3. PICK i, n : i = Idle /\ n = NoWrites
    OBVIOUS
  <1>4. Knows(i, n)'
    <2>1. i.step = "idle" /\ i \in {Idle}
      BY <1>3 DEF Idle
    <2> QED BY <1>3, <2>1, OneShape DEF Knows, EditKnows, LeaveKnows, DeletionKnows, SyncSteps
  <1>5. ASSUME NEW o \in Operators, NEW r \in Requests, NEW v \in Writes,
               op'[o] = r, tx'[o] = v
        PROVE  Knows(r, v)'
    <2>1. CASE o = p
      BY <1>1, <1>5, <2>1
    <2>2. CASE o # p
      BY <1>1, <1>2, <1>3, <1>4, <1>5, <2>2
    <2> QED BY <2>1, <2>2
  <1>6. \A r, o \in Operators : op'[r] # Idle /\ op'[o] # Idle => r = o
    BY <1>1
  <1> QED BY <1>5, <1>6 DEF Calm

\* As long as the rows stay the same, a request may go on counting on what it knows.
LEMMA RowsStay ==
    ASSUME UNCHANGED rows
    PROVE  /\ Agree => Agree'
           /\ OneClass => OneClass'
           /\ OneTeam => OneTeam'
  <1>1. UNCHANGED <<team, member, enr>>
    BY DEF rows
  <1> QED BY <1>1 DEF Agree, OneClass, OneTeam, AllByTeam, Enrolled, ActiveIn, Active, Live

LEMMA KnowsOn ==
    ASSUME UNCHANGED rows, NEW q, NEW w, Knows(q, w)
    PROVE  Knows(q, w)'
  <1>1. UNCHANGED <<team, member, enr>>
    BY DEF rows
  <1>2. /\ Live' = Live /\ Active' = Active /\ Pairs' = Pairs
        /\ AllByTeam' <=> AllByTeam
        /\ \A t : ActiveIn(t)' = ActiveIn(t)
    BY <1>1 DEF Live, Active, Pairs, AllByTeam, ActiveIn
  <1>3. /\ \A x : PairsOf(x)' = PairsOf(x) /\ ActiveOf(x)' = ActiveOf(x)
        /\ \A e, losing : Current(e, losing) => Current(e, losing)'
    BY <1>1, <1>2 DEF PairsOf, ActiveOf, Current
  <1>4. Synced(q, w) => Synced(q, w)'
    BY <1>1, <1>2 DEF Synced, PairsSynced, EnrSynced, Sought
  <1>5. EditKnows(q, w)'
    BY <1>1, <1>2, <1>3, <1>4 DEF Knows, EditKnows
  <1>6. LeaveKnows(q, w)'
    BY <1>1, <1>2, <1>3 DEF Knows, LeaveKnows
  <1>7. DeletionKnows(q, w)'
    BY <1>1, <1>2, <1>3 DEF Knows, DeletionKnows
  <1> QED BY <1>1, <1>5, <1>6, <1>7 DEF Knows

LEMMA CalmGoes ==
    ASSUME Inv, Calm, NEW p \in Operators, Alone(p), NEW q, NEW w, Become(p, q), Write(p, w),
           UNCHANGED rows, Knows(q, w)
    PROVE  Calm'
  <1>1. Agree' /\ OneClass' /\ OneTeam'
    BY RowsStay DEF Calm
  <1>2. Knows(q, w)'
    BY KnowsOn
  <1> QED BY <1>1, <1>2, CalmAfter

\* A request that begins, one that reads, one that writes.
LEMMA Beginning ==
    ASSUME Inv, Calm, NEW p \in Operators, NEW kind, Begin(p, kind), orderly'
    PROVE  /\ orderly /\ kind \notin {"override", "restore"}
           /\ op[p] = Idle /\ Alone(p) /\ tx[p] = NoWrites /\ Agree /\ OneClass
  <1>1. /\ orderly /\ kind \notin {"override", "restore"}
        /\ op[p] = Idle /\ Alone(p)
    BY DEF Begin, Alone
  <1>2. PICK q, w : q = op[p] /\ w = tx[p]
    OBVIOUS
  <1>3. q \in Requests /\ w \in Writes /\ q.step = "idle"
    BY <1>1, <1>2 DEF Inv, Fits, Idle
  <1>4. Knows(q, w)
    BY <1>2, <1>3 DEF Calm
  <1> QED BY <1>1, <1>2, <1>3, <1>4 DEF Knows, Begun, Calm

LEMMA StartsCalm ==
    ASSUME Inv, Calm, NEW p \in Operators, Alone(p), tx[p] = NoWrites, NEW q, Become(p, q),
           UNCHANGED <<rows, tx>>, Knows(q, NoWrites)
    PROVE  Calm'
  <1>1. Write(p, NoWrites)
    BY DEF Write, Inv, Fits
  <1> QED BY <1>1, CalmGoes

LEMMA ReadsCalm ==
    ASSUME Inv, Calm, NEW p \in Operators, op[p] # Idle, NEW q, NEW w, tx[p] = w, Become(p, q),
           UNCHANGED <<rows, tx>>, Knows(q, w)
    PROVE  Calm'
  <1>1. Write(p, w)
    BY DEF Write, Inv, Fits
  <1> QED BY <1>1, CalmGoes, Undisturbed

LEMMA WritesCalm ==
    ASSUME Inv, Calm, NEW p \in Operators, op[p] # Idle, NEW q, NEW w, Become(p, q), Write(p, w),
           UNCHANGED rows, Knows(q, w)
    PROVE  Calm'
  BY CalmGoes, Undisturbed

LEMMA CreateTeamCalm ==
    ASSUME Inv, Calm, NEW p \in Operators, CreateTeam(p), orderly'
    PROVE  Calm'
  <1>1. PICK t \in Teams, class \in Classes \cup {None}, leader \in Learners \cup {None},
             list \in SUBSET Learners, force \in BOOLEAN :
          /\ team[t].state = "absent"
          /\ LET members == list \cup ({leader} \ {None}) IN
             Read(p, Edit(FirstCheck(class, members), t,
                          [state |-> "live", class |-> class, leader |-> leader],
                          force, members, {}, class, 0))
    BY DEF CreateTeam
  <1> DEFINE members == list \cup ({leader} \ {None})
             set == [state |-> "live", class |-> class, leader |-> leader]
  <1>2. members \in SUBSET Learners
    OBVIOUS
  <1>3. /\ set \in Columns /\ DOMAIN set = {"state", "class", "leader"}
        /\ set.state = "live" /\ set.class = class
    BY DEF Columns, ColumnsOK, Places, Leaders
  <1>4. \E kind : Begin(p, kind)
    BY DEF CreateTeam
  <1> HIDE DEF members, set
  <1>5. PICK step : step = FirstCheck(class, members)
    OBVIOUS
  <1>6. PICK q : q = Edit(step, t, set, force, members, {}, class, 0)
    OBVIOUS
  <1>7. q \in Edits /\ step \in {"class", "conflict", "write"} /\ (step # "class" => class = None)
    <2>1. /\ step \in {"class", "conflict", "write"} /\ (step = "conflict" => members # Keep)
          /\ step # "class" => class = None
      BY <1>5, CheckOrder DEF FirstCheck
    <2>2. class \in Places
      BY DEF Places
    <2>3. 0 \in Nat /\ {} \in SUBSET Learners /\ members \in (SUBSET Learners) \cup {Keep}
      BY <1>2
    <2>4. Edit(step, t, set, force, members, {}, class, 0) \in Edits
      BY <1>3, <2>1, <2>2, <2>3, EditTyped
    <2> QED BY <1>6, <2>1, <2>4
  <1>8. q.step = step /\ q.team = t /\ q.set = set /\ q.old = {}
    BY <1>6 DEF Edit
  <1>9. /\ op[p] = Idle /\ Alone(p) /\ tx[p] = NoWrites /\ Agree /\ OneClass
        /\ Become(p, q) /\ UNCHANGED <<rows, tx>>
    BY <1>1, <1>4, <1>5, <1>6, Beginning DEF Read, members, set
  <1>10. member[t] = {}
    BY <1>1, <1>9 DEF Agree
  <1>11. Current(q, None)
    BY <1>1, <1>3, <1>7, <1>8, <1>10 DEF Current
  <1>12. Knows(q, NoWrites)
    BY <1>7, <1>8, <1>11, BegunKnows
  <1> QED BY <1>9, <1>12, StartsCalm

LEMMA UpdateTeamCalm ==
    ASSUME Inv, Calm, NEW p \in Operators, UpdateTeam(p), orderly'
    PROVE  Calm'
  <1>1. PICK t \in Live, class \in Classes \cup {None, Keep}, leader \in Learners \cup {Keep},
             list \in {Keep} \cup (SUBSET Learners), force \in BOOLEAN :
          /\ force => class \in Classes
          /\ LET given == [class |-> class, leader |-> leader]
                 set == [f \in {g \in {"class", "leader"} : given[g] # Keep} |-> given[f]]
                 lead == {IF leader = Keep THEN team[t].leader ELSE leader} \ {None}
                 members == IF list = Keep THEN Keep ELSE list \cup lead
             IN /\ DOMAIN set # {} \/ list # Keep
                /\ Read(p, Edit(FirstCheck(class, members), t, set, force, members, member[t],
                                IF class = Keep THEN team[t].class ELSE class, 0))
    BY DEF UpdateTeam
  <1> DEFINE given == [class |-> class, leader |-> leader]
             set == [f \in {g \in {"class", "leader"} : given[g] # Keep} |-> given[f]]
             lead == {IF leader = Keep THEN team[t].leader ELSE leader} \ {None}
             members == IF list = Keep THEN Keep ELSE list \cup lead
             final == IF class = Keep THEN team[t].class ELSE class
  <1>2. /\ t \in Teams /\ team[t].leader \in Leaders /\ team[t].class \in Places
        /\ member[t] \in SUBSET Learners
    BY DEF Live, Inv, TypeOK, Team, Places, Leaders
  <1>3. members \in (SUBSET Learners) \cup {Keep} /\ final \in Places
    BY <1>2 DEF Places, Leaders
  <1>4. set \in Columns
    BY DEF Columns, ColumnsOK, Places, Leaders
  <1>5. "state" \notin DOMAIN set /\ ("class" \in DOMAIN set => set.class = class /\ class # Keep)
    OBVIOUS
  <1>6. \E kind : Begin(p, kind)
    BY DEF UpdateTeam
  <1> HIDE DEF given, set, lead, members, final
  <1>7. PICK step, old : step = FirstCheck(class, members) /\ old = member[t]
    OBVIOUS
  <1>8. PICK q : q = Edit(step, t, set, force, members, old, final, 0)
    OBVIOUS
  <1>9. q \in Edits /\ step \in {"class", "conflict", "write"}
        /\ (step # "class" => class \notin Classes)
    <2>1. /\ step \in {"class", "conflict", "write"} /\ (step = "conflict" => members # Keep)
          /\ step # "class" => class \notin Classes
      BY <1>7, CheckOrder DEF FirstCheck
    <2>2. 0 \in Nat /\ old \in SUBSET Learners
      BY <1>2, <1>7
    <2>3. Edit(step, t, set, force, members, old, final, 0) \in Edits
      BY <1>2, <1>3, <1>4, <2>1, <2>2, EditTyped
    <2> QED BY <1>8, <2>1, <2>3
  <1>10. q.step = step /\ q.team = t /\ q.set = set /\ q.old = old
    BY <1>8 DEF Edit
  <1>11. /\ op[p] = Idle /\ Alone(p) /\ tx[p] = NoWrites
         /\ Become(p, q) /\ UNCHANGED <<rows, tx>>
    BY <1>1, <1>6, <1>7, <1>8, Beginning DEF Read, given, set, lead, members, final
  <1>12. Current(q, None)
    BY <1>5, <1>7, <1>9, <1>10 DEF Current
  <1>13. Knows(q, NoWrites)
    BY <1>9, <1>10, <1>12, BegunKnows
  <1> QED BY <1>11, <1>13, StartsCalm

LEMMA TransferCalm ==
    ASSUME Inv, Calm, NEW p \in Operators, TransferEnrollment(p), orderly'
    PROVE  Calm'
  <1>1. PICK i \in Active, t \in Live :
          Read(p, Edit("write", t, <<>>, FALSE, member[t] \cup {enr[i].who}, member[t],
                       team[t].class, i))
    BY DEF TransferEnrollment
  <1>2. /\ t \in Teams /\ team[t].class \in Places
        /\ member[t] \in SUBSET Learners /\ i \in DOMAIN enr
    BY DEF Live, Active, Inv, TypeOK, Team, Places
  <1>3. i \in Nat /\ enr[i].who \in Learners
    BY <1>2, Numbered DEF Enrollment
  <1>4. member[t] \cup {enr[i].who} \in (SUBSET Learners) \cup {Keep} /\ <<>> \in Columns
    <2>1. member[t] \cup {enr[i].who} \in (SUBSET Learners) \cup {Keep}
      BY <1>2, <1>3
    <2>2. <<>> \in Columns
      BY DEF Columns, ColumnsOK, Places, Leaders
    <2> QED BY <2>1, <2>2
  <1>5. PICK members, old, class :
          members = member[t] \cup {enr[i].who} /\ old = member[t] /\ class = team[t].class
    OBVIOUS
  <1>6. PICK q : q = Edit("write", t, <<>>, FALSE, members, old, class, i)
    OBVIOUS
  <1>7. q \in Edits
    BY <1>2, <1>3, <1>4, <1>5, <1>6, EditTyped
  <1>8. q.step = "write" /\ q.team = t /\ q.set = <<>> /\ q.old = old
    BY <1>6 DEF Edit
  <1>9. \E kind : Begin(p, kind)
    BY DEF TransferEnrollment
  <1>10. /\ op[p] = Idle /\ Alone(p) /\ tx[p] = NoWrites
         /\ Become(p, q) /\ UNCHANGED <<rows, tx>>
    BY <1>1, <1>5, <1>6, <1>9, Beginning DEF Read
  <1>11. DOMAIN q.set = {}
    BY <1>8
  <1>12. Current(q, None)
    BY <1>5, <1>8, <1>11 DEF Current
  <1>13. Knows(q, NoWrites)
    BY <1>7, <1>8, <1>12, BegunKnows
  <1> QED BY <1>10, <1>13, StartsCalm

-----------------------------------------------------------------------------
(* An edit up to the synchronisation.                                      *)

\* Another step of an edit, the rows being as they were.
LEMMA CurrentKept ==
    ASSUME NEW e, NEW f, NEW losing, Current(e, losing),
           f.team = e.team, f.set = e.set, f.old = e.old,
           f.step = "class" \/ e.step # "class"
    PROVE  Current(f, losing)
  BY DEF Current

\* An edit that has only come to its next step.
LEMMA Stepped ==
    ASSUME NEW q \in Edits, NEW s \in EditStepNames,
           s \in {"conflict", "delete", "insert"} => q.members # Keep,
           NEW f, f = [q EXCEPT !.step = s]
    PROVE  /\ f \in Edits /\ f.step = s /\ f.team = q.team /\ f.set = q.set /\ f.old = q.old
           /\ f.members = q.members /\ f.todo = q.todo /\ f.left = q.left
  <1>1. f \in Edits /\ f.step = s
    BY EditMoves
  <1>2. /\ f.team = q.team /\ f.set = q.set /\ f.old = q.old
        /\ f.members = q.members /\ f.todo = q.todo /\ f.left = q.left
    BY DEF Edits
  <1> QED BY <1>1, <1>2

LEMMA FindTeamByClassCalm ==
    ASSUME Inv, Calm, NEW p \in Operators, FindTeamByClass(p)
    PROVE  Calm'
  <1>1. PICK q, w : q = op[p] /\ w = tx[p]
    OBVIOUS
  <1>2. q.step = "class" /\ q \in Requests /\ q # Idle
    <2>1. q.step = "class"
      BY <1>1 DEF FindTeamByClass
    <2>2. q \in Requests
      BY <1>1, AtStep
    <2> QED BY <2>1, <2>2 DEF Idle
  <1>3. q \in Edits /\ q.team \in Teams
    <2>1. q \in Edits
      BY <1>2, Shapes
    <2> QED BY <2>1 DEF Edits
  <1>4. Current(q, None) /\ w = NoWrites /\ OneClass
    BY <1>1, <1>2, <1>3, Undisturbed DEF Knows, EditKnows, Begun
  <1>5. PICK step, class : step = FirstCheck(None, q.members) /\ class = q.set["class"]
    OBVIOUS
  <1>6. PICK f : f = [q EXCEPT !.step = step]
    OBVIOUS
  <1>7. step \in {"conflict", "write"} /\ (step = "conflict" => q.members # Keep)
    BY <1>5, MembershipAssumption, CheckOrder
  <1>8. /\ f \in Edits /\ f.step = step
        /\ f.team = q.team /\ f.set = q.set /\ f.old = q.old
    <2>1. step \in EditStepNames /\ (step \in {"conflict", "delete", "insert"} => q.members # Keep)
      BY <1>7 DEF EditStepNames
    <2> QED BY <1>3, <1>6, <2>1, Stepped
  <1>9. PICK holders : holders = {s \in Live \ {q.team} : team[s].class = class}
    OBVIOUS
  <1>10. /\ UNCHANGED <<rows, tx>>
         /\ IF holders = {} THEN Become(p, f)
            ELSE \E s \in holders : Become(p, [step |-> "unassign", holder |-> s, then |-> f])
    BY <1>1, <1>5, <1>6, <1>9 DEF FindTeamByClass, Read
  <1>11. CASE holders = {}
    <2>1. Current(f, None)
      BY <1>4, <1>5, <1>7, <1>8, <1>9, <1>11 DEF Current
    <2>2. Knows(f, NoWrites)
      BY <1>7, <1>8, <2>1, BegunKnows
    <2> QED BY <1>1, <1>2, <1>4, <1>10, <1>11, <2>2, ReadsCalm
  <1>12. ASSUME NEW s \in holders, Become(p, [step |-> "unassign", holder |-> s, then |-> f])
         PROVE  Calm'
    <2>1. s \in Live /\ s \in Teams /\ s # q.team /\ team[s].class = class
      BY <1>9 DEF Live
    <2>2. PICK u : u = [step |-> "unassign", holder |-> s, then |-> f]
      OBVIOUS
    <2>3. u \in Unassigns /\ u.holder = s /\ u.then = f
      BY <1>8, <2>1, <2>2 DEF Unassigns
    <2>4. \A r \in Live \ {q.team, s} : team[r].class = q.set.class => q.set.class = None
      BY <1>4, <1>5, <2>1 DEF OneClass
    <2>5. Current(f, s)
      BY <1>4, <1>8, <2>1, <2>4 DEF Current
    <2>6. Knows(u, NoWrites)
      BY <2>1, <2>3, <2>5, UnassignKnows
    <2> QED BY <1>1, <1>2, <1>4, <1>10, <1>12, <2>2, <2>6, ReadsCalm
  <1> QED BY <1>10, <1>11, <1>12

LEMMA UnassignTeamClassCalm ==
    ASSUME Inv, Calm, NEW p \in Operators, UnassignTeamClass(p)
    PROVE  Calm'
  <1>1. PICK q, w : q = op[p] /\ w = tx[p]
    OBVIOUS
  <1>2. q.step = "unassign" /\ q \in Requests /\ q # Idle /\ Steady(q)
    <2>1. q.step = "unassign"
      BY <1>1 DEF UnassignTeamClass
    <2>2. q \in Requests /\ Steady(q)
      BY <1>1, AtStep
    <2> QED BY <2>1, <2>2 DEF Idle
  <1>3. q \in Unassigns
    BY <1>2, Shapes
  <1>4. PICK s, f : s = q.holder /\ f = q.then
    OBVIOUS
  <1>5. /\ s \in Live /\ Current(f, s) /\ w = NoWrites /\ OneClass /\ OneTeam /\ Agree /\ Alone(p)
        /\ f \in Edits /\ f.step \in {"conflict", "write"}
    <2>1. /\ s \in Live /\ Current(f, s) /\ w = NoWrites /\ OneClass /\ OneTeam /\ Agree
          /\ Alone(p)
      BY <1>1, <1>2, <1>3, <1>4, Undisturbed DEF Knows, EditKnows, Begun
    <2>2. f \in Edits /\ f.step \in {"conflict", "write"}
      BY <1>2, <1>3, <1>4 DEF Unassigns, Steady
    <2> QED BY <2>1, <2>2
  <1>6. /\ team' = [team EXCEPT ![s].class = None]
        /\ UNCHANGED <<member, enr, gone, tx>> /\ Become(p, f)
    BY <1>1, <1>4 DEF UnassignTeamClass
  <1>7. /\ \A t \in Teams : team'[t].state = team[t].state
        /\ \A t \in Teams \ {s} : team'[t].class = team[t].class
        /\ team'[s].class = None
    <2>1. s \in Teams /\ \A t \in Teams : team[t] \in Team
      BY <1>5 DEF Live, Inv, TypeOK
    <2>2. \A t \in Teams \ {s} : team'[t] = team[t]
      BY <1>6 DEF Inv, TypeOK
    <2>3. team'[s] = [team[s] EXCEPT !.class = None]
      BY <1>6, <2>1 DEF Inv, TypeOK
    <2>4. team'[s].class = None /\ team'[s].state = team[s].state
      BY <2>1, <2>3 DEF Team
    <2> QED BY <2>2, <2>4
  <1>8. /\ Live' = Live /\ Active' = Active /\ (AllByTeam' <=> AllByTeam)
        /\ \A t : ActiveIn(t)' = ActiveIn(t) /\ Enrolled(t)' = Enrolled(t)
    BY <1>6, <1>7 DEF Live, Active, AllByTeam, ActiveIn, Enrolled
  <1>9. Agree'
    BY <1>5, <1>6, <1>7, <1>8 DEF Agree
  <1>10. OneClass'
    BY <1>5, <1>7, <1>8 DEF OneClass, Live
  <1>11. OneTeam'
    BY <1>5, <1>6, <1>8 DEF OneTeam
  <1>12. Current(f, None)'
    <2>1. f.team \in Teams
      BY <1>5 DEF Edits
    <2>2. /\ f.old = member'[f.team]
          /\ IF "state" \in DOMAIN f.set
             THEN f.set.state = "live" /\ "class" \in DOMAIN f.set
                  /\ team'[f.team].state = "absent"
             ELSE f.team \in Live'
      BY <1>5, <1>6, <1>7, <1>8, <2>1 DEF Current
    <2>3. ASSUME "class" \in DOMAIN f.set, NEW r \in Live', r \notin {f.team, None},
                 team'[r].class = f.set.class
          PROVE  f.set.class = None
      BY <1>5, <1>7, <1>8, <2>3 DEF Current, Live
    <2> QED BY <2>2, <2>3 DEF Current
  <1>13. Knows(f, NoWrites)'
    BY <1>5, <1>12, OneShape DEF Knows, EditKnows, LeaveKnows, DeletionKnows, SyncSteps
  <1>14. Write(p, NoWrites)
    BY <1>1, <1>5, <1>6 DEF Write, Inv, Fits
  <1> QED BY <1>5, <1>6, <1>9, <1>10, <1>11, <1>13, <1>14, CalmAfter

LEMMA CheckMemberConflictsCalm ==
    ASSUME Inv, Calm, NEW p \in Operators, CheckMemberConflicts(p)
    PROVE  Calm'
  <1>1. PICK q, w : q = op[p] /\ w = tx[p]
    OBVIOUS
  <1>2. q.step = "conflict" /\ q \in Requests /\ q # Idle
    <2>1. q.step = "conflict"
      BY <1>1 DEF CheckMemberConflicts
    <2>2. q \in Requests
      BY <1>1, AtStep
    <2> QED BY <2>1, <2>2 DEF Idle
  <1>3. q \in Edits
    BY <1>2, Shapes
  <1>4. Current(q, None) /\ w = NoWrites
    BY <1>1, <1>2, <1>3, Undisturbed DEF Knows, EditKnows, Begun
  <1>5. PICK f : f = [q EXCEPT !.step = "write"]
    OBVIOUS
  <1>6. f \in Edits /\ f.step = "write" /\ f.team = q.team /\ f.set = q.set /\ f.old = q.old
    <2>1. "write" \in EditStepNames /\ "write" \notin {"conflict", "delete", "insert"}
      BY DEF EditStepNames
    <2> QED BY <1>3, <1>5, <2>1, Stepped
  <1>7. Current(f, None)
    BY <1>2, <1>4, <1>6, CurrentKept
  <1>8. Knows(f, NoWrites)
    BY <1>6, <1>7, BegunKnows
  <1>9. Become(p, f) /\ UNCHANGED <<rows, tx>>
    BY <1>1, <1>5 DEF CheckMemberConflicts, Read
  <1> QED BY <1>1, <1>2, <1>4, <1>8, <1>9, ReadsCalm

LEMMA WriteTeamRowCalm ==
    ASSUME Inv, Calm, NEW p \in Operators, WriteTeamRow(p)
    PROVE  Calm'
  <1>1. PICK q : q = op[p]
    OBVIOUS
  <1>2. q.step = "write" /\ q \in Requests /\ q # Idle
    <2>1. q.step = "write"
      BY <1>1 DEF WriteTeamRow
    <2>2. q \in Requests
      BY <1>1, AtStep
    <2> QED BY <2>1, <2>2 DEF Idle
  <1>3. q \in Edits
    BY <1>2, Shapes
  <1>4. Current(q, None)
    BY <1>1, <1>2, <1>3, Undisturbed DEF Knows, EditKnows
  <1>5. PICK v : v = IF q.set = <<>> THEN NoWrites
                     ELSE [NoWrites EXCEPT !.team = q.team, !.set = q.set]
    OBVIOUS
  <1>6. OwnRow(q, v) /\ NothingElse(v)
    BY <1>5 DEF NoWrites, OwnRow, NothingElse
  <1>7. PICK s : s = IF q.members = Keep THEN "commit" ELSE "delete"
    OBVIOUS
  <1>8. PICK f : f = [q EXCEPT !.step = s]
    OBVIOUS
  <1>9. /\ f \in Edits /\ f.step = s /\ s \in {"commit", "delete"}
        /\ f.team = q.team /\ f.set = q.set /\ f.old = q.old
    <2>1. /\ s \in {"commit", "delete"} /\ s \in EditStepNames
          /\ s \in {"conflict", "delete", "insert"} => q.members # Keep
      BY <1>7 DEF EditStepNames
    <2> QED BY <1>3, <1>8, <2>1, Stepped
  <1>10. Current(f, None) /\ OwnRow(f, v)
    BY <1>2, <1>4, <1>6, <1>9, CurrentKept DEF OwnRow
  <1>11. Knows(f, v)
    BY <1>6, <1>9, <1>10, WrittenKnows
  <1>12. Become(p, f) /\ Write(p, v) /\ UNCHANGED rows
    BY <1>1, <1>5, <1>7, <1>8 DEF WriteTeamRow
  <1> QED BY <1>1, <1>2, <1>11, <1>12, WritesCalm

\* What a statement writes of one kind leaves the rest of the writes alone.
LEMMA WriteOne ==
    ASSUME NEW w \in Writes, NEW v
    PROVE  /\ LET n == [w EXCEPT !.del = v] IN
              /\ n.del = v /\ n.team = w.team /\ n.set = w.set
              /\ n.ins = w.ins /\ n.end = w.end /\ n.add = w.add
           /\ LET n == [w EXCEPT !.ins = v] IN
              /\ n.ins = v /\ n.team = w.team /\ n.set = w.set
              /\ n.del = w.del /\ n.end = w.end /\ n.add = w.add
           /\ LET n == [w EXCEPT !.end = v] IN
              /\ n.end = v /\ n.team = w.team /\ n.set = w.set
              /\ n.del = w.del /\ n.ins = w.ins /\ n.add = w.add
           /\ LET n == [w EXCEPT !.add = v] IN
              /\ n.add = v /\ n.team = w.team /\ n.set = w.set
              /\ n.del = w.del /\ n.ins = w.ins /\ n.end = w.end
  BY DEF Writes

LEMMA StartDeleteCalm ==
    ASSUME Inv, Calm, NEW p \in Operators, StartDelete(p)
    PROVE  Calm'
  <1>1. PICK q, w : q = op[p] /\ w = tx[p]
    OBVIOUS
  <1>2. q.step = "delete" /\ q \in Requests /\ q # Idle
    <2>1. q.step = "delete"
      BY <1>1 DEF StartDelete
    <2>2. q \in Requests
      BY <1>1, AtStep
    <2> QED BY <2>1, <2>2 DEF Idle
  <1>3. q \in Edits \cup Leaves
    BY <1>2, Shapes
  <1>4. PICK found : found = Found(q)
    OBVIOUS
  <1>5. PICK d : d = [step |-> "deleting", pairs |-> found, then |-> q]
    OBVIOUS
  <1>6. found \in SUBSET Members
    BY <1>4 DEF Found, Pairs, Members
  <1>7. d \in Deletes /\ d.then = q /\ d.pairs = found
    BY <1>3, <1>5, <1>6 DEF Deletes
  <1>8. Knows(q, w)
    BY <1>1, <1>2, Undisturbed
  <1>9. Knows(d, w)
    <2>1. CASE q \in Edits
      <3>1. Current(q, None) /\ OwnRow(q, w) /\ NothingElse(w)
        BY <1>2, <1>8, <2>1 DEF Knows, EditKnows
      <3>2. q.team \in Teams /\ member[q.team] \in SUBSET Learners /\ "user" \notin DOMAIN q
        BY <2>1, Fields DEF Edits, Inv, TypeOK
      <3>3. found = {pair \in Pairs : pair[1] = q.team}
        BY <1>4, <3>2 DEF Found
      <3>4. {pair \in Pairs : pair[1] = q.team} = {q.team} \X member[q.team]
        BY <3>2 DEF Pairs
      <3>5. found = Own(q)
        BY <3>1, <3>3, <3>4 DEF Own, Current
      <3> QED BY <1>7, <2>1, <3>1, <3>5, DeletingKnows
    <2>2. CASE q \in Leaves
      <3>1. w = NoWrites
        BY <1>2, <1>8, <2>2 DEF Knows, LeaveKnows
      <3>2. found = PairsOf(q.user)
        BY <1>4, <2>2, Fields DEF Found, PairsOf
      <3> QED BY <1>7, <2>2, <3>1, <3>2, DeletingLeafKnows
    <2> QED BY <1>3, <2>1, <2>2
  <1>10. Become(p, d) /\ UNCHANGED <<rows, tx>>
    BY <1>1, <1>4, <1>5 DEF StartDelete, Read
  <1> QED BY <1>1, <1>2, <1>9, <1>10, ReadsCalm

LEMMA FinishDeleteCalm ==
    ASSUME Inv, Calm, NEW p \in Operators, FinishDelete(p)
    PROVE  Calm'
  <1>1. PICK q, w : q = op[p] /\ w = tx[p]
    OBVIOUS
  <1>2. q.step = "deleting" /\ q \in Requests /\ q # Idle /\ Steady(q) /\ w \in Writes
    <2>1. q.step = "deleting"
      BY <1>1 DEF FinishDelete
    <2>2. q \in Requests /\ Steady(q) /\ w \in Writes
      BY <1>1, AtStep
    <2> QED BY <2>1, <2>2 DEF Idle
  <1>3. q \in Deletes
    BY <1>2, Shapes
  <1>4. PICK e, del : e = q.then /\ del = {pair \in q.pairs : pair[2] \in member[pair[1]]}
    OBVIOUS
  <1>5. PICK v : v = [w EXCEPT !.del = del]
    OBVIOUS
  <1>6. /\ v.del = del /\ v.team = w.team /\ v.set = w.set
        /\ v.ins = w.ins /\ v.end = w.end /\ v.add = w.add
    BY <1>2, <1>5, WriteOne
  <1>7. e \in Edits \cup Leaves /\ e.step = "delete" /\ Knows(q, w)
    BY <1>1, <1>2, <1>3, <1>4, Undisturbed DEF Deletes, Steady
  <1>8. PICK s, f : /\ s = IF "user" \in DOMAIN e THEN "drop all" ELSE "insert"
                    /\ f = [e EXCEPT !.step = s]
    OBVIOUS
  <1>9. Knows(f, v)
    <2>1. CASE e \in Edits
      <3>1. Current(e, None) /\ OwnRow(e, w) /\ NothingElse(w) /\ q.pairs = Own(e)
        BY <1>3, <1>4, <1>7, <2>1 DEF Knows, EditKnows
      <3>2. del = Own(e)
        BY <1>4, <3>1 DEF Own, Current
      <3>3. s = "insert" /\ e.members # Keep
        BY <1>2, <1>3, <1>4, <1>7, <1>8, <2>1, Fields DEF Steady, Listed
      <3>4. f \in Edits /\ f.step = "insert" /\ f.team = e.team /\ f.set = e.set /\ f.old = e.old
        <4>1. s \in EditStepNames /\ (s \in {"conflict", "delete", "insert"} => e.members # Keep)
          BY <3>3 DEF EditStepNames
        <4>2. f = [e EXCEPT !.step = s]
          BY <1>8
        <4>3. f \in Edits /\ f.step = s /\ f.team = e.team /\ f.set = e.set /\ f.old = e.old
          BY <2>1, <4>1, <4>2, Stepped
        <4> QED BY <3>3, <4>3
      <3>5. Current(f, None)
        BY <1>7, <3>1, <3>4, CurrentKept
      <3>6. OwnRow(f, v) /\ v.del = Own(f) /\ v.ins = {} /\ v.end = <<>> /\ v.add = <<>>
        BY <1>6, <3>1, <3>2, <3>4 DEF OwnRow, Own, NothingElse
      <3> QED BY <3>4, <3>5, <3>6, InsertKnows
    <2>2. CASE e \in Leaves
      <3>1. w = NoWrites /\ q.pairs = PairsOf(e.user)
        BY <1>3, <1>4, <1>7, <2>2 DEF Knows, LeaveKnows
      <3>2. del = PairsOf(e.user)
        BY <1>4, <3>1 DEF PairsOf, Pairs
      <3>3. f = [e EXCEPT !.step = "drop all"]
        BY <1>8, <2>2, Fields
      <3>4. f \in Leaves /\ f.step = "drop all" /\ f.user = e.user
        BY <2>2, <3>3 DEF Leaves
      <3>5. v = [NoWrites EXCEPT !.del = PairsOf(f.user)]
        BY <1>5, <3>1, <3>2, <3>4
      <3> QED BY <3>4, <3>5, LeafKnows
    <2> QED BY <1>7, <2>1, <2>2
  <1>10. Become(p, f) /\ Write(p, v) /\ UNCHANGED rows
    BY <1>1, <1>4, <1>5, <1>8 DEF FinishDelete
  <1> QED BY <1>1, <1>2, <1>9, <1>10, WritesCalm

LEMMA InsertMembersCalm ==
    ASSUME Inv, Calm, NEW p \in Operators, InsertMembers(p)
    PROVE  Calm'
  <1>1. PICK q, w : q = op[p] /\ w = tx[p]
    OBVIOUS
  <1>2. q.step = "insert" /\ q \in Requests /\ q # Idle /\ Steady(q) /\ w \in Writes
    <2>1. q.step = "insert"
      BY <1>1 DEF InsertMembers
    <2>2. q \in Requests /\ Steady(q) /\ w \in Writes
      BY <1>1, AtStep
    <2> QED BY <2>1, <2>2 DEF Idle
  <1>3. q \in Edits /\ q.members # Keep
    BY <1>2, Shapes DEF Steady, Listed
  <1>4. /\ q.team \in Teams /\ q.members \in SUBSET Learners /\ q.old \in SUBSET Learners
    BY <1>3 DEF Edits
  <1>5. /\ Current(q, None) /\ OwnRow(q, w)
        /\ w.del = Own(q) /\ w.ins = {} /\ w.end = <<>> /\ w.add = <<>>
    BY <1>1, <1>2, <1>3, Undisturbed DEF Knows, EditKnows
  <1>6. PICK ins : ins = {pair \in {q.team} \X q.members :
                            pair \in w.del \/ pair[2] \notin member[q.team]}
    OBVIOUS
  <1>7. ins = {q.team} \X q.members
    BY <1>5, <1>6 DEF Own, Current
  <1>8. PICK v : v = [w EXCEPT !.ins = ins]
    OBVIOUS
  <1>9. /\ v.ins = ins /\ v.team = w.team /\ v.set = w.set
        /\ v.del = w.del /\ v.end = w.end /\ v.add = w.add
    BY <1>2, <1>8, WriteOne
  <1>10. PICK f : f = [q EXCEPT !.step = "sync", !.todo = q.members \ q.old,
                                !.left = q.old \ q.members]
    OBVIOUS
  <1>11. /\ f \in Edits /\ f.step = "sync"
         /\ f.team = q.team /\ f.set = q.set /\ f.old = q.old /\ f.members = q.members
         /\ f.todo = q.members \ q.old /\ f.left = q.old \ q.members
    BY <1>3, <1>4, <1>10 DEF Edits
  <1>12. Current(f, None) /\ SyncOf(f) = f
    BY <1>2, <1>5, <1>11, CurrentKept DEF SyncOf
  <1>13. OwnRow(f, v)
    BY <1>5, <1>9, <1>11 DEF OwnRow
  <1>14. Sought(f) = {}
    BY <1>11, <1>12 DEF Sought, Joining
  <1>15. PairsSynced(f, v)
    <2>1. \A x \in Learners : <<f.team, x>> \in v.del <=> x \in f.old
      BY <1>5, <1>9, <1>11 DEF Own
    <2>2. \A s \in Teams \ {f.team}, x \in Learners : <<s, x>> \notin v.del
      BY <1>5, <1>9, <1>11 DEF Own
    <2> QED BY <1>7, <1>9, <1>11, <1>12, <1>14, <2>1, <2>2 DEF PairsSynced
  <1>16. EnrSynced(f, v)
    <2>1. DOMAIN v.end = {} /\ DOMAIN v.add = {}
      BY <1>5, <1>9
    <2>2. Joining(f) \ f.todo = {} /\ Leaving(f) \ f.left = {}
      BY <1>11 DEF Joining, Leaving
    <2> QED BY <1>12, <2>1, <2>2 DEF EnrSynced
  <1>17. Synced(f, v)
    <2>1. f.todo \subseteq Joining(f) /\ f.left \subseteq Leaving(f)
      BY <1>11 DEF Joining, Leaving
    <2> QED BY <1>4, <1>11, <1>12, <1>13, <1>15, <1>16, <2>1 DEF Synced
  <1>18. Knows(f, v)
    BY <1>11, <1>12, <1>17, SyncKnows DEF SyncSteps
  <1>19. Become(p, f) /\ Write(p, v) /\ UNCHANGED rows
    BY <1>1, <1>6, <1>8, <1>10 DEF InsertMembers
  <1> QED BY <1>1, <1>2, <1>18, <1>19, WritesCalm

-----------------------------------------------------------------------------
(* The synchronisation.                                                    *)

\* What is known in the middle of it: nobody has joined or left the team since
\* its list was read.
LEMMA InSync ==
    ASSUME Inv, Calm, NEW p \in Operators, NEW q, NEW w, NEW e,
           q = op[p], w = tx[p], e = SyncOf(q), q.step \in SyncSteps
    PROVE  /\ q \in Requests /\ q # Idle /\ w \in Writes /\ AtHand(q)
           /\ e \in Edits /\ e.step = "sync" /\ e.team \in Teams /\ e.old \in SUBSET Learners
           /\ Current(e, None) /\ Synced(q, w)
           /\ Enrolled(e.team) = e.old
           /\ q.step = "sync" => q = e
           /\ q.step # "sync" => q.then = e
           /\ q.step \in {"seek", "enroll"} => q \in Seeks
           /\ q.step \in {"close", "pull"} => q \in Closes
           /\ q.step = "drop" => q \in Parts
  <1>1. q \in Requests /\ w \in Writes /\ AtHand(q)
    BY AtStep
  <1>2. q # Idle
    BY DEF SyncSteps, Idle
  <1>3. e \in Edits /\ e.step = "sync"
    BY Syncing
  <1>4. e.team \in Teams /\ e.old \in SUBSET Learners
    BY <1>3 DEF Edits
  <1>5. Current(e, None) /\ Synced(q, w) /\ Agree
    BY <1>2, Undisturbed DEF Knows, EditKnows
  <1>6. Enrolled(e.team) = e.old
    <2>1. CASE e.team \in Live
      BY <1>4, <1>5, <2>1 DEF Current, Agree
    <2>2. CASE e.team \notin Live
      <3>1. team[e.team].state = "absent" /\ e.old = member[e.team]
        BY <1>5, <2>2 DEF Current
      <3> QED BY <1>4, <1>5, <2>2, <3>1 DEF Agree
    <2> QED BY <2>1, <2>2
  <1>7. /\ q.step = "sync" => q = e
        /\ q.step # "sync" => q.then = e
    BY DEF SyncOf
  <1>8. /\ q.step \in {"seek", "enroll"} => q \in Seeks
        /\ q.step \in {"close", "pull"} => q \in Closes
        /\ q.step = "drop" => q \in Parts
    BY Syncing
  <1> QED BY <1>1, <1>2, <1>3, <1>4, <1>5, <1>6, <1>7, <1>8

LEMMA SyncGoes ==
    ASSUME Inv, Calm, NEW p \in Operators, op[p] # Idle, NEW r, NEW v, NEW e,
           r \in Edits \cup Seeks \cup Closes \cup Parts, r.step \in SyncSteps,
           SyncOf(r) = e, Current(e, None), Synced(r, v),
           Become(p, r), Write(p, v), UNCHANGED rows
    PROVE  Calm'
  <1>1. Knows(r, v)
    BY SyncKnows
  <1> QED BY <1>1, WritesCalm

\* A read in it finds out which learner comes next.
LEMMA SyncedOn ==
    ASSUME NEW q, NEW w, NEW r, Synced(q, w), q.step # "pull", SyncOf(r) = SyncOf(q),
           r.step # "pull",
           r.step = "close" => r.id \in Active /\ enr[r.id].who = r.who
                               /\ enr[r.id].team = r.from /\ r.from # SyncOf(q).team,
           r.step = "drop" => r.id \in ActiveIn(SyncOf(q).team) /\ r.who \in SyncOf(q).left,
           AllByTeam => \A s \in Live \ {SyncOf(q).team} : \A x \in member[s] \cap Sought(r) :
                           <<s, x>> \in w.del
    PROVE  Synced(r, w)
  <1>1. PICK e : e = SyncOf(q) /\ e = SyncOf(r)
    OBVIOUS
  <1>2. PairsSynced(q, w) /\ EnrSynced(q, w)
    BY DEF Synced
  <1>3. PairsSynced(r, w)
    BY <1>1, <1>2 DEF PairsSynced
  <1>4. EnrSynced(r, w)
    BY <1>1, <1>2 DEF EnrSynced
  <1> QED BY <1>1, <1>3, <1>4 DEF Synced

LEMMA FindSourceEnrollmentCalm ==
    ASSUME Inv, Calm, NEW p \in Operators, FindSourceEnrollment(p)
    PROVE  Calm'
  <1>1. PICK q, w : q = op[p] /\ w = tx[p]
    OBVIOUS
  <1>2. q.step = "sync" /\ SyncOf(q) = q
    BY <1>1 DEF FindSourceEnrollment, SyncOf
  <1>3. /\ q # Idle /\ w \in Writes /\ q \in Edits /\ q.team \in Teams
        /\ Current(q, None) /\ Synced(q, w)
    BY <1>1, <1>2, InSync DEF SyncSteps
  <1>4. PICK x \in q.todo :
           \/ /\ ActiveElsewhere(x, q.team) = {}
              /\ Become(p, [step |-> "seek", who |-> x, then |-> q])
           \/ \E i \in ActiveElsewhere(x, q.team) :
                 Become(p, [step |-> "close", who |-> x, id |-> i, from |-> enr[i].team,
                            then |-> q])
    BY <1>1 DEF FindSourceEnrollment, Read
  <1>5. x \in Learners
    BY <1>3 DEF Edits
  <1>6. UNCHANGED rows /\ Write(p, w)
    BY <1>1 DEF FindSourceEnrollment, Read, Write, Inv, Fits
  <1>7. /\ Agree
        /\ AllByTeam => \A s \in Live \ {q.team} :
                           \A y \in member[s] \cap (Joining(q) \ q.todo) : <<s, y>> \in w.del
    BY <1>1, <1>2, <1>3, Undisturbed DEF Synced, PairsSynced, Sought
  <1>8. CASE /\ ActiveElsewhere(x, q.team) = {}
             /\ Become(p, [step |-> "seek", who |-> x, then |-> q])
    <2>1. PICK r : r = [step |-> "seek", who |-> x, then |-> q]
      OBVIOUS
    <2>2. r \in Seeks /\ r.step = "seek" /\ r.who = x /\ r.then = q
      BY <1>3, <1>5, <2>1 DEF Seeks
    <2>3. SyncOf(r) = q /\ Sought(r) = (Joining(q) \ q.todo) \cup {x}
      BY <2>2 DEF SyncOf, Sought
    <2>4. \A s \in Live \ {q.team} : x \notin member[s]
      <3> SUFFICES ASSUME NEW s \in Live \ {q.team}, x \in member[s]
                   PROVE  FALSE
        OBVIOUS
      <3>1. x \in Enrolled(s)
        BY <1>7 DEF Agree, Live
      <3>2. PICK i \in ActiveIn(s) : enr[i].who = x
        BY <3>1 DEF Enrolled
      <3>3. i \in ActiveElsewhere(x, q.team)
        BY <3>2 DEF ActiveIn, ActiveElsewhere
      <3> QED BY <1>8, <3>3
    <2>5. Synced(r, w)
      BY <1>2, <1>3, <1>7, <2>2, <2>3, <2>4, SyncedOn
    <2> QED BY <1>1, <1>3, <1>6, <1>8, <2>1, <2>2, <2>3, <2>5, SyncGoes DEF SyncSteps
  <1>9. ASSUME NEW i \in ActiveElsewhere(x, q.team),
               Become(p, [step |-> "close", who |-> x, id |-> i, from |-> enr[i].team,
                          then |-> q])
        PROVE  Calm'
    <2>1. PICK from : from = enr[i].team
      OBVIOUS
    <2>2. PICK r : r = [step |-> "close", who |-> x, id |-> i, from |-> from, then |-> q]
      OBVIOUS
    <2>3. /\ i \in Active /\ i \in Nat /\ enr[i].who = x /\ from \in Teams \cup {None}
          /\ from # q.team
      BY <2>1, Numbered DEF ActiveElsewhere, Active, Enrollment
    <2>4. /\ r \in Closes /\ r.step = "close" /\ r.who = x /\ r.id = i /\ r.from = from
          /\ r.then = q
      BY <1>3, <1>5, <2>2, <2>3 DEF Closes
    <2>5. SyncOf(r) = q /\ Sought(r) = Joining(q) \ q.todo
      BY <2>4 DEF SyncOf, Sought
    <2>6. Synced(r, w)
      BY <1>2, <1>3, <1>7, <2>1, <2>3, <2>4, <2>5, SyncedOn
    <2> QED BY <1>1, <1>3, <1>6, <1>9, <2>1, <2>2, <2>4, <2>5, <2>6, SyncGoes DEF SyncSteps
  <1> QED BY <1>4, <1>8, <1>9

LEMMA CloseSourceCalm ==
    ASSUME Inv, Calm, NEW p \in Operators, CloseSource(p)
    PROVE  Calm'
  <1>1. PICK q, w, e : q = op[p] /\ w = tx[p] /\ e = SyncOf(q)
    OBVIOUS
  <1>2. q.step = "close"
    BY <1>1 DEF CloseSource
  <1>3. /\ q # Idle /\ w \in Writes /\ q \in Closes /\ q.then = e /\ e \in Edits
        /\ e.team \in Teams /\ Current(e, None) /\ Synced(q, w)
    BY <1>1, <1>2, InSync DEF SyncSteps
  <1>4. /\ q.who \in Learners /\ q.from \in Teams \cup {None} /\ q.id \in Active
        /\ enr[q.id].who = q.who /\ enr[q.id].team = q.from /\ q.from # e.team
    BY <1>1, <1>2, <1>3 DEF Closes, Synced
  <1>5. PICK end : end = Put(w.end, q.id, [status |-> "Transferred", to |-> e.team])
    OBVIOUS
  <1>6. DOMAIN end = DOMAIN w.end \cup {q.id}
    BY <1>5 DEF Put
  <1>7. PICK v : v = [w EXCEPT !.end = end]
    OBVIOUS
  <1>8. /\ v.end = end /\ v.team = w.team /\ v.set = w.set
        /\ v.del = w.del /\ v.ins = w.ins /\ v.add = w.add
    BY <1>3, <1>7, WriteOne
  <1>9. PICK r : r = IF q.from = None THEN [step |-> "seek", who |-> q.who, then |-> e]
                     ELSE [q EXCEPT !.step = "pull"]
    OBVIOUS
  <1>10. /\ q.from = None => r \in Seeks /\ r.step = "seek"
         /\ q.from # None => r \in Closes /\ r.step = "pull" /\ r.id = q.id /\ r.from = q.from
         /\ r.who = q.who /\ r.then = e
    <2>1. CASE q.from = None
      BY <1>3, <1>4, <1>9, <2>1 DEF Seeks
    <2>2. CASE q.from # None
      BY <1>3, <1>9, <2>2 DEF Closes
    <2> QED BY <2>1, <2>2
  <1>11. SyncOf(r) = e
    BY <1>10 DEF SyncOf
  <1>12. PairsSynced(q, w) /\ EnrSynced(q, w)
    BY <1>3 DEF Synced
  <1>13. PairsSynced(r, v)
    <2>1. /\ w.ins = {e.team} \X e.members
          /\ \A x \in Learners : <<e.team, x>> \in w.del <=> x \in e.old
          /\ \A s \in Teams \ {e.team}, x \in Learners : <<s, x>> \in w.del =>
                \E i \in ActiveIn(s) : enr[i].who = x /\ i \in DOMAIN w.end
          /\ AllByTeam => \A s \in Live \ {e.team} : \A x \in member[s] \cap Sought(q) :
                             <<s, x>> \in w.del
      BY <1>1, <1>12 DEF PairsSynced
    <2>2. AllByTeam => q.from # None
      BY <1>4 DEF AllByTeam, Active
    <2>3. q.from # None => Sought(r) = Sought(q)
      BY <1>1, <1>2, <1>10, <1>11 DEF Sought
    <2> QED BY <1>6, <1>8, <1>11, <2>1, <2>2, <2>3 DEF PairsSynced
  <1>14. EnrSynced(r, v)
    <2>1. /\ \A x \in Learners :
                x \in Joining(e) \ e.todo <=> \E j \in DOMAIN w.add : w.add[j].who = x
          /\ \A i \in ActiveIn(e.team) : i \in DOMAIN w.end <=> enr[i].who \in Leaving(e) \ e.left
          /\ \A s \in Teams \ {e.team} : \A i \in ActiveIn(s) :
                i \in DOMAIN w.end => <<s, enr[i].who>> \in w.del
      BY <1>1, <1>2, <1>12 DEF EnrSynced
    <2>2. q.id \notin ActiveIn(e.team)
      BY <1>4 DEF ActiveIn
    <2>3. \A s \in Teams : q.id \in ActiveIn(s) => s = q.from /\ q.from # None
      BY <1>4, MembershipAssumption DEF ActiveIn
    <2> QED BY <1>4, <1>6, <1>8, <1>10, <1>11, <2>1, <2>2, <2>3 DEF EnrSynced
  <1>15. Synced(r, v)
    <2>1. /\ e.members \in SUBSET Learners /\ e.todo \subseteq Joining(e)
          /\ e.left \subseteq Leaving(e) /\ OwnRow(e, w)
      BY <1>1, <1>3 DEF Synced
    <2>2. OwnRow(e, v)
      BY <1>8, <2>1 DEF OwnRow
    <2> QED BY <1>4, <1>6, <1>8, <1>10, <1>11, <1>13, <1>14, <2>1, <2>2 DEF Synced
  <1>16. Become(p, r) /\ Write(p, v) /\ UNCHANGED rows
    BY <1>1, <1>3, <1>5, <1>7, <1>9 DEF CloseSource
  <1> QED BY <1>1, <1>3, <1>10, <1>11, <1>15, <1>16, SyncGoes DEF SyncSteps

\* A learner has one enrollment in a team.
LEMMA OneRowEach ==
    ASSUME Inv, NEW t \in Teams, NEW i \in ActiveIn(t), NEW j \in ActiveIn(t),
           enr[i].who = enr[j].who
    PROVE  i = j
  <1>1. t # None
    BY MembershipAssumption
  <1>2. Clash(enr[i], enr[j])
    BY <1>1 DEF ActiveIn, Active, Clash
  <1> QED BY <1>2 DEF ActiveIn, Active, Inv, Apart

LEMMA PullTeamMemberCalm ==
    ASSUME Inv, Calm, NEW p \in Operators, PullTeamMember(p)
    PROVE  Calm'
  <1>1. PICK q, w, e : q = op[p] /\ w = tx[p] /\ e = SyncOf(q)
    OBVIOUS
  <1>2. q.step = "pull"
    BY <1>1 DEF PullTeamMember
  <1>3. /\ q # Idle /\ w \in Writes /\ q \in Closes /\ q.then = e /\ e \in Edits
        /\ e.team \in Teams /\ Current(e, None) /\ Synced(q, w)
    BY <1>1, <1>2, InSync DEF SyncSteps
  <1>4. /\ q.who \in Learners /\ q.from \in Teams
        /\ q.id \in ActiveIn(q.from) /\ q.id \in DOMAIN w.end
        /\ enr[q.id].who = q.who /\ q.from # e.team
    <2>1. q.from # None
      BY <1>1, <1>2, AtStep DEF Steady
    <2> QED BY <1>1, <1>2, <1>3, <2>1 DEF Closes, Synced, ActiveIn
  <1>5. Agree /\ OneTeam
    BY <1>1, <1>3, Undisturbed
  <1>6. q.from \in Live /\ q.who \in member[q.from]
    <2>1. q.who \in Enrolled(q.from)
      BY <1>4 DEF Enrolled
    <2> QED BY <1>4, <1>5, <2>1 DEF Agree
  <1>7. PICK pair : pair = <<q.from, q.who>>
    OBVIOUS
  <1>8. PICK v : v = [w EXCEPT !.del = w.del \cup {pair}]
    OBVIOUS
  <1>9. /\ v.del = w.del \cup {pair} /\ v.team = w.team /\ v.set = w.set
        /\ v.ins = w.ins /\ v.end = w.end /\ v.add = w.add
    BY <1>3, <1>8, WriteOne
  <1>10. PICK r : r = [step |-> "seek", who |-> q.who, then |-> e]
    OBVIOUS
  <1>11. r \in Seeks /\ r.step = "seek" /\ r.who = q.who /\ r.then = e /\ SyncOf(r) = e
    BY <1>3, <1>4, <1>10 DEF Seeks, SyncOf
  <1>12. PairsSynced(q, w) /\ EnrSynced(q, w)
    BY <1>3 DEF Synced
  <1>13. PairsSynced(r, v)
    <2>1. /\ w.ins = {e.team} \X e.members
          /\ \A x \in Learners : <<e.team, x>> \in w.del <=> x \in e.old
          /\ \A s \in Teams \ {e.team}, x \in Learners : <<s, x>> \in w.del =>
                \E i \in ActiveIn(s) : enr[i].who = x /\ i \in DOMAIN w.end
          /\ AllByTeam => \A s \in Live \ {e.team} : \A x \in member[s] \cap Sought(q) :
                             <<s, x>> \in w.del
      BY <1>1, <1>12 DEF PairsSynced
    <2>2. Sought(r) = Sought(q) \cup {q.who}
      BY <1>1, <1>2, <1>11 DEF Sought
    <2>3. AllByTeam => \A s \in Live : q.who \in member[s] => s = q.from
      BY <1>5, <1>6 DEF OneTeam
    <2>4. \A x \in Learners : <<e.team, x>> \in v.del <=> x \in e.old
      BY <1>4, <1>7, <1>9, <2>1
    <2>5. \A s \in Teams \ {e.team}, x \in Learners : <<s, x>> \in v.del =>
             \E i \in ActiveIn(s) : enr[i].who = x /\ i \in DOMAIN v.end
      BY <1>4, <1>7, <1>9, <2>1
    <2>6. AllByTeam => \A s \in Live \ {e.team} : \A x \in member[s] \cap Sought(r) :
                          <<s, x>> \in v.del
      BY <1>7, <1>9, <2>1, <2>2, <2>3
    <2> QED BY <1>9, <1>11, <2>1, <2>4, <2>5, <2>6 DEF PairsSynced
  <1>14. EnrSynced(r, v)
    <2>1. /\ \A x \in Learners :
                x \in Joining(e) \ e.todo <=> \E j \in DOMAIN w.add : w.add[j].who = x
          /\ \A i \in ActiveIn(e.team) : i \in DOMAIN w.end <=> enr[i].who \in Leaving(e) \ e.left
          /\ \A s \in Teams \ {e.team} : \A i \in ActiveIn(s) : i \in DOMAIN w.end =>
                <<s, enr[i].who>> \in w.del \/ (q.from = s /\ q.who = enr[i].who)
      BY <1>1, <1>2, <1>12 DEF EnrSynced
    <2>2. \A s \in Teams \ {e.team} : \A i \in ActiveIn(s) : i \in DOMAIN v.end =>
             <<s, enr[i].who>> \in v.del
      BY <1>7, <1>9, <2>1
    <2> QED BY <1>9, <1>11, <2>1, <2>2 DEF EnrSynced
  <1>15. Synced(r, v)
    <2>1. /\ e.members \in SUBSET Learners /\ e.todo \subseteq Joining(e)
          /\ e.left \subseteq Leaving(e) /\ OwnRow(e, w)
      BY <1>1, <1>3 DEF Synced
    <2>2. OwnRow(e, v)
      BY <1>9, <2>1 DEF OwnRow
    <2> QED BY <1>11, <1>13, <1>14, <2>1, <2>2 DEF Synced
  <1>16. Become(p, r) /\ Write(p, v) /\ UNCHANGED rows
    BY <1>1, <1>3, <1>6, <1>7, <1>8, <1>10 DEF PullTeamMember
  <1> QED BY <1>1, <1>3, <1>11, <1>15, <1>16, SyncGoes DEF SyncSteps

\* Nobody who joins is enrolled in the team yet.
LEMMA FindTargetEnrollmentCalm ==
    ASSUME Inv, Calm, NEW p \in Operators, FindTargetEnrollment(p)
    PROVE  Calm'
  <1>1. PICK q, w, e : q = op[p] /\ w = tx[p] /\ e = SyncOf(q)
    OBVIOUS
  <1>2. q.step = "seek"
    BY <1>1 DEF FindTargetEnrollment
  <1>3. /\ q # Idle /\ q \in Seeks /\ q.then = e /\ e \in Edits /\ AtHand(q)
        /\ Current(e, None) /\ Synced(q, w) /\ Enrolled(e.team) = e.old
    BY <1>1, <1>2, InSync DEF SyncSteps
  <1>4. q.who \in Joining(e)
    BY <1>1, <1>2, <1>3 DEF AtHand, Synced
  <1>5. EnrolledIn(q.who, e.team) = {}
    BY <1>3, <1>4 DEF EnrolledIn, Enrolled, Joining
  <1>6. PICK r : r = [q EXCEPT !.step = "enroll"]
    OBVIOUS
  <1>7. r \in Seeks /\ r.step = "enroll" /\ r.then = e /\ r.who = q.who /\ SyncOf(r) = e
    BY <1>3, <1>6 DEF Seeks, SyncOf
  <1>8. Sought(r) = Sought(q)
    BY <1>1, <1>2, <1>7 DEF Sought
  <1>9. AllByTeam => \A s \in Live \ {e.team} : \A x \in member[s] \cap Sought(r) :
                        <<s, x>> \in w.del
    BY <1>1, <1>3, <1>8 DEF Synced, PairsSynced
  <1>10. Synced(r, w)
    BY <1>1, <1>2, <1>3, <1>7, <1>9, SyncedOn
  <1>11. Become(p, r) /\ Write(p, w) /\ UNCHANGED rows
    BY <1>1, <1>3, <1>5, <1>6 DEF FindTargetEnrollment, Read, Write, Inv, Fits
  <1> QED BY <1>1, <1>3, <1>7, <1>10, <1>11, SyncGoes DEF SyncSteps

\* The edit that is done with a learner.
LEMMA DoneKeeps ==
    ASSUME NEW e \in Edits, e.step = "sync", NEW x, NEW f, f = Done(e, x)
    PROVE  /\ f \in Edits /\ f.step = "sync" /\ SyncOf(f) = f
           /\ f.team = e.team /\ f.set = e.set /\ f.old = e.old /\ f.members = e.members
           /\ f.todo = e.todo \ {x} /\ f.left = e.left \ {x}
           /\ Joining(f) = Joining(e) /\ Leaving(f) = Leaving(e)
           /\ Sought(f) = Joining(e) \ (e.todo \ {x})
           /\ \A losing : Current(e, losing) => Current(f, losing)
           /\ \A v : OwnRow(e, v) => OwnRow(f, v)
  <1>1. /\ f \in Edits /\ f.step = "sync" /\ f.team = e.team
        /\ f.todo = e.todo \ {x} /\ f.left = e.left \ {x}
    BY DoneFits
  <1>2. f.set = e.set /\ f.old = e.old /\ f.members = e.members
    BY DEF Done, Edits
  <1>3. SyncOf(f) = f
    BY <1>1 DEF SyncOf
  <1>4. Joining(f) = Joining(e) /\ Leaving(f) = Leaving(e)
    BY <1>2 DEF Joining, Leaving
  <1>5. Sought(f) = Joining(e) \ (e.todo \ {x})
    BY <1>1, <1>3, <1>4 DEF Sought
  <1>6. /\ \A losing : Current(e, losing) => Current(f, losing)
        /\ \A v : OwnRow(e, v) => OwnRow(f, v)
    BY <1>1, <1>2 DEF Current, OwnRow
  <1> QED BY <1>1, <1>2, <1>3, <1>4, <1>5, <1>6

LEMMA CreateActiveEnrollmentCalm ==
    ASSUME Inv, Calm, NEW p \in Operators, CreateActiveEnrollment(p)
    PROVE  Calm'
  <1>1. PICK q, w, e : q = op[p] /\ w = tx[p] /\ e = SyncOf(q)
    OBVIOUS
  <1>2. q.step = "enroll"
    BY <1>1 DEF CreateActiveEnrollment
  <1>3. /\ q # Idle /\ q \in Seeks /\ q.then = e /\ e \in Edits /\ e.step = "sync" /\ AtHand(q)
        /\ w \in Writes /\ Current(e, None) /\ Synced(q, w)
    BY <1>1, <1>2, InSync DEF SyncSteps
  <1>4. PICK x : x = q.who
    OBVIOUS
  <1>5. x \in e.todo /\ x \in Joining(e) /\ x \notin Leaving(e) /\ x \in Learners
    BY <1>1, <1>2, <1>3, <1>4 DEF AtHand, Synced, Joining, Leaving, Seeks
  <1>6. PICK row : row = [who |-> x, class |-> e.class, team |-> e.team,
                          status |-> "Active", to |-> None]
    OBVIOUS
  <1>7. PICK old, add : old = w.add /\ add = Append(w.add, row)
    OBVIOUS
  <1>8. \A y : (\E j \in DOMAIN add : add[j].who = y) <=>
               y = x \/ \E j \in DOMAIN old : old[j].who = y
    <2>1. old \in Seq(Enrollment) /\ row.who = x
      BY <1>3, <1>6, <1>7 DEF Writes
    <2>2. /\ DOMAIN old = 1 .. Len(old) /\ Len(old) \in Nat
          /\ DOMAIN add = 1 .. Len(old) + 1
          /\ \A j \in 1 .. Len(old) : add[j] = old[j]
          /\ add[Len(old) + 1] = row
      BY <1>7, <2>1
    <2>3. \A j \in DOMAIN add : j \in DOMAIN old \/ j = Len(old) + 1
      BY <2>2
    <2>4. DOMAIN old \subseteq DOMAIN add /\ Len(old) + 1 \in DOMAIN add
      BY <2>2
    <2> QED BY <2>1, <2>2, <2>3, <2>4
  <1>9. PICK v : v = [w EXCEPT !.add = add]
    OBVIOUS
  <1>10. /\ v.add = add /\ v.team = w.team /\ v.set = w.set
         /\ v.del = w.del /\ v.ins = w.ins /\ v.end = w.end
    BY <1>3, <1>9, WriteOne
  <1>11. PICK f : f = Done(e, x)
    OBVIOUS
  <1>12. /\ f \in Edits /\ f.step = "sync" /\ SyncOf(f) = f
         /\ f.team = e.team /\ f.old = e.old /\ f.members = e.members
         /\ f.todo = e.todo \ {x} /\ f.left = e.left \ {x}
         /\ Joining(f) = Joining(e) /\ Leaving(f) = Leaving(e)
         /\ Sought(f) = Joining(e) \ (e.todo \ {x})
         /\ Current(f, None) /\ (OwnRow(e, w) => OwnRow(f, w))
    BY <1>3, <1>11, DoneKeeps
  <1>13. Sought(f) = Sought(q)
    BY <1>1, <1>2, <1>4, <1>5, <1>12 DEF Sought
  <1>14. /\ w.ins = {e.team} \X e.members
         /\ \A y \in Learners : <<e.team, y>> \in w.del <=> y \in e.old
         /\ \A s \in Teams \ {e.team}, y \in Learners : <<s, y>> \in w.del =>
               \E i \in ActiveIn(s) : enr[i].who = y /\ i \in DOMAIN w.end
         /\ AllByTeam => \A s \in Live \ {e.team} : \A y \in member[s] \cap Sought(q) :
                            <<s, y>> \in w.del
    BY <1>1, <1>3 DEF Synced, PairsSynced
  <1>15. PairsSynced(f, v)
    BY <1>10, <1>12, <1>13, <1>14 DEF PairsSynced
  <1>16. EnrSynced(f, v)
    <2>1. /\ \A y \in Learners : y \in Joining(e) \ e.todo <=> \E j \in DOMAIN old : old[j].who = y
          /\ \A i \in ActiveIn(e.team) : i \in DOMAIN w.end <=> enr[i].who \in Leaving(e) \ e.left
          /\ \A s \in Teams \ {e.team} : \A i \in ActiveIn(s) :
                i \in DOMAIN w.end => <<s, enr[i].who>> \in w.del
      BY <1>1, <1>2, <1>3, <1>7 DEF Synced, EnrSynced
    <2>2. \A y \in Learners : y \in Joining(f) \ f.todo <=> \E j \in DOMAIN v.add : v.add[j].who = y
      BY <1>5, <1>8, <1>10, <1>12, <2>1
    <2>3. Leaving(f) \ f.left = Leaving(e) \ e.left
      BY <1>5, <1>12
    <2> QED BY <1>10, <1>12, <2>1, <2>2, <2>3 DEF EnrSynced
  <1>17. Synced(f, v)
    <2>1. /\ e.members \in SUBSET Learners /\ e.todo \subseteq Joining(e)
          /\ e.left \subseteq Leaving(e) /\ OwnRow(e, w)
      BY <1>1, <1>3 DEF Synced
    <2>2. OwnRow(f, v)
      BY <1>10, <1>12, <2>1 DEF OwnRow
    <2> QED BY <1>12, <1>15, <1>16, <2>1, <2>2 DEF Synced
  <1>18. Become(p, f) /\ Write(p, v) /\ UNCHANGED rows
    BY <1>1, <1>3, <1>4, <1>6, <1>7, <1>9, <1>11 DEF CreateActiveEnrollment
  <1> QED BY <1>1, <1>3, <1>12, <1>17, <1>18, SyncGoes DEF SyncSteps

\* Whoever leaves was enrolled.
LEMMA FindLeaverCalm ==
    ASSUME Inv, Calm, NEW p \in Operators, FindLeaver(p)
    PROVE  Calm'
  <1>1. PICK q, w : q = op[p] /\ w = tx[p]
    OBVIOUS
  <1>2. q.step = "sync" /\ q.todo = {} /\ SyncOf(q) = q
    BY <1>1 DEF FindLeaver, SyncOf
  <1>3. /\ q # Idle /\ q \in Edits /\ Current(q, None) /\ Synced(q, w) /\ Enrolled(q.team) = q.old
    BY <1>1, <1>2, InSync DEF SyncSteps
  <1>4. PICK x \in q.left :
           IF EnrolledIn(x, q.team) = {} THEN Become(p, Done(q, x))
           ELSE \E i \in EnrolledIn(x, q.team) :
                  Become(p, [step |-> "drop", who |-> x, id |-> i, then |-> q])
    BY <1>1 DEF FindLeaver, Read
  <1>5. x \in Learners /\ x \in Enrolled(q.team)
    BY <1>2, <1>3 DEF Edits, Synced, Leaving
  <1>6. EnrolledIn(x, q.team) # {}
    BY <1>5 DEF EnrolledIn, Enrolled
  <1>7. PICK i \in EnrolledIn(x, q.team) :
           Become(p, [step |-> "drop", who |-> x, id |-> i, then |-> q])
    BY <1>4, <1>6
  <1>8. PICK r : r = [step |-> "drop", who |-> x, id |-> i, then |-> q]
    OBVIOUS
  <1>9. i \in ActiveIn(q.team) /\ i \in Nat
    BY Numbered DEF EnrolledIn, ActiveIn, Active
  <1>10. r \in Parts /\ r.step = "drop" /\ r.who = x /\ r.id = i /\ r.then = q /\ SyncOf(r) = q
    BY <1>3, <1>5, <1>8, <1>9 DEF Parts, SyncOf
  <1>11. Sought(r) = Sought(q)
    BY <1>2, <1>10 DEF Sought
  <1>12. AllByTeam => \A s \in Live \ {q.team} : \A y \in member[s] \cap Sought(r) :
                         <<s, y>> \in w.del
    BY <1>2, <1>3, <1>11 DEF Synced, PairsSynced
  <1>13. Synced(r, w)
    BY <1>2, <1>3, <1>9, <1>10, <1>12, SyncedOn
  <1>14. Become(p, r) /\ Write(p, w) /\ UNCHANGED rows
    BY <1>1, <1>7, <1>8 DEF FindLeaver, Read, Write, Inv, Fits
  <1> QED BY <1>1, <1>3, <1>10, <1>13, <1>14, SyncGoes DEF SyncSteps

LEMMA DropEnrollmentCalm ==
    ASSUME Inv, Calm, NEW p \in Operators, DropEnrollment(p)
    PROVE  Calm'
  <1>1. PICK q, w, e : q = op[p] /\ w = tx[p] /\ e = SyncOf(q)
    OBVIOUS
  <1>2. q.step = "drop"
    BY <1>1 DEF DropEnrollment
  <1>3. /\ q # Idle /\ q.then = e /\ e \in Edits /\ e.step = "sync" /\ e.team \in Teams
        /\ AtHand(q) /\ w \in Writes /\ Current(e, None) /\ Synced(q, w)
    BY <1>1, <1>2, InSync DEF SyncSteps
  <1>4. PICK x : x = q.who
    OBVIOUS
  <1>5. /\ q.id \in ActiveIn(e.team) /\ enr[q.id].who = x /\ x \in e.left /\ e.todo = {}
    BY <1>1, <1>2, <1>3, <1>4 DEF AtHand, Synced
  <1>6. PICK end : end = Put(w.end, q.id, [status |-> "Dropped"])
    OBVIOUS
  <1>7. DOMAIN end = DOMAIN w.end \cup {q.id}
    BY <1>6 DEF Put
  <1>8. PICK v : v = [w EXCEPT !.end = end]
    OBVIOUS
  <1>9. /\ v.end = end /\ v.team = w.team /\ v.set = w.set
        /\ v.del = w.del /\ v.ins = w.ins /\ v.add = w.add
    BY <1>3, <1>8, WriteOne
  <1>10. PICK f : f = Done(e, x)
    OBVIOUS
  <1>11. /\ f \in Edits /\ f.step = "sync" /\ SyncOf(f) = f
         /\ f.team = e.team /\ f.old = e.old /\ f.members = e.members
         /\ f.todo = e.todo \ {x} /\ f.left = e.left \ {x}
         /\ Joining(f) = Joining(e) /\ Leaving(f) = Leaving(e)
         /\ Sought(f) = Joining(e) \ (e.todo \ {x})
         /\ Current(f, None) /\ (OwnRow(e, w) => OwnRow(f, w))
    BY <1>3, <1>10, DoneKeeps
  <1>12. f.todo = e.todo /\ Sought(f) = Sought(q)
    BY <1>1, <1>2, <1>5, <1>11 DEF Sought
  <1>13. PairsSynced(f, v)
    <2>1. /\ w.ins = {e.team} \X e.members
          /\ \A y \in Learners : <<e.team, y>> \in w.del <=> y \in e.old
          /\ \A s \in Teams \ {e.team}, y \in Learners : <<s, y>> \in w.del =>
                \E i \in ActiveIn(s) : enr[i].who = y /\ i \in DOMAIN w.end
          /\ AllByTeam => \A s \in Live \ {e.team} : \A y \in member[s] \cap Sought(q) :
                             <<s, y>> \in w.del
      BY <1>1, <1>3 DEF Synced, PairsSynced
    <2> QED BY <1>7, <1>9, <1>11, <1>12, <2>1 DEF PairsSynced
  <1>14. EnrSynced(f, v)
    <2>1. /\ \A y \in Learners : y \in Joining(e) \ e.todo <=> \E j \in DOMAIN w.add : w.add[j].who = y
          /\ \A i \in ActiveIn(e.team) : i \in DOMAIN w.end <=> enr[i].who \in Leaving(e) \ e.left
          /\ \A s \in Teams \ {e.team} : \A i \in ActiveIn(s) :
                i \in DOMAIN w.end => <<s, enr[i].who>> \in w.del
      BY <1>1, <1>2, <1>3 DEF Synced, EnrSynced
    <2>2. \A i \in ActiveIn(e.team) : enr[i].who = x => i = q.id
      BY <1>3, <1>5, OneRowEach
    <2>3. x \in Leaving(e)
      BY <1>1, <1>3, <1>5 DEF Synced
    <2>4. \A i \in ActiveIn(f.team) : i \in DOMAIN v.end <=> enr[i].who \in Leaving(f) \ f.left
      BY <1>5, <1>7, <1>9, <1>11, <2>1, <2>2, <2>3
    <2>5. \A s \in Teams \ {e.team} : q.id \notin ActiveIn(s)
      BY <1>5 DEF ActiveIn
    <2> QED BY <1>7, <1>9, <1>11, <1>12, <2>1, <2>4, <2>5 DEF EnrSynced
  <1>15. Synced(f, v)
    <2>1. /\ e.members \in SUBSET Learners /\ e.todo \subseteq Joining(e)
          /\ e.left \subseteq Leaving(e) /\ OwnRow(e, w)
      BY <1>1, <1>3 DEF Synced
    <2>2. OwnRow(f, v)
      BY <1>9, <1>11, <2>1 DEF OwnRow
    <2> QED BY <1>11, <1>13, <1>14, <2>1, <2>2 DEF Synced
  <1>16. Become(p, f) /\ Write(p, v) /\ UNCHANGED rows
    BY <1>1, <1>3, <1>4, <1>6, <1>8, <1>10 DEF DropEnrollment
  <1> QED BY <1>1, <1>3, <1>11, <1>15, <1>16, SyncGoes DEF SyncSteps

-----------------------------------------------------------------------------
(* Deletions, direct enrollment, failures.                                 *)

LEMMA DeleteTeamCalm ==
    ASSUME Inv, Calm, NEW p \in Operators, DeleteTeam(p), orderly'
    PROVE  Calm'
  <1>1. PICK t \in Live : Read(p, [step |-> "drop all", team |-> t])
    BY DEF DeleteTeam
  <1>2. PICK q : q = [step |-> "drop all", team |-> t]
    OBVIOUS
  <1>3. q \in Deletions /\ q.team \in Live /\ q.step = "drop all"
    BY <1>2 DEF Live, Deletions
  <1>4. Knows(q, NoWrites)
    BY <1>3, DeletionStepKnows
  <1>5. \E kind : Begin(p, kind)
    BY DEF DeleteTeam
  <1>6. Alone(p) /\ tx[p] = NoWrites /\ Become(p, q) /\ UNCHANGED <<rows, tx>>
    BY <1>1, <1>2, <1>5, Beginning DEF Read
  <1> QED BY <1>4, <1>6, StartsCalm

LEMMA DeleteUserCalm ==
    ASSUME Inv, Calm, NEW p \in Operators, DeleteUser(p), orderly'
    PROVE  Calm'
  <1>1. PICK x \in Learners \ gone : Read(p, [step |-> "delete", user |-> x])
    BY DEF DeleteUser
  <1>2. PICK q : q = [step |-> "delete", user |-> x]
    OBVIOUS
  <1>3. q \in Leaves /\ q.step = "delete"
    BY <1>2 DEF Leaves
  <1>4. Knows(q, NoWrites)
    BY <1>3, LeafKnows
  <1>5. \E kind : Begin(p, kind)
    BY DEF DeleteUser
  <1>6. Alone(p) /\ tx[p] = NoWrites /\ Become(p, q) /\ UNCHANGED <<rows, tx>>
    BY <1>1, <1>2, <1>5, Beginning DEF Read
  <1> QED BY <1>4, <1>6, StartsCalm

LEMMA StartDropAllCalm ==
    ASSUME Inv, Calm, NEW p \in Operators, StartDropAll(p)
    PROVE  Calm'
  <1>1. PICK q, w : q = op[p] /\ w = tx[p]
    OBVIOUS
  <1>2. q.step = "drop all" /\ q \in Requests
    BY <1>1, AtStep DEF StartDropAll
  <1>3. q \in Leaves \cup Deletions /\ q # Idle
    BY <1>2, Shapes, OneShape
  <1>4. PICK ids : ids = IF "user" \in DOMAIN q THEN {i \in Active : enr[i].who = q.user}
                         ELSE ActiveIn(q.team)
    OBVIOUS
  <1>5. ids \in SUBSET Nat
    BY <1>4, Numbered DEF ActiveIn, Active
  <1>6. PICK d : d = [step |-> "dropping", then |-> q, ids |-> ids]
    OBVIOUS
  <1>7. d \in Drops /\ d.then = q /\ d.ids = ids
    BY <1>3, <1>5, <1>6 DEF Drops
  <1>8. Knows(q, w)
    BY <1>1, <1>3, Undisturbed
  <1>9. q \in Leaves => w = [NoWrites EXCEPT !.del = PairsOf(q.user)] /\ ids = ActiveOf(q.user)
    BY <1>2, <1>4, <1>8, Fields DEF Knows, LeaveKnows, ActiveOf
  <1>10. q \in Deletions => q.team \in Live /\ w = NoWrites /\ ids = ActiveIn(q.team)
    BY <1>2, <1>4, <1>8, Fields DEF Knows, DeletionKnows
  <1>11. Knows(d, w)
    BY <1>7, <1>9, <1>10, DroppingKnows
  <1>12. Become(p, d) /\ UNCHANGED <<rows, tx>>
    BY <1>1, <1>4, <1>6 DEF StartDropAll, Read
  <1> QED BY <1>1, <1>3, <1>11, <1>12, ReadsCalm

LEMMA FinishDropAllCalm ==
    ASSUME Inv, Calm, NEW p \in Operators, FinishDropAll(p)
    PROVE  Calm'
  <1>1. PICK q, w : q = op[p] /\ w = tx[p]
    OBVIOUS
  <1>2. q.step = "dropping" /\ q \in Requests /\ q # Idle
    <2>1. q.step = "dropping"
      BY <1>1 DEF FinishDropAll
    <2>2. q \in Requests
      BY <1>1, AtStep
    <2> QED BY <2>1, <2>2 DEF Idle
  <1>3. q \in Drops /\ w \in Writes
    BY <1>1, <1>2, AtStep, Shapes
  <1>4. PICK e, end : e = q.then /\ end = [i \in q.ids \cap Active |-> [status |-> "Dropped"]]
    OBVIOUS
  <1>5. PICK v : v = [w EXCEPT !.end = end]
    OBVIOUS
  <1>6. v.end = end /\ v.del = w.del /\ v.ins = w.ins /\ v.add = w.add
    BY <1>3, <1>5, WriteOne
  <1>7. PICK f : f = [e EXCEPT !.step = "mark"]
    OBVIOUS
  <1>8. Knows(q, w) /\ e \in Leaves \cup Deletions
    BY <1>1, <1>2, <1>3, <1>4, Undisturbed DEF Drops
  <1>9. DOMAIN end = q.ids \cap Active
    BY <1>4
  <1>10. CASE e \in Leaves
    <2>1. w = [NoWrites EXCEPT !.del = PairsOf(e.user)] /\ q.ids = ActiveOf(e.user)
      BY <1>3, <1>4, <1>8, <1>10 DEF Knows, LeaveKnows
    <2>2. w.del = PairsOf(e.user) /\ w.ins = {} /\ w.add = <<>>
      BY <2>1 DEF NoWrites
    <2>3. f \in Leaves /\ f.step = "mark" /\ f.user = e.user
      BY <1>7, <1>10 DEF Leaves
    <2>4. DOMAIN v.end = ActiveOf(f.user)
      BY <1>6, <1>9, <2>1, <2>3 DEF ActiveOf
    <2>5. Knows(f, v)
      BY <1>6, <2>2, <2>3, <2>4, LeafKnows
    <2>6. Become(p, f) /\ Write(p, v) /\ UNCHANGED rows
      BY <1>1, <1>4, <1>5, <1>7 DEF FinishDropAll
    <2> QED BY <1>1, <1>2, <2>5, <2>6, WritesCalm
  <1>11. CASE e \in Deletions
    <2>1. e.team \in Live /\ w = NoWrites /\ q.ids = ActiveIn(e.team)
      BY <1>3, <1>4, <1>8, <1>11 DEF Knows, DeletionKnows
    <2>2. f \in Deletions /\ f.step = "mark" /\ f.team = e.team
      BY <1>7, <1>11 DEF Deletions
    <2>3. DOMAIN v.end = ActiveIn(f.team)
      BY <1>6, <1>9, <2>1, <2>2 DEF ActiveIn
    <2>4. v.del = {} /\ v.ins = {} /\ v.add = <<>>
      BY <1>6, <2>1, NoWritesTyped
    <2>5. Knows(f, v)
      BY <2>1, <2>2, <2>3, <2>4, DeletionStepKnows
    <2>6. Become(p, f) /\ Write(p, v) /\ UNCHANGED rows
      BY <1>1, <1>4, <1>5, <1>7 DEF FinishDropAll
    <2> QED BY <1>1, <1>2, <2>5, <2>6, WritesCalm
  <1> QED BY <1>8, <1>10, <1>11

LEMMA MarkTeamDeletedCalm ==
    ASSUME Inv, Calm, NEW p \in Operators, MarkTeamDeleted(p)
    PROVE  Calm'
  <1>1. PICK q, w : q = op[p] /\ w = tx[p]
    OBVIOUS
  <1>2. q.step = "mark" /\ "team" \in DOMAIN q /\ q \in Requests /\ q # Idle /\ w \in Writes
    <2>1. q.step = "mark" /\ "team" \in DOMAIN q
      BY <1>1 DEF MarkTeamDeleted
    <2>2. q \in Requests /\ w \in Writes
      BY <1>1, AtStep
    <2> QED BY <2>1, <2>2 DEF Idle
  <1>3. q \in Deletions
    BY <1>2, Shapes, Fields
  <1>4. PICK v : v = [w EXCEPT !.team = q.team, !.set = [state |-> "deleted"]]
    OBVIOUS
  <1>5. /\ v.team = q.team /\ v.set = [state |-> "deleted"]
        /\ v.del = w.del /\ v.ins = w.ins /\ v.end = w.end /\ v.add = w.add
    BY <1>2, <1>4 DEF Writes
  <1>6. PICK f : f = [q EXCEPT !.step = "commit"]
    OBVIOUS
  <1>7. f \in Deletions /\ f.step = "commit" /\ f.team = q.team
    BY <1>3, <1>6 DEF Deletions
  <1>8. /\ q.team \in Live
        /\ w.del = {} /\ w.ins = {} /\ w.add = <<>> /\ DOMAIN w.end = ActiveIn(q.team)
    BY <1>1, <1>2, <1>3, Undisturbed DEF Knows, DeletionKnows
  <1>9. Knows(f, v)
    BY <1>5, <1>7, <1>8, DeletionStepKnows
  <1>10. Become(p, f) /\ Write(p, v) /\ UNCHANGED rows
    BY <1>1, <1>4, <1>6 DEF MarkTeamDeleted
  <1> QED BY <1>1, <1>2, <1>9, <1>10, WritesCalm

LEMMA FailCalm ==
    ASSUME Inv, Calm, NEW p \in Operators, Fail(p)
    PROVE  Calm'
  <1>1. op[p] # Idle /\ Become(p, Idle) /\ Write(p, NoWrites) /\ UNCHANGED rows
    BY DEF Fail
  <1> QED BY <1>1, SimpleKnows, WritesCalm

LEMMA EnrollCalm ==
    ASSUME Inv, Calm, NEW p \in Operators, Enroll(p), orderly'
    PROVE  Calm'
  <1>1. PICK x \in Learners, c \in Classes : Read(p, [step |-> "count", who |-> x, class |-> c])
    BY DEF Enroll
  <1>2. PICK q : q = [step |-> "count", who |-> x, class |-> c]
    OBVIOUS
  <1>3. q \in Counts
    BY <1>2 DEF Counts
  <1>4. \E kind : Begin(p, kind)
    BY DEF Enroll
  <1>5. Alone(p) /\ tx[p] = NoWrites /\ Become(p, q) /\ UNCHANGED <<rows, tx>>
    BY <1>1, <1>2, <1>4, Beginning DEF Read
  <1> QED BY <1>3, <1>5, SimpleKnows, StartsCalm

LEMMA BulkEnrollCalm ==
    ASSUME Inv, Calm, NEW p \in Operators, BulkEnroll(p), orderly'
    PROVE  Calm'
  <1>1. PICK n : \E c \in Classes, learners \in SUBSET Learners \ {{}} :
           n = Cardinality(Direct(c))
           /\ Read(p, [step |-> "each", class |-> c, todo |-> learners, count |-> n])
    BY DEF BulkEnroll
  <1>2. PICK c \in Classes, learners \in SUBSET Learners \ {{}} :
           n = Cardinality(Direct(c))
           /\ Read(p, [step |-> "each", class |-> c, todo |-> learners, count |-> n])
    BY <1>1
  <1>3. PICK q : q = [step |-> "each", class |-> c, todo |-> learners, count |-> n]
    OBVIOUS
  <1>4. q \in Rounds
    BY <1>2, <1>3, DirectFinite DEF Rounds
  <1>5. \E kind : Begin(p, kind)
    BY DEF BulkEnroll
  <1>6. Alone(p) /\ tx[p] = NoWrites /\ Become(p, q) /\ UNCHANGED <<rows, tx>>
    BY <1>2, <1>3, <1>5, Beginning DEF Read
  <1> QED BY <1>4, <1>6, SimpleKnows, StartsCalm

LEMMA CountEnrollmentsCalm ==
    ASSUME Inv, Calm, NEW p \in Operators, CountEnrollments(p)
    PROVE  Calm'
  <1>1. op[p].step = "count" /\ op[p] \in Counts
    BY AtStep, Shapes DEF CountEnrollments
  <1>2. PICK w, u : w = tx[p] /\ u = op[p]
    OBVIOUS
  <1>3. PICK q : q = [step |-> "place", who |-> u.who, class |-> u.class,
                      todo |-> {}, count |-> Cap]
    OBVIOUS
  <1>4. q \in Placings
    BY <1>1, <1>2, <1>3, MembershipAssumption DEF Counts, Placings
  <1>5. u # Idle
    BY <1>1, <1>2 DEF Idle
  <1>6. w = NoWrites
    BY <1>1, <1>2, <1>5, Undisturbed DEF Knows, Begun
  <1>7. Become(p, q) /\ UNCHANGED <<rows, tx>>
    BY <1>2, <1>3 DEF CountEnrollments, Read
  <1> QED BY <1>2, <1>4, <1>5, <1>6, <1>7, SimpleKnows, ReadsCalm

LEMMA NextLearnerCalm ==
    ASSUME Inv, Calm, NEW p \in Operators, NextLearner(p)
    PROVE  Calm'
  <1>1. PICK q, w : q = op[p] /\ w = tx[p]
    OBVIOUS
  <1>2. q.step = "each" /\ q \in Requests /\ q # Idle
    <2>1. q.step = "each"
      BY <1>1 DEF NextLearner
    <2>2. q \in Requests
      BY <1>1, AtStep
    <2> QED BY <2>1, <2>2 DEF Idle
  <1>3. q \in Rounds
    BY <1>2, Shapes
  <1>4. PICK after : /\ Become(p, after)
                     /\ \/ after = Idle
                        \/ \E x \in q.todo :
                              \/ after = [q EXCEPT !.todo = @ \ {x}]
                              \/ after = [step |-> "place", who |-> x, class |-> q.class,
                                          todo |-> q.todo \ {x}, count |-> q.count]
    BY <1>1 DEF NextLearner, Read
  <1>5. after \in {Idle} \cup Placings \cup Rounds
    BY <1>3, <1>4 DEF Placings, Rounds
  <1>6. w = NoWrites
    BY <1>1, <1>2, Undisturbed DEF Knows, Begun
  <1>7. UNCHANGED <<rows, tx>>
    BY DEF NextLearner, Read
  <1> QED BY <1>1, <1>2, <1>4, <1>5, <1>6, <1>7, SimpleKnows, ReadsCalm

LEMMA WithdrawCalm ==
    ASSUME Inv, Calm, NEW p \in Operators, Withdraw(p), orderly'
    PROVE  Calm'
  <1>1. PICK i \in Active : enr[i].team = None /\ Read(p, [step |-> "withdraw", id |-> i])
    BY DEF Withdraw
  <1>2. PICK q : q = [step |-> "withdraw", id |-> i]
    OBVIOUS
  <1>3. i \in DOMAIN enr /\ i \in Nat
    BY Numbered DEF Active
  <1>4. q \in Withdrawals /\ q.id = i
    BY <1>2, <1>3 DEF Withdrawals
  <1>5. \E kind : Begin(p, kind)
    BY DEF Withdraw
  <1>6. Alone(p) /\ tx[p] = NoWrites /\ Become(p, q) /\ UNCHANGED <<rows, tx>>
    BY <1>1, <1>2, <1>5, Beginning DEF Read
  <1> QED BY <1>1, <1>4, <1>6, WithdrawKnows, StartsCalm

-----------------------------------------------------------------------------
(* Commits.                                                                *)

\* Who is enrolled in a team after one.
LEMMA WrittenEnrolls ==
    ASSUME Inv, NEW p \in Operators, NEW w, w = tx[p], enr' = Written(p)
    PROVE  /\ \A t, x : x \in Enrolled(t)' <=>
                 \/ \E i \in ActiveIn(t) : i \notin DOMAIN w.end /\ enr[i].who = x
                 \/ \E j \in DOMAIN w.add : w.add[j].who = x /\ w.add[j].team = t
           /\ AllByTeam' => AllByTeam
  <1>1. PICK q, n, all : q = op[p] /\ n = Len(enr) /\ all = Written(p)
    OBVIOUS
  <1>2. /\ w \in Writes /\ Adding(q, w)
        /\ \A i \in DOMAIN enr : enr[i] \in Enrollment
    BY <1>1, AtStep, Numbered DEF Fit
  <1>3. /\ w.add \in Seq(Enrollment)
        /\ \A i \in DOMAIN w.end : w.end[i] \in Ends
        /\ \A j \in DOMAIN w.add : w.add[j].status = "Active"
    <2>1. w.add \in Seq(Enrollment) /\ w.end \in EndMaps
      BY <1>2 DEF Writes
    <2>2. \A i \in DOMAIN w.end : w.end[i] \in Ends
      BY <2>1 DEF EndMaps
    <2>3. \A j \in DOMAIN w.add : w.add[j].status = "Active"
      BY <1>2 DEF Adding
    <2> QED BY <2>1, <2>2, <2>3
  <1>4. /\ \A i \in DOMAIN enr :
              i \in DOMAIN all /\ all[i] = IF i \in DOMAIN w.end THEN Over(enr[i], w.end[i])
                                           ELSE enr[i]
        /\ \A j \in DOMAIN w.add : n + j \in DOMAIN all /\ all[n + j] = w.add[j]
        /\ \A m \in DOMAIN all : m \in DOMAIN enr \/ \E j \in DOMAIN w.add : m = n + j
    BY <1>1, WrittenFacts DEF Inv
  <1>5. \A i \in DOMAIN enr : all[i].who = enr[i].who /\ all[i].team = enr[i].team
    BY <1>2, <1>3, <1>4, Ended
  <1>6. \A i \in DOMAIN enr : all[i].status = "Active" <=>
                                 enr[i].status = "Active" /\ i \notin DOMAIN w.end
    BY <1>2, <1>3, <1>4, Ended
  <1>7. \A t : ActiveIn(t)' = {m \in DOMAIN all : all[m].status = "Active" /\ all[m].team = t}
    BY <1>1 DEF ActiveIn, Active
  <1>8. ASSUME NEW t, NEW x
        PROVE  x \in Enrolled(t)' <=>
                 \/ \E i \in ActiveIn(t) : i \notin DOMAIN w.end /\ enr[i].who = x
                 \/ \E j \in DOMAIN w.add : w.add[j].who = x /\ w.add[j].team = t
    <2>1. x \in Enrolled(t)' <=>
             \E m \in DOMAIN all : all[m].status = "Active" /\ all[m].team = t /\ all[m].who = x
      BY <1>1, <1>7 DEF Enrolled
    <2>2. ASSUME NEW m \in DOMAIN all, all[m].status = "Active", all[m].team = t, all[m].who = x
          PROVE  \/ \E i \in ActiveIn(t) : i \notin DOMAIN w.end /\ enr[i].who = x
                 \/ \E j \in DOMAIN w.add : w.add[j].who = x /\ w.add[j].team = t
      <3>1. CASE m \in DOMAIN enr
        BY <1>5, <1>6, <2>2, <3>1 DEF ActiveIn, Active
      <3>2. CASE \E j \in DOMAIN w.add : m = n + j
        BY <1>4, <2>2, <3>2
      <3> QED BY <1>4, <3>1, <3>2
    <2>3. ASSUME NEW i \in ActiveIn(t), i \notin DOMAIN w.end, enr[i].who = x
          PROVE  \E m \in DOMAIN all : all[m].status = "Active" /\ all[m].team = t /\ all[m].who = x
      BY <1>4, <1>5, <1>6, <2>3 DEF ActiveIn, Active
    <2>4. ASSUME NEW j \in DOMAIN w.add, w.add[j].who = x, w.add[j].team = t
          PROVE  \E m \in DOMAIN all : all[m].status = "Active" /\ all[m].team = t /\ all[m].who = x
      BY <1>3, <1>4, <2>4
    <2> QED BY <2>1, <2>2, <2>3, <2>4
  <1>9. AllByTeam' => AllByTeam
    BY <1>1, <1>4, <1>5 DEF AllByTeam
  <1> QED BY <1>8, <1>9

\* The teams after the commit of an edit.
LEMMA EditCommitted ==
    ASSUME Inv, NEW e \in Edits, NEW w, Current(e, None), OwnRow(e, w), e.step # "class", OneClass,
           team' = [t \in Teams |-> IF t = w.team THEN Over(team[t], w.set) ELSE team[t]]
    PROVE  /\ Live' = Live \cup {e.team} /\ OneClass'
           /\ \A s \in Teams : team'[s].state = "absent" =>
                                  s # e.team /\ team[s].state = "absent"
  <1>1. PICK t, set : t = e.team /\ set = e.set
    OBVIOUS
  <1>2. /\ t \in Teams /\ set \in Columns /\ w.set = set
        /\ w.team = IF set = <<>> THEN None ELSE t
    BY <1>1 DEF Edits, OwnRow
  <1>3. \A s \in Teams : team[s] \in Team
    BY DEF Inv, TypeOK
  <1>4. \A s \in Teams \ {t} : team'[s] = team[s]
    BY <1>2, MembershipAssumption
  <1>5. /\ team'[t].state = IF "state" \in DOMAIN set THEN set.state ELSE team[t].state
        /\ team'[t].class = IF "class" \in DOMAIN set THEN set.class ELSE team[t].class
    <2>1. CASE set = <<>>
      <3>1. team'[t] = team[t] /\ DOMAIN set = {}
        BY <1>2, <2>1, MembershipAssumption
      <3> QED BY <3>1
    <2>2. CASE set # <<>>
      <3>1. team'[t] = Over(team[t], set)
        BY <1>2, <2>2
      <3>2. PICK row : row = team[t]
        OBVIOUS
      <3>3. row \in Team
        BY <1>2, <1>3, <3>2
      <3>4. DOMAIN row = {"state", "class", "leader"}
        BY <3>3 DEF Team
      <3>5. /\ Over(row, set).state = IF "state" \in DOMAIN set THEN set.state ELSE row.state
            /\ Over(row, set).class = IF "class" \in DOMAIN set THEN set.class ELSE row.class
        BY <3>4 DEF Over
      <3> QED BY <3>1, <3>2, <3>5
    <2> QED BY <2>1, <2>2
  <1>6. /\ IF "state" \in DOMAIN set
           THEN set.state = "live" /\ "class" \in DOMAIN set /\ team[t].state = "absent"
           ELSE t \in Live
        /\ "class" \in DOMAIN set => \A s \in Live \ {t, None} : team[s].class = set.class =>
                                        set.class = None
    BY <1>1 DEF Current
  <1>7. team'[t].state = "live"
    BY <1>5, <1>6 DEF Live
  <1>8. Live' = Live \cup {t}
    BY <1>2, <1>4, <1>7 DEF Live
  <1>9. \A s \in Live \ {t} : team'[t].class = team[s].class => team[s].class = None
    <2>1. None \notin Live
      BY MembershipAssumption DEF Live
    <2>2. CASE "class" \in DOMAIN set
      BY <1>5, <1>6, <2>1, <2>2
    <2>3. CASE "class" \notin DOMAIN set
      BY <1>5, <1>6, <2>3 DEF OneClass
    <2> QED BY <2>2, <2>3
  <1>10. OneClass'
    <2> SUFFICES ASSUME NEW r \in Live', NEW s \in Live', r # s, team'[r].class = team'[s].class
                 PROVE  team'[r].class = None
      BY DEF OneClass
    <2>1. CASE r # t /\ s # t
      BY <1>4, <1>8, <2>1 DEF OneClass, Live
    <2>2. CASE r = t
      BY <1>4, <1>8, <1>9, <2>2 DEF Live
    <2>3. CASE s = t
      BY <1>4, <1>8, <1>9, <2>3 DEF Live
    <2> QED BY <2>1, <2>2, <2>3
  <1> QED BY <1>1, <1>4, <1>7, <1>8, <1>10

\* A commit or a single statement that ends the request.
LEMMA EndsCalm ==
    ASSUME Inv, Calm, NEW p \in Operators, op[p] # Idle, Become(p, Idle), Write(p, NoWrites),
           Agree', OneClass', OneTeam'
    PROVE  Calm'
  <1>1. Alone(p)
    BY Undisturbed
  <1>2. Knows(Idle, NoWrites)'
    <2>1. PICK i, n : i = Idle /\ n = NoWrites
      OBVIOUS
    <2>2. i.step = "idle" /\ i \in {Idle}
      BY <2>1 DEF Idle
    <2>3. Knows(i, n)'
      BY <2>1, <2>2, OneShape DEF Knows, EditKnows, LeaveKnows, DeletionKnows, SyncSteps
    <2> QED BY <2>1, <2>3
  <1> QED BY <1>1, <1>2, CalmAfter

LEMMA SyncCommitCalm ==
    ASSUME Inv, Calm, NEW p \in Operators, Commit(p), op[p].step = "sync"
    PROVE  Calm'
  <1>1. PICK q, w : q = op[p] /\ w = tx[p]
    OBVIOUS
  <1>2. q.step = "sync" /\ q.todo = {} /\ q.left = {} /\ SyncOf(q) = q
    BY <1>1 DEF Commit, SyncOf
  <1>3. /\ q # Idle /\ q \in Edits /\ w \in Writes /\ q.team \in Teams
        /\ Current(q, None) /\ Synced(q, w) /\ Enrolled(q.team) = q.old
    BY <1>1, <1>2, InSync DEF SyncSteps
  <1>4. Agree /\ OneClass /\ OneTeam
    BY <1>1, <1>3, Undisturbed
  <1>5. PICK t, old, new : t = q.team /\ old = q.old /\ new = q.members
    OBVIOUS
  <1>6. /\ team' = [s \in Teams |-> IF s = w.team THEN Over(team[s], w.set) ELSE team[s]]
        /\ member' = [s \in Teams |-> {x \in Learners :
                         \/ <<s, x>> \in w.ins
                         \/ x \in member[s] /\ <<s, x>> \notin w.del}]
        /\ enr' = Written(p) /\ Become(p, Idle) /\ Write(p, NoWrites)
    BY <1>1 DEF Commit
  <1>7. /\ Live' = Live \cup {t} /\ OneClass'
        /\ \A s \in Teams : team'[s].state = "absent" => s # t /\ team[s].state = "absent"
    <2>1. OwnRow(q, w)
      BY <1>2, <1>3 DEF Synced
    <2>2. q.step # "class"
      BY <1>2
    <2> QED BY <1>3, <1>4, <1>5, <1>6, <2>1, <2>2, EditCommitted
  <1>8. /\ new \in SUBSET Learners /\ old \in SUBSET Learners /\ t \in Teams
        /\ Joining(q) = new \ old /\ Leaving(q) = old \ new /\ Sought(q) = new \ old
        /\ old = member[t]
    BY <1>2, <1>3, <1>5 DEF Synced, Joining, Leaving, Sought, Edits, Current
  <1>9. /\ w.ins = {t} \X new
        /\ \A x \in Learners : <<t, x>> \in w.del <=> x \in old
        /\ \A s \in Teams \ {t}, x \in Learners : <<s, x>> \in w.del =>
              \E i \in ActiveIn(s) : enr[i].who = x /\ i \in DOMAIN w.end
        /\ AllByTeam => \A s \in Live \ {t} : \A x \in member[s] \cap (new \ old) :
                           <<s, x>> \in w.del
    BY <1>2, <1>3, <1>5, <1>8 DEF Synced, PairsSynced
  <1>10. /\ \A x \in Learners : x \in new \ old <=> \E j \in DOMAIN w.add : w.add[j].who = x
         /\ \A i \in ActiveIn(t) : i \in DOMAIN w.end <=> enr[i].who \in old \ new
         /\ \A s \in Teams \ {t} : \A i \in ActiveIn(s) :
               i \in DOMAIN w.end => <<s, enr[i].who>> \in w.del
    <2>1. EnrSynced(q, w)
      BY <1>3 DEF Synced
    <2>2. (new \ old) \ q.todo = new \ old /\ (old \ new) \ q.left = old \ new
      BY <1>2
    <2> QED BY <1>2, <1>5, <1>8, <2>1, <2>2 DEF EnrSynced
  <1>11. /\ member'[t] = new
         /\ \A s \in Teams \ {t} : member'[s] = {x \in member[s] : <<s, x>> \notin w.del}
    <2>1. member'[t] = {x \in Learners : \/ <<t, x>> \in w.ins
                                         \/ x \in member[t] /\ <<t, x>> \notin w.del}
      BY <1>6, <1>8
    <2>2. \A x \in Learners : <<t, x>> \in w.ins <=> x \in new
      BY <1>9
    <2>3. member'[t] = new
      BY <1>8, <1>9, <2>1, <2>2
    <2>4. ASSUME NEW s \in Teams \ {t}
          PROVE  member'[s] = {x \in member[s] : <<s, x>> \notin w.del}
      <3>1. \A x \in Learners : <<s, x>> \notin w.ins
        BY <1>9
      <3>2. member[s] \in SUBSET Learners
        BY DEF Inv, TypeOK
      <3> QED BY <1>6, <3>1, <3>2
    <2> QED BY <2>3, <2>4
  <1>12. \A j \in DOMAIN w.add : w.add[j].team = t /\ w.add[j].who \in Learners
    <2>1. Adding(q, w)
      BY <1>1, AtStep DEF Fit
    <2>2. w.add \in Seq(Enrollment)
      BY <1>3 DEF Writes
    <2>3. \A j \in DOMAIN w.add : w.add[j].team = t
      BY <1>2, <1>5, <2>1 DEF Adding
    <2>4. \A j \in DOMAIN w.add : w.add[j].who \in Learners
      <3>1. PICK add : add = w.add
        OBVIOUS
      <3>2. \A j \in DOMAIN add : add[j] \in Enrollment
        BY <2>2, <3>1
      <3> QED BY <3>1, <3>2 DEF Enrollment
    <2> QED BY <2>3, <2>4
  <1>13. /\ \A s, x : x \in Enrolled(s)' <=>
               \/ \E i \in ActiveIn(s) : i \notin DOMAIN w.end /\ enr[i].who = x
               \/ \E j \in DOMAIN w.add : w.add[j].who = x /\ w.add[j].team = s
         /\ AllByTeam' => AllByTeam
    <2>1. w = tx[p] /\ enr' = Written(p)
      BY <1>1, <1>6
    <2> QED BY <2>1, WrittenEnrolls
  <1>14. Enrolled(t)' = new
    <2>1. \A x : x \in Enrolled(t) <=> \E i \in ActiveIn(t) : enr[i].who = x
      BY DEF Enrolled
    <2>2. \A x : (\E i \in ActiveIn(t) : i \notin DOMAIN w.end /\ enr[i].who = x) <=>
                    x \in old \cap new
      BY <1>3, <1>5, <1>10, <2>1
    <2>3. \A x : (\E j \in DOMAIN w.add : w.add[j].who = x /\ w.add[j].team = t) <=>
                    x \in new \ old
      BY <1>8, <1>10, <1>12
    <2> QED BY <1>13, <2>2, <2>3
  <1>15. \A s \in Teams \ {t} : Enrolled(s)' = {x \in Enrolled(s) : <<s, x>> \notin w.del}
    <2> SUFFICES ASSUME NEW s \in Teams \ {t}, NEW x
                 PROVE  x \in Enrolled(s)' <=> x \in Enrolled(s) /\ <<s, x>> \notin w.del
      OBVIOUS
    <2>1. x \in Enrolled(s) <=> \E i \in ActiveIn(s) : enr[i].who = x
      BY DEF Enrolled
    <2>2. x \in Enrolled(s)' <=> \E i \in ActiveIn(s) : i \notin DOMAIN w.end /\ enr[i].who = x
      BY <1>12, <1>13
    <2>3. ASSUME NEW i \in ActiveIn(s), enr[i].who = x
          PROVE  i \in DOMAIN w.end <=> <<s, x>> \in w.del
      <3>1. x \in Learners
        BY <2>3, Numbered DEF ActiveIn, Active, Enrollment
      <3>2. \A k \in ActiveIn(s) : enr[k].who = x => k = i
        BY <2>3, OneRowEach
      <3> QED BY <1>9, <1>10, <2>3, <3>1, <3>2
    <2> QED BY <2>1, <2>2, <2>3
  <1>16. Agree'
    <2>1. ASSUME NEW s \in Teams
          PROVE  Enrolled(s)' = IF s \in Live' THEN member'[s] ELSE {}
      BY <1>4, <1>7, <1>8, <1>11, <1>14, <1>15, <2>1 DEF Agree
    <2>2. ASSUME NEW s \in Teams, team'[s].state = "absent"
          PROVE  member'[s] = {}
      BY <1>4, <1>7, <1>11, <2>2 DEF Agree
    <2> QED BY <2>1, <2>2 DEF Agree
  <1>17. OneTeam'
    <2> SUFFICES ASSUME AllByTeam', NEW r \in Live', NEW s \in Live', r # s,
                        NEW x, x \in member'[r], x \in member'[s]
                 PROVE  FALSE
      BY DEF OneTeam
    <2>1. /\ AllByTeam /\ r \in Teams /\ s \in Teams
      BY <1>8, <1>13, <1>7 DEF Live
    <2>2. ASSUME NEW u \in Live \ {t}, x \in member'[u], x \in new
          PROVE  FALSE
      <3>1. x \in member[u] /\ <<u, x>> \notin w.del
        BY <1>11, <2>2 DEF Live
      <3>2. x \in old
        BY <1>9, <2>1, <2>2, <3>1
      <3>3. t \in Live
        BY <1>4, <1>3, <1>5, <1>8, <3>2 DEF Current, Agree
      <3> QED BY <1>4, <1>8, <2>1, <3>1, <3>2, <3>3 DEF OneTeam
    <2>3. CASE r = t
      BY <1>7, <1>11, <2>2, <2>3
    <2>4. CASE s = t
      BY <1>7, <1>11, <2>2, <2>4
    <2>5. CASE r # t /\ s # t
      <3>1. r \in Live /\ s \in Live /\ x \in member[r] /\ x \in member[s]
        BY <1>7, <1>11, <2>1, <2>5
      <3> QED BY <1>4, <2>1, <3>1 DEF OneTeam
    <2> QED BY <2>3, <2>4, <2>5
  <1> QED BY <1>1, <1>3, <1>6, <1>7, <1>16, <1>17, EndsCalm

\* An edit that keeps the members writes the team's row only.
LEMMA RowCommitCalm ==
    ASSUME Inv, Calm, NEW p \in Operators, Commit(p), op[p].step = "commit", op[p] \in Edits
    PROVE  Calm'
  <1>1. PICK q, w : q = op[p] /\ w = tx[p]
    OBVIOUS
  <1>2. q.step = "commit" /\ q \in Edits /\ q.team \in Teams /\ q # Idle
    BY <1>1 DEF Edits, Idle
  <1>3. Current(q, None) /\ OwnRow(q, w) /\ NothingElse(w) /\ Agree /\ OneClass /\ OneTeam
    BY <1>1, <1>2, Undisturbed DEF Knows, EditKnows
  <1>4. /\ team' = [s \in Teams |-> IF s = w.team THEN Over(team[s], w.set) ELSE team[s]]
        /\ member' = [s \in Teams |-> {x \in Learners :
                         \/ <<s, x>> \in w.ins
                         \/ x \in member[s] /\ <<s, x>> \notin w.del}]
        /\ enr' = Written(p) /\ Become(p, Idle) /\ Write(p, NoWrites)
    BY <1>1 DEF Commit
  <1>5. /\ Live' = Live \cup {q.team} /\ OneClass'
        /\ \A s \in Teams : team'[s].state = "absent" => s # q.team /\ team[s].state = "absent"
    BY <1>2, <1>3, <1>4, EditCommitted
  <1>6. /\ w.del = {} /\ w.ins = {} /\ DOMAIN w.end = {} /\ DOMAIN w.add = {}
    BY <1>3 DEF NothingElse
  <1>7. \A s \in Teams : member'[s] = member[s]
    <2>1. \A s \in Teams : member[s] \in SUBSET Learners
      BY DEF Inv, TypeOK
    <2> QED BY <1>4, <1>6, <2>1
  <1>8. /\ \A s, x : x \in Enrolled(s)' <=>
               \/ \E i \in ActiveIn(s) : i \notin DOMAIN w.end /\ enr[i].who = x
               \/ \E j \in DOMAIN w.add : w.add[j].who = x /\ w.add[j].team = s
        /\ AllByTeam' => AllByTeam
    <2>1. w = tx[p] /\ enr' = Written(p)
      BY <1>1, <1>4
    <2> QED BY <2>1, WrittenEnrolls
  <1>9. \A s : Enrolled(s)' = Enrolled(s)
    <2>1. \A s, x : x \in Enrolled(s)' <=> \E i \in ActiveIn(s) : enr[i].who = x
      BY <1>6, <1>8
    <2> QED BY <2>1 DEF Enrolled
  <1>10. q.team \in Live \/ member[q.team] = {}
    BY <1>2, <1>3 DEF Current, Agree
  <1>11. Agree'
    <2>1. ASSUME NEW s \in Teams
          PROVE  Enrolled(s)' = IF s \in Live' THEN member'[s] ELSE {}
      BY <1>3, <1>5, <1>7, <1>9, <1>10, <2>1 DEF Agree
    <2>2. ASSUME NEW s \in Teams, team'[s].state = "absent"
          PROVE  member'[s] = {}
      BY <1>3, <1>5, <1>7, <2>2 DEF Agree
    <2> QED BY <2>1, <2>2 DEF Agree
  <1>12. OneTeam'
    <2>1. \A s \in Live' : s \in Teams /\ (s \in Live \/ member[s] = {})
      BY <1>2, <1>5, <1>10 DEF Live
    <2> QED BY <1>3, <1>7, <1>8, <2>1 DEF OneTeam
  <1> QED BY <1>1, <1>2, <1>4, <1>5, <1>11, <1>12, EndsCalm

LEMMA DeletionCommitCalm ==
    ASSUME Inv, Calm, NEW p \in Operators, Commit(p), op[p].step = "commit", op[p] \in Deletions
    PROVE  Calm'
  <1>1. PICK q, w, t : q = op[p] /\ w = tx[p] /\ t = q.team
    OBVIOUS
  <1>2. q.step = "commit" /\ q \in Deletions /\ t \in Teams /\ q # Idle
    <2>1. q.step = "commit" /\ q \in Deletions /\ t \in Teams
      BY <1>1 DEF Deletions
    <2>2. q # Idle
      BY <2>1, OneShape
    <2> QED BY <2>1, <2>2
  <1>3. /\ w.del = {} /\ w.ins = {} /\ w.add = <<>> /\ DOMAIN w.end = ActiveIn(t)
        /\ w.team = t /\ w.set = [state |-> "deleted"]
        /\ Agree /\ OneClass /\ OneTeam
    BY <1>1, <1>2, Undisturbed DEF Knows, DeletionKnows
  <1>4. /\ team' = [s \in Teams |-> IF s = w.team THEN Over(team[s], w.set) ELSE team[s]]
        /\ member' = [s \in Teams |-> {x \in Learners :
                         \/ <<s, x>> \in w.ins
                         \/ x \in member[s] /\ <<s, x>> \notin w.del}]
        /\ enr' = Written(p) /\ Become(p, Idle) /\ Write(p, NoWrites)
    BY <1>1 DEF Commit
  <1>5. /\ \A s \in Teams \ {t} : team'[s] = team[s]
        /\ team'[t].state = "deleted"
    <2>1. \A s \in Teams \ {t} : team'[s] = team[s]
      BY <1>3, <1>4
    <2>2. PICK row, set : row = team[t] /\ set = [state |-> "deleted"]
      OBVIOUS
    <2>3. row \in Team
      BY <1>2, <2>2 DEF Inv, TypeOK
    <2>4. "state" \in DOMAIN row /\ "state" \in DOMAIN set /\ set.state = "deleted"
      BY <2>2, <2>3 DEF Team
    <2>5. Over(row, set).state = "deleted"
      BY <2>4 DEF Over
    <2>6. team'[t] = Over(row, set)
      BY <1>2, <1>3, <1>4, <2>2
    <2> QED BY <2>1, <2>5, <2>6
  <1>6. Live' = Live \ {t}
    BY <1>5 DEF Live
  <1>7. \A s \in Teams : member'[s] = member[s]
    <2>1. \A s \in Teams : member[s] \in SUBSET Learners
      BY DEF Inv, TypeOK
    <2> QED BY <1>3, <1>4, <2>1
  <1>8. /\ \A s, x : x \in Enrolled(s)' <=>
               \/ \E i \in ActiveIn(s) : i \notin DOMAIN w.end /\ enr[i].who = x
               \/ \E j \in DOMAIN w.add : w.add[j].who = x /\ w.add[j].team = s
        /\ AllByTeam' => AllByTeam
    <2>1. w = tx[p] /\ enr' = Written(p)
      BY <1>1, <1>4
    <2> QED BY <2>1, WrittenEnrolls
  <1>9. Enrolled(t)' = {} /\ \A s \in Teams \ {t} : Enrolled(s)' = Enrolled(s)
    <2>1. DOMAIN w.add = {}
      BY <1>3
    <2>2. \A x : x \notin Enrolled(t)'
      BY <1>3, <1>8, <2>1
    <2>3. ASSUME NEW s \in Teams \ {t}
          PROVE  Enrolled(s)' = Enrolled(s)
      <3>1. \A i \in ActiveIn(s) : i \notin ActiveIn(t)
        BY DEF ActiveIn
      <3>2. \A x : x \in Enrolled(s)' <=> \E i \in ActiveIn(s) : enr[i].who = x
        BY <1>3, <1>8, <2>1, <3>1
      <3>3. \A x : x \in Enrolled(s) <=> \E i \in ActiveIn(s) : enr[i].who = x
        BY DEF Enrolled
      <3>4. \A x : x \in Enrolled(s)' <=> x \in Enrolled(s)
        BY <3>2, <3>3
      <3> QED BY <3>4
    <2>4. Enrolled(t)' = {}
      BY <2>2
    <2> QED BY <2>3, <2>4
  <1>10. Agree'
    <2>1. ASSUME NEW s \in Teams
          PROVE  Enrolled(s)' = IF s \in Live' THEN member'[s] ELSE {}
      BY <1>3, <1>6, <1>7, <1>9, <2>1 DEF Agree
    <2>2. ASSUME NEW s \in Teams, team'[s].state = "absent"
          PROVE  member'[s] = {}
      BY <1>3, <1>5, <1>7, <2>2 DEF Agree
    <2> QED BY <2>1, <2>2 DEF Agree
  <1>11. OneClass'
    BY <1>3, <1>5, <1>6 DEF OneClass, Live
  <1>12. OneTeam'
    BY <1>3, <1>6, <1>7, <1>8 DEF OneTeam, Live
  <1> QED BY <1>1, <1>2, <1>4, <1>10, <1>11, <1>12, EndsCalm

LEMMA CommitCalm ==
    ASSUME Inv, Calm, NEW p \in Operators, Commit(p)
    PROVE  Calm'
  <1>1. op[p].step = "sync" \/ op[p].step = "commit"
    BY DEF Commit
  <1>2. CASE op[p].step = "sync"
    BY <1>2, SyncCommitCalm
  <1>3. CASE op[p].step = "commit"
    <2>1. op[p] \in Edits \/ op[p] \in Deletions
      BY <1>3, AtStep, Shapes
    <2> QED BY <1>3, <2>1, RowCommitCalm, DeletionCommitCalm
  <1> QED BY <1>1, <1>2, <1>3

LEMMA SoftDeleteUserCalm ==
    ASSUME Inv, Calm, NEW p \in Operators, SoftDeleteUser(p)
    PROVE  Calm'
  <1>1. PICK q, w, x : q = op[p] /\ w = tx[p] /\ x = q.user
    OBVIOUS
  <1>2. q.step = "mark" /\ q \in Leaves
    <2>1. q.step = "mark" /\ "user" \in DOMAIN q
      BY <1>1 DEF SoftDeleteUser
    <2>2. q \in Requests
      BY <1>1, AtStep
    <2> QED BY <2>1, <2>2, Shapes, Fields
  <1>3. q # Idle
    BY <1>2, OneShape
  <1>4. /\ w.del = PairsOf(x) /\ w.add = <<>> /\ DOMAIN w.end = ActiveOf(x)
        /\ Agree /\ OneClass /\ OneTeam
    BY <1>1, <1>2, <1>3, Undisturbed DEF Knows, LeaveKnows
  <1>5. /\ UNCHANGED team
        /\ member' = [t \in Teams |-> {y \in member[t] : <<t, y>> \notin w.del}]
        /\ enr' = Written(p) /\ Become(p, Idle) /\ Write(p, NoWrites)
    BY <1>1 DEF SoftDeleteUser
  <1>6. \A t \in Teams : member'[t] = member[t] \ {x}
    <2>1. \A t \in Teams : member[t] \in SUBSET Learners
      BY DEF Inv, TypeOK
    <2>2. \A t \in Teams : \A y \in member[t] : <<t, y>> \in w.del <=> y = x
      BY <1>4, <2>1 DEF PairsOf, Pairs
    <2> QED BY <1>5, <2>2
  <1>7. /\ \A s, y : y \in Enrolled(s)' <=>
               \/ \E i \in ActiveIn(s) : i \notin DOMAIN w.end /\ enr[i].who = y
               \/ \E j \in DOMAIN w.add : w.add[j].who = y /\ w.add[j].team = s
        /\ AllByTeam' => AllByTeam
    <2>1. w = tx[p] /\ enr' = Written(p)
      BY <1>1, <1>5
    <2> QED BY <2>1, WrittenEnrolls
  <1>8. \A t \in Teams : Enrolled(t)' = Enrolled(t) \ {x}
    <2>1. DOMAIN w.add = {}
      BY <1>4
    <2>2. \A t : \A i \in ActiveIn(t) : i \in DOMAIN w.end <=> enr[i].who = x
      BY <1>4 DEF ActiveOf, ActiveIn
    <2>3. \A t, y : y \in Enrolled(t) <=> \E i \in ActiveIn(t) : enr[i].who = y
      BY DEF Enrolled
    <2>4. \A t, y : y \in Enrolled(t)' <=> y \in Enrolled(t) /\ y # x
      BY <1>7, <2>1, <2>2, <2>3
    <2> QED BY <2>4
  <1>9. Live' = Live
    BY <1>5 DEF Live
  <1>10. Agree'
    BY <1>4, <1>5, <1>6, <1>8, <1>9 DEF Agree
  <1>11. OneClass'
    BY <1>4, <1>5, <1>9 DEF OneClass
  <1>12. OneTeam'
    <2>1. \A t \in Live' : t \in Live /\ member'[t] \subseteq member[t]
      BY <1>6, <1>9 DEF Live
    <2> QED BY <1>4, <1>7, <2>1 DEF OneTeam
  <1> QED BY <1>1, <1>3, <1>5, <1>10, <1>11, <1>12, EndsCalm

\* Direct enrollments are in no team.
LEMMA DirectCalm ==
    ASSUME Inv, Calm, UNCHANGED <<team, member>>, \A t \in Teams : Enrolled(t)' = Enrolled(t),
           AllByTeam' => AllByTeam
    PROVE  Agree' /\ OneClass' /\ OneTeam'
  <1>1. Live' = Live /\ Agree /\ OneClass /\ OneTeam
    BY DEF Live, Calm
  <1>2. Agree'
    BY <1>1 DEF Agree
  <1> QED BY <1>1, <1>2 DEF OneClass, OneTeam

LEMMA InsertActiveEnrollmentCalm ==
    ASSUME Inv, Calm, NEW p \in Operators, InsertActiveEnrollment(p)
    PROVE  Calm'
  <1>1. PICK q, w : q = op[p] /\ w = tx[p]
    OBVIOUS
  <1>2. q.step = "place" /\ q \in Placings
    BY <1>1, AtStep, Shapes DEF InsertActiveEnrollment
  <1>3. q # Idle
    BY <1>2 DEF Idle
  <1>4. PICK r : r = [who |-> q.who, class |-> q.class, team |-> None, status |-> "Active",
                      to |-> None]
    OBVIOUS
  <1>5. PICK f : /\ f \in Rounds
                 /\ Become(p, f) /\ UNCHANGED <<team, member, tx>>
                 /\ enr' = enr \/ enr' = Append(enr, r)
    <2>0. PICK n : /\ n = q.count \/ n = Admitted(q.count)
                   /\ Become(p, [step |-> "each", class |-> q.class, todo |-> q.todo,
                                 count |-> n])
      BY <1>1 DEF InsertActiveEnrollment
    <2>1. n \in Nat
      BY <1>2, <2>0 DEF Admitted, Placings
    <2>2. PICK f : f = [step |-> "each", class |-> q.class, todo |-> q.todo, count |-> n]
      OBVIOUS
    <2>3. f \in Rounds
      BY <1>2, <2>1, <2>2 DEF Placings, Rounds
    <2>4. UNCHANGED <<team, member, tx>> /\ (enr' = enr \/ enr' = Append(enr, r))
      BY <1>1, <1>4 DEF InsertActiveEnrollment
    <2> QED BY <2>0, <2>2, <2>3, <2>4
  <1>6. /\ \A i \in DOMAIN enr : i \in DOMAIN enr' /\ enr'[i] = enr[i]
        /\ \A i \in DOMAIN enr' : i \in DOMAIN enr \/ enr'[i].team = None
    <2>1. enr \in Seq(Enrollment) /\ r.team = None
      BY <1>4 DEF Inv, TypeOK
    <2>2. PICK n : n = Len(enr)
      OBVIOUS
    <2>3. CASE enr' = Append(enr, r)
      <3>1. /\ DOMAIN enr = 1 .. n /\ n \in Nat /\ DOMAIN enr' = 1 .. n + 1
            /\ \A i \in 1 .. n : enr'[i] = enr[i]
            /\ enr'[n + 1] = r
        BY <2>1, <2>2, <2>3
      <3> QED BY <2>1, <3>1
    <2>4. CASE enr' = enr
      BY <2>4
    <2> QED BY <1>5, <2>3, <2>4
  <1>7. \A t \in Teams : Enrolled(t)' = Enrolled(t)
    <2>1. ASSUME NEW t \in Teams
          PROVE  ActiveIn(t)' = ActiveIn(t)
      BY <1>6, MembershipAssumption DEF ActiveIn, Active
    <2> QED BY <1>6, <2>1 DEF Enrolled, ActiveIn, Active
  <1>8. AllByTeam' => AllByTeam
    BY <1>6 DEF AllByTeam
  <1>9. Agree' /\ OneClass' /\ OneTeam'
    BY <1>5, <1>7, <1>8, DirectCalm
  <1>10. Alone(p) /\ w = NoWrites
    BY <1>1, <1>2, <1>3, Undisturbed DEF Knows, Begun
  <1>11. Knows(f, NoWrites)'
    <2>1. f.step = "each"
      BY <1>5 DEF Rounds
    <2> QED BY <1>5, <2>1, OneShape DEF Knows, EditKnows, LeaveKnows, DeletionKnows, SyncSteps
  <1>12. Become(p, f) /\ Write(p, NoWrites)
    BY <1>1, <1>5, <1>10 DEF Write, Inv, Fits
  <1> QED BY <1>9, <1>10, <1>11, <1>12, CalmAfter

LEMMA MarkDroppedCalm ==
    ASSUME Inv, Calm, NEW p \in Operators, MarkDropped(p)
    PROVE  Calm'
  <1>1. PICK q, w : q = op[p] /\ w = tx[p]
    OBVIOUS
  <1>2. q.step = "withdraw" /\ q # Idle
    BY <1>1 DEF MarkDropped, Idle
  <1>3. w = NoWrites /\ enr[q.id].team = None
    BY <1>1, <1>2, Undisturbed DEF Knows, Begun
  <1>4. /\ enr' = [enr EXCEPT ![q.id].status = "Dropped"]
        /\ Become(p, Idle) /\ UNCHANGED <<team, member, tx>>
    BY <1>1 DEF MarkDropped
  <1>5. /\ DOMAIN enr' = DOMAIN enr
        /\ \A i \in DOMAIN enr : enr'[i].team = enr[i].team /\ enr'[i].who = enr[i].who
        /\ \A i \in DOMAIN enr : i # q.id => enr'[i] = enr[i]
    BY <1>4, Numbered DEF Enrollment
  <1>6. \A t \in Teams : Enrolled(t)' = Enrolled(t)
    <2>1. ASSUME NEW t \in Teams
          PROVE  ActiveIn(t)' = ActiveIn(t)
      BY <1>3, <1>5, MembershipAssumption DEF ActiveIn, Active
    <2> QED BY <1>5, <2>1 DEF Enrolled, ActiveIn, Active
  <1>7. AllByTeam' => AllByTeam
    BY <1>5 DEF AllByTeam
  <1>8. Agree' /\ OneClass' /\ OneTeam'
    BY <1>4, <1>6, <1>7, DirectCalm
  <1>9. Write(p, NoWrites)
    BY <1>1, <1>3, <1>4 DEF Write, Inv, Fits
  <1> QED BY <1>1, <1>2, <1>4, <1>8, <1>9, EndsCalm

-----------------------------------------------------------------------------
(* Every step keeps it, as long as the requests take turns.                *)

LEMMA StepCalm ==
    ASSUME Inv, Calm, NEW p \in Operators, TeamStep(p) \/ CohortStep(p) \/ Fail(p), orderly'
    PROVE  Calm'
  <1>1. CASE RestoreTeam(p) \/ RestoreUser(p) \/ UpdateEnrollment(p)
             \/ BulkUpdateEnrollmentStatus(p)
    <2>1. PICK kind \in {"restore", "override"} : Begin(p, kind)
      BY <1>1 DEF RestoreTeam, RestoreUser, UpdateEnrollment, BulkUpdateEnrollmentStatus
    <2> QED BY <2>1 DEF Begin
  <1>2. CASE \/ CreateTeam(p) \/ UpdateTeam(p) \/ TransferEnrollment(p) \/ DeleteTeam(p)
             \/ DeleteUser(p) \/ Enroll(p) \/ BulkEnroll(p) \/ Withdraw(p)
    BY <1>2, CreateTeamCalm, UpdateTeamCalm, TransferCalm, DeleteTeamCalm, DeleteUserCalm,
       EnrollCalm, BulkEnrollCalm, WithdrawCalm
  <1>3. CASE \/ FindTeamByClass(p) \/ UnassignTeamClass(p) \/ CheckMemberConflicts(p)
             \/ WriteTeamRow(p) \/ StartDelete(p) \/ FinishDelete(p) \/ InsertMembers(p)
    BY <1>3, FindTeamByClassCalm, UnassignTeamClassCalm, CheckMemberConflictsCalm,
       WriteTeamRowCalm, StartDeleteCalm, FinishDeleteCalm, InsertMembersCalm
  <1>4. CASE \/ FindSourceEnrollment(p) \/ CloseSource(p) \/ PullTeamMember(p)
             \/ FindTargetEnrollment(p) \/ CreateActiveEnrollment(p)
             \/ FindLeaver(p) \/ DropEnrollment(p)
    BY <1>4, FindSourceEnrollmentCalm, CloseSourceCalm, PullTeamMemberCalm, FindTargetEnrollmentCalm,
       CreateActiveEnrollmentCalm, FindLeaverCalm, DropEnrollmentCalm
  <1>5. CASE \/ StartDropAll(p) \/ FinishDropAll(p) \/ MarkTeamDeleted(p) \/ SoftDeleteUser(p)
             \/ Commit(p) \/ Fail(p)
    BY <1>5, StartDropAllCalm, FinishDropAllCalm, MarkTeamDeletedCalm, SoftDeleteUserCalm,
       CommitCalm, FailCalm
  <1>6. CASE \/ CountEnrollments(p) \/ NextLearner(p) \/ InsertActiveEnrollment(p)
             \/ MarkDropped(p)
    BY <1>6, CountEnrollmentsCalm, NextLearnerCalm, InsertActiveEnrollmentCalm, MarkDroppedCalm
  <1> QED BY <1>1, <1>2, <1>3, <1>4, <1>5, <1>6 DEF TeamStep, CohortStep

\* Once two requests have overlapped, or one has overridden or restored, nothing
\* says that they took turns again.
LEMMA OrderlyBefore ==
    ASSUME NEW p \in Operators, TeamStep(p) \/ CohortStep(p) \/ Fail(p), orderly'
    PROVE  orderly
  <1>1. (\E kind : Begin(p, kind)) \/ Continue
    <2>1. CASE TeamStep(p)
      BY <2>1 DEF TeamStep, CreateTeam, UpdateTeam, FindTeamByClass, UnassignTeamClass,
         CheckMemberConflicts, TransferEnrollment, WriteTeamRow, StartDelete, FinishDelete,
         InsertMembers, FindSourceEnrollment, CloseSource, PullTeamMember,
         FindTargetEnrollment, CreateActiveEnrollment, FindLeaver, DropEnrollment, DeleteTeam,
         DeleteUser, StartDropAll, FinishDropAll, MarkTeamDeleted, SoftDeleteUser,
         RestoreTeam, RestoreUser, Commit
    <2>2. CASE CohortStep(p)
      BY <2>2 DEF CohortStep, UpdateEnrollment, BulkUpdateEnrollmentStatus, Enroll,
         CountEnrollments, BulkEnroll, NextLearner, InsertActiveEnrollment, Withdraw,
         MarkDropped
    <2>3. CASE Fail(p)
      BY <2>3 DEF Fail
    <2> QED BY <2>1, <2>2, <2>3
  <1> QED BY <1>1 DEF Begin, Continue

LEMMA TurnsStep ==
    ASSUME Inv, Turns, [Next]_vars
    PROVE  Turns'
  <1>1. CASE UNCHANGED vars
    <2>1. UNCHANGED rows /\ UNCHANGED <<op, tx, orderly>>
      BY <1>1 DEF vars
    <2>2. SUFFICES ASSUME Calm
                   PROVE  Calm'
      BY <2>1 DEF Turns
    <2>3. ASSUME NEW p \in Operators, NEW q \in Requests, NEW w \in Writes,
                 op'[p] = q, tx'[p] = w
          PROVE  Knows(q, w)'
      <3>1. Knows(q, w)
        BY <2>1, <2>2, <2>3 DEF Calm
      <3> QED BY <2>1, <3>1, KnowsOn
    <2>4. Agree' /\ OneClass' /\ OneTeam'
      BY <2>1, <2>2, RowsStay DEF Calm
    <2> QED BY <2>1, <2>2, <2>3, <2>4 DEF Calm
  <1>2. CASE Next
    <2>1. SUFFICES ASSUME orderly'
                   PROVE  Calm'
      BY DEF Turns
    <2>2. PICK p \in Operators : TeamStep(p) \/ CohortStep(p) \/ Fail(p)
      BY <1>2 DEF Next
    <2> QED BY <2>1, <2>2, OrderlyBefore, StepCalm DEF Turns
  <1> QED BY <1>1, <1>2

\* Whoever is a member at first has an active enrollment of his own.
LEMMA EachOrdered ==
    ASSUME NEW order \in [1 .. Cardinality(Pairs) -> Pairs],
           \A i, j \in DOMAIN order : order[i] = order[j] => i = j
    PROVE  \A pair \in Pairs : \E i \in DOMAIN order : order[i] = pair
  <1>1. IsFiniteSet(Pairs)
    <2>1. IsFiniteSet(Teams \X Learners)
      BY MembershipAssumption, FS_Product
    <2>2. Pairs \subseteq Teams \X Learners
      BY DEF Pairs
    <2> QED BY <2>1, <2>2, FS_Subset
  <1>2. PICK n, places : n = Cardinality(Pairs) /\ places = 1 .. n
    OBVIOUS
  <1>3. n \in Nat /\ Cardinality(places) = n
    BY <1>1, <1>2, FS_CardinalityType, FS_Interval
  <1>4. order \in Injection(places, Pairs)
    BY <1>2 DEF Injection, IsInjective
  <1>5. order \in Surjection(places, Pairs)
    BY <1>1, <1>2, <1>3, <1>4, FS_Injection
  <1> QED BY <1>2, <1>5 DEF Surjection

LEMMA AgreeAtFirst ==
    ASSUME Init
    PROVE  Agree
  <1>1. PICK order \in [1 .. Cardinality(Pairs) -> Pairs] :
           /\ \A i, j \in DOMAIN order : order[i] = order[j] => i = j
           /\ enr = [i \in DOMAIN order |->
                       [who |-> order[i][2], class |-> team[order[i][1]].class,
                        team |-> order[i][1], status |-> "Active", to |-> None]]
    BY DEF Init
  <1>2. /\ \A i \in DOMAIN order : order[i] \in Pairs
        /\ \A pair \in Pairs : \E i \in DOMAIN order : order[i] = pair
    BY <1>1, EachOrdered
  <1>3. /\ Active = DOMAIN order
        /\ \A i \in DOMAIN order : enr[i].who = order[i][2] /\ enr[i].team = order[i][1]
    BY <1>1 DEF Active
  <1>4. member \in [Teams -> SUBSET Learners] /\ \A t \in Teams \ Live : member[t] = {}
    BY DEF Init
  <1>5. ASSUME NEW t \in Teams
        PROVE  Enrolled(t) = member[t]
    <2>1. ASSUME NEW x \in Enrolled(t)
          PROVE  x \in member[t]
      <3>1. PICK i \in DOMAIN order : order[i][2] = x /\ order[i][1] = t
        BY <1>3 DEF Enrolled, ActiveIn
      <3> QED BY <1>2, <3>1 DEF Pairs
    <2>2. ASSUME NEW x \in member[t]
          PROVE  x \in Enrolled(t)
      <3>1. <<t, x>> \in Pairs
        BY <1>4 DEF Pairs
      <3>2. PICK i \in DOMAIN order : order[i] = <<t, x>>
        BY <1>2, <3>1
      <3>3. enr[i].who = x /\ enr[i].team = t
        BY <1>3, <3>2
      <3> QED BY <1>3, <3>2, <3>3 DEF Enrolled, ActiveIn
    <2> QED BY <2>1, <2>2
  <1>6. \A t \in Teams : team[t].state = "absent" => t \notin Live
    BY DEF Live
  <1> QED BY <1>4, <1>5, <1>6 DEF Agree

LEMMA TurnsAtFirst ==
    ASSUME Init
    PROVE  Turns
  <1>1. Agree
    BY AgreeAtFirst
  <1>2. OneClass /\ OneTeam
    BY DEF Init, OneClass, OneTeam, Live
  <1>3. \A p \in Operators : op[p] = Idle /\ tx[p] = NoWrites
    BY DEF Init
  <1>4. PICK i, w : i = Idle /\ w = NoWrites
    OBVIOUS
  <1>5. Knows(i, w)
    BY <1>4, SimpleKnows
  <1>6. \A p \in Operators, q \in Requests, v \in Writes : op[p] = q /\ tx[p] = v => Knows(q, v)
    BY <1>3, <1>4, <1>5
  <1> QED BY <1>1, <1>2, <1>3, <1>6 DEF Turns, Calm

LEMMA TakingTurns == Spec => []Turns
  <1>1. Init => Turns
    BY TurnsAtFirst
  <1>2. Inv /\ Turns /\ [Next]_vars => Turns'
    BY TurnsStep
  <1> QED BY <1>1, <1>2, Invariant, PTL DEF Spec

\* However long the history of edits, transfers, deletions, direct enrollments and
\* failures, as long as no two requests overlapped and nobody overrode or restored:
\* the members of a live team are the learners actively enrolled in it, although the
\* one table is written by diffs and the other by moves, and a deleted team has none.
THEOREM MembersAgree == Spec => []MembersAreEnrolled
  <1>1. Turns => MembersAreEnrolled
    BY DEF Turns, Calm, Agree, Enrolled, MembersAreEnrolled
  <1> QED BY <1>1, TakingTurns, PTL

\* ... and no learner is in two live teams, as long as none enrolled directly, and no
\* class has two of them: the checks before the transaction and the moves within it
\* are enough when nobody comes between them.
THEOREM OneTeamHolds == Spec => []OneTeamEach
  <1>1. Turns => OneTeamEach
    BY DEF Turns, Calm, OneClass, OneTeam, AllByTeam, OneTeamEach
  <1> QED BY <1>1, TakingTurns, PTL
=============================================================================
