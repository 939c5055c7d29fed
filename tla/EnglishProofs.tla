--------------------------- MODULE EnglishProofs ---------------------------
(***************************************************************************)
(* Proofs about the English operations, for any number of runs, classes,   *)
(* learners, meetings and transactions, and about the import and the repair*)
(* of session times, for any workbooks, slots and classes.                 *)
(***************************************************************************)
EXTENDS EnglishRuns, EnglishArchive, FiniteSetTheorems, SequenceTheorems,
        WellFoundedInduction, TLAPS

-----------------------------------------------------------------------------
(* Numbers and loops.                                                      *)

\* Every non-empty set of numbers has a least element.
LEMMA LeastNumber ==
  ASSUME NEW S \in SUBSET Nat, S # {}
  PROVE  \E n \in S : \A k \in S : n <= k
<1>1. PICK n \in S : \A k \in S : ~ (<<k, n>> \in OpToRel(<, Nat))
  BY NatLessThanWellFounded, WFMin
<1>2. \A k \in S : ~ (k < n)
  BY <1>1 DEF OpToRel
<1> QED
  BY <1>2

\* Induction over the numbers, for sets.
LEMMA AllNumbers ==
  ASSUME NEW A, 0 \in A, \A n \in Nat : n \in A => n + 1 \in A
  PROVE  Nat \subseteq A
<1> SUFFICES ASSUME Nat \ A # {} PROVE FALSE
  OBVIOUS
<1>1. PICK n \in Nat \ A : \A k \in Nat \ A : n <= k
  BY LeastNumber
<1>2. n - 1 \in Nat /\ n - 1 \notin Nat \ A
  BY <1>1
<1> QED
  BY <1>1, <1>2

\* A step of a loop, by its number, that stays in X.
Stays(X, G) == \A n \in Nat, x \in X : G[n][x] \in X

\* A loop that runs n times from a.
Loop(X, a, G, n, f) ==
  /\ f \in [0..n -> X]
  /\ f[0] = a
  /\ \A i \in 0..(n - 1) : f[i + 1] = G[i][f[i]]

\* A loop can run once more.
LEMMA LoopGoesOn ==
  ASSUME NEW X, NEW a \in X, NEW G, Stays(X, G),
         NEW n \in Nat,
         NEW f, Loop(X, a, G, n, f)
  PROVE  \E g : Loop(X, a, G, n + 1, g)
<1> DEFINE y == G[n][f[n]]
           g == [i \in 0..(n + 1) |-> IF i = n + 1 THEN y ELSE f[i]]
<1>1. f \in [0..n -> X] /\ f[0] = a /\ \A i \in 0..(n - 1) : f[i + 1] = G[i][f[i]]
  BY DEF Loop
<1>2. y \in X
  BY <1>1 DEF Stays
<1>3. \A i \in 0..n : g[i] = f[i]
  OBVIOUS
<1>4. g[n + 1] = y /\ n + 1 \in 0..(n+1)
  OBVIOUS
<1> HIDE DEF y
<1>5. g \in [0..(n + 1) -> X] /\ g[0] = a
  BY <1>1, <1>2
<1> HIDE DEF g
<1>6. ASSUME NEW i \in 0..((n + 1) - 1) PROVE g[i + 1] = G[i][g[i]]
  <2>1. CASE i = n
    <3>1. g[n] = f[n]
      BY <1>3
    <3> QED BY <2>1, <1>4, <3>1 DEF y
  <2>2. CASE i # n
    <3>1. i \in 0..(n - 1) /\ i \in 0..n /\ i + 1 \in 0..n
      BY <2>2
    <3>2. f[i + 1] = G[i][f[i]]
      BY <1>1, <3>1
    <3> QED BY <3>1, <3>2, <1>3
  <2> QED BY <2>1, <2>2
<1> QED BY <1>5, <1>6 DEF Loop

\* A longer run begins like a shorter one.
LEMMA LoopsAgree ==
  ASSUME NEW X, NEW a \in X, NEW G, Stays(X, G),
         NEW n \in Nat, NEW f, NEW g, Loop(X, a, G, n, f), Loop(X, a, G, n + 1, g)
  PROVE  f[n] = g[n]
<1> DEFINE A == {i \in Nat : i <= n => f[i] = g[i]}
<1>1. 0 \in A
  BY DEF Loop
<1>2. ASSUME NEW i \in Nat, i \in A PROVE i + 1 \in A
  <2>1. CASE i + 1 <= n
    <3>1. i \in 0..(n - 1) /\ i \in 0..((n + 1) - 1) /\ f[i] = g[i]
      BY <1>2, <2>1
    <3>2. f[i + 1] = G[i][f[i]] /\ g[i + 1] = G[i][g[i]]
      BY <3>1 DEF Loop
    <3> QED BY <3>1, <3>2
  <2>2. CASE ~ (i + 1 <= n)
    BY <2>2
  <2> QED BY <2>1, <2>2
<1> HIDE DEF A
<1>3. Nat \subseteq A
  BY <1>1, <1>2, AllNumbers
<1> QED BY <1>3 DEF A

\* What a loop has come to, by the number of its rounds.
Reaches(X, a, G, f) == f \in [Nat -> X] /\ f[0] = a /\ \A n \in Nat : f[n + 1] = G[n][f[n]]

\* A loop that stays in X can run for ever.
LEMMA LoopExists ==
  ASSUME NEW X, NEW a \in X, NEW G, Stays(X, G)
  PROVE  \E f : Reaches(X, a, G, f)
<1>1. \A n \in Nat : \E f : Loop(X, a, G, n, f)
  <2> DEFINE A == {n \in Nat : \E f : Loop(X, a, G, n, f)}
  <2>1. 0 \in A
    <3> DEFINE f == [i \in 0..0 |-> a]
    <3>1. f \in [0..0 -> X] /\ f[0] = a
      OBVIOUS
    <3>2. \A i \in 0..(0 - 1) : f[i + 1] = G[i][f[i]]
      OBVIOUS
    <3> HIDE DEF f
    <3>3. Loop(X, a, G, 0, f)
      BY <3>1, <3>2 DEF Loop
    <3> QED BY <3>3
  <2>2. ASSUME NEW n \in Nat, n \in A PROVE n + 1 \in A
    <3>1. PICK f : Loop(X, a, G, n, f)
      BY <2>2
    <3>2. \E g : Loop(X, a, G, n + 1, g)
      BY <3>1, LoopGoesOn
    <3> QED BY <3>2
  <2> HIDE DEF A
  <2>3. Nat \subseteq A
    BY <2>1, <2>2, AllNumbers
  <2> QED BY <2>3 DEF A
<1> DEFINE run == [n \in Nat |-> CHOOSE f : Loop(X, a, G, n, f)]
<1>2. \A n \in Nat : Loop(X, a, G, n, run[n])
  BY <1>1
<1> HIDE DEF run
<1> DEFINE h == [n \in Nat |-> run[n][n]]
<1>3. \A n \in Nat : run[n][n] \in X
  <2> SUFFICES ASSUME NEW n \in Nat PROVE run[n][n] \in X
    OBVIOUS
  <2>1. run[n] \in [0..n -> X] /\ n \in 0..n
    BY <1>2 DEF Loop
  <2> QED BY <2>1
<1>4. h \in [Nat -> X]
  BY <1>3
<1>5. h[0] = a
  <2>1. run[0][0] = a
    BY <1>2 DEF Loop
  <2> QED BY <2>1
<1>6. ASSUME NEW n \in Nat PROVE h[n + 1] = G[n][h[n]]
  <2>1. run[n + 1][n + 1] = G[n][run[n + 1][n]]
    <3>1. n + 1 \in Nat /\ n \in 0..((n + 1) - 1)
      OBVIOUS
    <3>2. Loop(X, a, G, n + 1, run[n + 1])
      BY <1>2, <3>1
    <3> QED BY <3>1, <3>2 DEF Loop
  <2>2. run[n][n] = run[n + 1][n]
    <3>1. Loop(X, a, G, n, run[n]) /\ Loop(X, a, G, n + 1, run[n + 1])
      BY <1>2
    <3> QED BY <3>1, LoopsAgree
  <2> QED BY <2>1, <2>2
<1> HIDE DEF h
<1> QED BY <1>4, <1>5, <1>6 DEF Reaches

-----------------------------------------------------------------------------
(* Session numbers.                                                        *)

\* ... and a greatest one: nor can the sets of the larger ones.
LEMMA GreatestExists ==
  ASSUME NEW S \in SUBSET Nat, IsFiniteSet(S), S # {}
  PROVE  \E n \in S : \A k \in S : k <= n
<1> DEFINE Above(m) == {k \in S : m <= k}
           T == {Above(m) : m \in S}
<1>1. T \subseteq FiniteSubsetsOf(S) /\ T # {}
  <2>1. \A m \in S : Above(m) \subseteq S /\ IsFiniteSet(Above(m))
    BY FS_Subset
  <2> QED
    BY <2>1 DEF FiniteSubsetsOf
<1>2. PICK A \in T : \A B \in T : ~ (<<B, A>> \in StrictSubsetOrdering(S))
  <2> HIDE DEF T
  <2> QED
    BY <1>1, FS_StrictSubsetOrderingWellFounded, WFMin
<1>3. PICK n \in S : A = Above(n)
  OBVIOUS
<1>4. \A k \in S : ~ (Above(k) \subseteq Above(n) /\ Above(k) # Above(n))
  <2> SUFFICES ASSUME NEW k \in S PROVE ~ (Above(k) \subseteq Above(n) /\ Above(k) # Above(n))
    OBVIOUS
  <2>1. Above(k) \in T /\ Above(k) \in SUBSET S /\ A \in SUBSET S
    BY <1>3
  <2>2. <<Above(k), A>> \notin StrictSubsetOrdering(S)
    BY <1>2, <2>1
  <2> HIDE DEF Above
  <2> QED
    BY <1>3, <2>1, <2>2 DEF StrictSubsetOrdering
<1>5. ASSUME NEW k \in S, n < k
      PROVE  FALSE
  <2>1. Above(k) \subseteq Above(n)
    <3> SUFFICES ASSUME NEW x \in S, k <= x PROVE n <= x
      OBVIOUS
    <3>1. x \in Nat /\ k \in Nat /\ n \in Nat
      BY <1>3
    <3> QED
      BY <1>5, <3>1
  <2>2. n \in Above(n) /\ n \notin Above(k)
    BY <1>5
  <2> QED
    BY <1>4, <2>1, <2>2
<1> QED
  BY <1>5

\* The numbers of some meetings are numbers, finitely many.
LEMMA NumbersFinite ==
  ASSUME meeting \in [Meetings -> Meeting], NEW r, NEW statuses
  PROVE  Numbers(r, statuses) \in SUBSET Nat /\ IsFiniteSet(Numbers(r, statuses))
<1> DEFINE M == {n \in Meetings : meeting[n].run = r /\ meeting[n].status \in statuses}
           f == [m \in M |-> meeting[m].number]
<1>1. IsFiniteSet(M)
  BY EnglishAssumption, FS_Subset
<1>2. Numbers(r, statuses) = {f[m] : m \in M}
  BY DEF Numbers
<1>3. f \in Surjection(M, Numbers(r, statuses))
  BY <1>2 DEF Surjection
<1>4. IsFiniteSet(Numbers(r, statuses))
  BY <1>1, <1>3, FS_Surjection DEF ExistsSurjection
<1>5. Numbers(r, statuses) \subseteq Nat
  BY DEF Numbers, Meeting
<1> QED
  BY <1>4, <1>5

\* The greatest number, of none at all too.
LEMMA GreatestType ==
  ASSUME NEW S \in SUBSET Nat, IsFiniteSet(S)
  PROVE  Greatest(S) \in Nat
<1>1. IsFiniteSet(S \cup {0}) /\ S \cup {0} \in SUBSET Nat
  BY FS_AddElement
<1>2. \E n \in S \cup {0} : \A k \in S : k <= n
  BY <1>1, GreatestExists
<1> QED
  BY <1>1, <1>2 DEF Greatest

\* The least number, of some.
LEMMA LeastType ==
  ASSUME NEW S \in SUBSET Nat, IsFiniteSet(S), S # {}
  PROVE  Least(S) \in Nat
  BY LeastNumber DEF Least

\* The number the next session gets, and the one a transfer starts at.
LEMMA SessionNumbers ==
  ASSUME meeting \in [Meetings -> Meeting], NEW r
  PROVE  NextSessionNumber(r) \in Nat /\ TransferStartSessionNumber(r) \in Nat
<1>1. /\ Greatest(Numbers(r, {"planned", "completed"})) \in Nat
      /\ Greatest(Numbers(r, {"completed"})) \in Nat
      /\ Numbers(r, {"planned"}) # {} => Least(Numbers(r, {"planned"})) \in Nat
  BY NumbersFinite, GreatestType, LeastType
<1> QED
  BY <1>1 DEF NextSessionNumber, TransferStartSessionNumber

-----------------------------------------------------------------------------
(* Requests and the rows they lock.                                        *)

Tx == [step : {"lock", "write"}, req : Request, want : Seq(Lockable), seen : BOOLEAN]

\* What the fields of a request are: those of the learners' operations ...
LEMMA LearnerFields ==
  ASSUME NEW q \in Request
  PROVE  /\ q.kind \in {"join", "leave", "transfer", "create", "move", "cancel", "save", "exam"}
         /\ q.kind \in {"join", "leave", "transfer", "exam"} => q.run \in Runs /\ q.emp \in Employees
         /\ q.kind \in {"join", "leave", "transfer"} => q.date \in Time
         /\ q.kind \in {"join", "transfer"} => q.number \in Nat
         /\ q.kind = "transfer" => q.from \in Runs /\ q.reason \in BOOLEAN
<1>1. CASE q \in SaveRequest
  BY <1>1 DEF SaveRequest
<1>2. CASE q \notin SaveRequest
  BY <1>2 DEF Request
<1> QED
  BY <1>1, <1>2

\* ... and those of the meetings'.
LEMMA MeetingFields ==
  ASSUME NEW q \in Request
  PROVE  /\ q.kind = "create" => q.run \in Runs /\ q.at \in Time /\ q.number \in Nat
         /\ q.kind \in {"move", "cancel", "save"} => q.meeting \in Meetings
         /\ q.kind = "move" => q.at \in Time
         /\ q.kind = "save" => q \in SaveRequest
<1>1. CASE q \in SaveRequest
  <2>1. PICK R \in SUBSET Employees :
          q \in [kind : {"save"}, meeting : Meetings,
                 token : [status : {"planned", "completed"}, at : Time, rows : [R -> Marks]],
                 marks : [R -> {"present", "absent"}]]
    BY <1>1 DEF SaveRequest
  <2> QED
    BY <1>1, <2>1
<1>2. CASE q \notin SaveRequest
  BY <1>2 DEF Request
<1> QED
  BY <1>1, <1>2

\* The marks of a roster are for the learners that its token lists.
LEMMA SaveFields ==
  ASSUME NEW q \in Request, q.kind = "save"
  PROVE  /\ DOMAIN q.token.rows = DOMAIN q.marks /\ DOMAIN q.marks \subseteq Employees
         /\ \A e \in DOMAIN q.marks : q.marks[e] \in {"present", "absent"}
<1>1. PICK R \in SUBSET Employees :
        q \in [kind : {"save"}, meeting : Meetings,
               token : [status : {"planned", "completed"}, at : Time, rows : [R -> Marks]],
               marks : [R -> {"present", "absent"}]]
  BY MeetingFields DEF SaveRequest
<1>2. q.token \in [status : {"planned", "completed"}, at : Time, rows : [R -> Marks]]
      /\ q.marks \in [R -> {"present", "absent"}]
  BY <1>1
<1>3. q.token.rows \in [R -> Marks]
  BY <1>2
<1> QED
  BY <1>2, <1>3

\* The classes, enrollments, meetings and units are rows, and starts have their
\* entries.
LEMMA Lockables ==
  /\ \A r \in Runs : CohortOf[r] \in Cohorts /\ CohortOf[r] \in Lockable
  /\ \A r \in Runs, e \in Employees : <<r, e>> \in Lockable
  /\ \A m \in Meetings : m \in Lockable /\ UnitRow(m) \in UnitRows /\ UnitRow(m) \in Lockable
  /\ \A r \in Runs \cup {None}, t \in Time : SlotRow(r, t) \in SlotRows /\ SlotRow(r, t) \in Lockable
<1>1. \A m \in Meetings : UnitRow(m) \in UnitRows
  BY DEF UnitRows
<1>2. \A r \in Runs \cup {None}, t \in Time : SlotRow(r, t) \in SlotRows
  BY DEF SlotRows
<1> QED
  BY <1>1, <1>2, EnglishAssumption DEF Lockable

\* The kinds of rows have nothing in common.
LEMMA RowKinds ==
  /\ Cohorts \cap Meetings = {} /\ Cohorts \cap UnitRows = {} /\ Cohorts \cap SlotRows = {}
  /\ Cohorts \cap (Runs \X Employees) = {}
  /\ Meetings \cap UnitRows = {} /\ Meetings \cap SlotRows = {} /\ Meetings \cap (Runs \X Employees) = {}
  /\ UnitRows \cap SlotRows = {}
  /\ UnitRows \cap (Runs \X Employees) = {} /\ SlotRows \cap (Runs \X Employees) = {}
  /\ \A m, n \in Meetings : UnitRow(m) = UnitRow(n) => m = n
  /\ \A r, t, o, u : SlotRow(r, t) = SlotRow(o, u) => r = o
<1>1. /\ "unit" \notin Runs /\ "slot" \notin Runs
      /\ (Cohorts \cup Meetings) \cap (UnitRows \cup SlotRows \cup (Runs \X Employees)) = {}
      /\ Cohorts \cap Meetings = {}
  BY EnglishAssumption
<1>2. /\ \A x \in UnitRows : x[1] = "unit"
      /\ \A x \in SlotRows : x[1] = "slot"
      /\ \A x \in Runs \X Employees : x[1] \in Runs
  BY DEF UnitRows, SlotRows, UnitRow, SlotRow
<1>3. UnitRows \cap SlotRows = {} /\ UnitRows \cap (Runs \X Employees) = {}
      /\ SlotRows \cap (Runs \X Employees) = {}
  BY <1>1, <1>2
<1>4. \A m, n \in Meetings : UnitRow(m) = UnitRow(n) => m = n
  BY DEF UnitRow
<1>5. \A r, t, o, u : SlotRow(r, t) = SlotRow(o, u) => r = o
  BY DEF SlotRow
<1> QED
  BY <1>1, <1>3, <1>4, <1>5

\* The two entries of a start.
LEMMA EntriesAre ==
  ASSUME NEW r \in Runs, NEW t \in Time
  PROVE  /\ Entries(r, t) \in Seq(Lockable) /\ Len(Entries(r, t)) = 2
         /\ Entries(r, t)[1] = SlotRow(r, t) /\ Entries(r, t)[2] = SlotRow(None, t)
         /\ Head(Entries(r, t)) = SlotRow(r, t) /\ Tail(Entries(r, t)) = <<SlotRow(None, t)>>
         /\ <<SlotRow(None, t)>> \in Seq(Lockable)
<1>1. SlotRow(r, t) \in Lockable /\ SlotRow(None, t) \in Lockable
  BY Lockables
<1>2. PICK x \in Lockable, y \in Lockable : x = SlotRow(r, t) /\ y = SlotRow(None, t)
  BY <1>1
<1>3. /\ <<x, y>> \in Seq(Lockable) /\ Len(<<x, y>>) = 2 /\ <<x, y>>[1] = x /\ <<x, y>>[2] = y
      /\ Head(<<x, y>>) = x /\ Tail(<<x, y>>) = <<y>> /\ <<y>> \in Seq(Lockable)
  OBVIOUS
<1> QED
  BY <1>2, <1>3 DEF Entries

\* Sequences of two and of three rows, element by element.
LEMMA RowByRow ==
  ASSUME NEW x \in Lockable, NEW y \in Lockable, NEW z \in Lockable
  PROVE  /\ <<x>> \o <<y>> \in Seq(Lockable) /\ Len(<<x>> \o <<y>>) = 2
         /\ (<<x>> \o <<y>>)[1] = x /\ (<<x>> \o <<y>>)[2] = y
         /\ <<x>> \o <<y>> \o <<z>> \in Seq(Lockable)
         /\ Len(<<x>> \o <<y>> \o <<z>>) = 3
         /\ (<<x>> \o <<y>> \o <<z>>)[1] = x /\ (<<x>> \o <<y>> \o <<z>>)[2] = y
         /\ (<<x>> \o <<y>> \o <<z>>)[3] = z
         /\ <<x>> \o <<y, z>> \in Seq(Lockable) /\ Len(<<x>> \o <<y, z>>) = 3
         /\ (<<x>> \o <<y, z>>)[1] = x /\ (<<x>> \o <<y, z>>)[2] = y
         /\ (<<x>> \o <<y, z>>)[3] = z
<1> DEFINE s == <<x>> \o <<y>>
           r == <<x>>
           t == <<z>>
           u == <<y, z>>
<1>1. /\ <<x>> \in Seq(Lockable) /\ <<y>> \in Seq(Lockable) /\ t \in Seq(Lockable)
      /\ Len(<<x>>) = 1 /\ Len(<<y>>) = 1 /\ Len(t) = 1 /\ t[1] = z
      /\ r \in Seq(Lockable) /\ Len(r) = 1 /\ r[1] = x
      /\ u \in Seq(Lockable) /\ Len(u) = 2 /\ u[1] = y /\ u[2] = z
  OBVIOUS
<1>2. s \in Seq(Lockable) /\ Len(s) = 2 /\ s[1] = x /\ s[2] = y
  BY <1>1, ConcatProperties
<1> HIDE DEF r, s, t, u
<1>3. s \o t \in Seq(Lockable) /\ Len(s \o t) = 3
      /\ (s \o t)[1] = x /\ (s \o t)[2] = y /\ (s \o t)[3] = z
  <2>1. s \o t \in Seq(Lockable) /\ Len(s \o t) = Len(s) + Len(t)
        /\ \A i \in 1 .. Len(s) + Len(t) : (s \o t)[i] = IF i <= Len(s) THEN s[i] ELSE t[i - Len(s)]
    BY <1>1, <1>2, ConcatProperties
  <2>2. 1 \in 1 .. 3 /\ 2 \in 1 .. 3 /\ 3 \in 1 .. 3
    OBVIOUS
  <2> QED
    BY <1>1, <1>2, <2>1, <2>2
<1>4. r \o u \in Seq(Lockable) /\ Len(r \o u) = 3
      /\ (r \o u)[1] = x /\ (r \o u)[2] = y /\ (r \o u)[3] = z
  <2>1. r \o u \in Seq(Lockable) /\ Len(r \o u) = Len(r) + Len(u)
        /\ \A i \in 1 .. Len(r) + Len(u) : (r \o u)[i] = IF i <= Len(r) THEN r[i] ELSE u[i - Len(r)]
    BY <1>1, ConcatProperties
  <2>2. 1 \in 1 .. 3 /\ 2 \in 1 .. 3 /\ 3 \in 1 .. 3
    OBVIOUS
  <2> QED
    BY <1>1, <2>1, <2>2
<1> QED
  BY <1>2, <1>3, <1>4 DEF r, s, t, u

\* The rows of a request, one after the other.
Takes(q, n, x) == Rows(q) \in Seq(Lockable) /\ Len(Rows(q)) = n /\ Rows(q)[1] = x

\* Which they are: those of the learners' operations ...
LEMMA LearnerRows ==
  ASSUME NEW q \in Request
  PROVE  /\ q.kind \in {"join", "create"} => Takes(q, 1, CohortOf[q.run])
         /\ q.kind = "leave" =>
              Takes(q, 2, CohortOf[q.run]) /\ Rows(q)[2] = <<q.run, q.emp>>
         /\ q.kind = "transfer" =>
              /\ Takes(q, 3, CohortOf[q.run])
              /\ Rows(q)[2] = CohortOf[q.from] /\ Rows(q)[3] = <<q.from, q.emp>>
         /\ q.kind = "exam" => Takes(q, 1, <<q.run, q.emp>>)
<1>1. CASE q.kind \in {"join", "create"}
  <2>1. Rows(q) = <<CohortOf[q.run]>> /\ CohortOf[q.run] \in Lockable
    BY <1>1, LearnerFields, MeetingFields, Lockables DEF Rows, RunRows
  <2> QED
    BY <1>1, <2>1 DEF Takes
<1>2. CASE q.kind = "leave"
  <2>1. Rows(q) = <<CohortOf[q.run]>> \o <<<<q.run, q.emp>>>>
    BY <1>2 DEF Rows, RunRows
  <2>2. CohortOf[q.run] \in Lockable /\ <<q.run, q.emp>> \in Lockable
    BY <1>2, LearnerFields, Lockables
  <2> QED
    BY <1>2, <2>1, <2>2, RowByRow DEF Takes
<1>3. CASE q.kind = "transfer"
  <2>1. Rows(q) = <<CohortOf[q.run]>> \o <<CohortOf[q.from]>> \o <<<<q.from, q.emp>>>>
    BY <1>3 DEF Rows, RunRows
  <2>2. CohortOf[q.run] \in Lockable /\ CohortOf[q.from] \in Lockable /\ <<q.from, q.emp>> \in Lockable
    BY <1>3, LearnerFields, Lockables
  <2> QED
    BY <1>3, <2>1, <2>2, RowByRow DEF Takes
<1>4. CASE q.kind = "exam"
  <2>1. Rows(q) = <<<<q.run, q.emp>>>> /\ <<q.run, q.emp>> \in Lockable
    BY <1>4, LearnerFields, Lockables DEF Rows
  <2> QED
    BY <1>4, <2>1 DEF Takes
<1> QED
  BY <1>1, <1>2, <1>3, <1>4

\* ... and those of the meetings', in the two orders of meeting and unit.
LEMMA MeetingRows ==
  ASSUME NEW q \in Request, q.kind = "save" => meeting[q.meeting].run \in Runs
  PROVE  /\ q.kind \in {"move", "cancel"} =>
              Takes(q, 2, q.meeting) /\ Rows(q)[2] = UnitRow(q.meeting)
         /\ q.kind = "save" =>
              /\ Takes(q, 3, CohortOf[meeting[q.meeting].run])
              /\ Rows(q)[2] = UnitRow(q.meeting) /\ Rows(q)[3] = q.meeting
<1>1. CASE q.kind \in {"move", "cancel"}
  <2>1. Rows(q) = <<q.meeting, UnitRow(q.meeting)>>
    BY <1>1 DEF Rows
  <2>2. q.meeting \in Lockable /\ UnitRow(q.meeting) \in Lockable
    BY <1>1, MeetingFields, Lockables
  <2> QED
    BY <1>1, <2>1, <2>2 DEF Takes
<1>2. CASE q.kind = "save"
  <2>1. Rows(q) = <<CohortOf[meeting[q.meeting].run]>> \o <<UnitRow(q.meeting), q.meeting>>
    BY <1>2 DEF Rows, RunRows
  <2>2. /\ CohortOf[meeting[q.meeting].run] \in Lockable
        /\ q.meeting \in Lockable /\ UnitRow(q.meeting) \in Lockable
    BY <1>2, MeetingFields, Lockables
  <2> QED
    BY <1>2, <2>1, <2>2, RowByRow DEF Takes
<1> QED
  BY <1>1, <1>2

\* There is one at least, and no more than three.
LEMMA SomeRows ==
  ASSUME NEW q \in Request, q.kind = "save" => meeting[q.meeting].run \in Runs
  PROVE  /\ Rows(q) \in Seq(Lockable) /\ Len(Rows(q)) > 0
         /\ \E n \in {1, 2, 3} : Len(Rows(q)) = n
<1>1. Rows(q) \in Seq(Lockable) /\ \E n \in {1, 2, 3} : Len(Rows(q)) = n
  BY LearnerFields, LearnerRows, MeetingRows DEF Takes
<1> QED
  BY <1>1

-----------------------------------------------------------------------------
(* Types.                                                                  *)

Learning ==
    /\ enr \in [Runs -> [Employees -> Enrollment]]
    /\ member \in [Cohorts -> [Employees -> Seq(Membership)]]
    /\ override \in [Cohorts -> SUBSET Nat]

Teaching ==
    /\ meeting \in [Meetings -> Meeting]
    /\ att \in [Meetings -> [Employees -> Marks]]
    /\ exam \in [Runs -> [Employees -> BOOLEAN]]
    /\ \A m \in Meetings : meeting[m].status # "free" => meeting[m].run \in Runs

Clock == now \in Time /\ begun \in 0 .. MaxRequests

\* A request about a meeting has found it.
Loaded(q) == q.kind \in {"move", "cancel", "save"} => meeting[q.meeting].status # "free"

Transacting ==
    /\ owner \in [Lockable -> Operators \cup {None}]
    /\ op \in [Operators -> {Idle} \cup Tx]
    /\ \A p \in Operators : op[p] # Idle => Loaded(op[p].req)

Typed == Clock /\ Learning /\ Teaching /\ Transacting

\* It includes the type invariant.
LEMMA TypedOK == Typed => TypeOK
<1>1. Typed => op \in [Operators -> Transaction]
  BY DEF Typed, Transacting, Transaction, Tx
<1> QED
  BY <1>1 DEF Typed, Clock, Learning, Teaching, Transacting, TypeOK

\* A transaction that locks or writes is one.
LEMMA InTx ==
  ASSUME Transacting, NEW p \in Operators, op[p] # Idle \/ op[p].step \in {"lock", "write"}
  PROVE  /\ op[p] \in Tx /\ op[p] # Idle /\ op[p].req \in Request /\ Loaded(op[p].req)
         /\ op[p].want \in Seq(Lockable)
<1>1. op[p] # Idle
  BY DEF Idle
<1>2. op[p] \in Tx
  BY <1>1 DEF Transacting
<1> QED
  BY <1>1, <1>2 DEF Tx, Transacting

\* What a screen offers is a request that fits the tables.
LEMMA OfferedRequest ==
  ASSUME Clock, Teaching, NEW k \in Kinds, NEW q \in Offered(k)
  PROVE  q \in Request /\ Loaded(q)
<1>0. /\ Dates \subseteq Time /\ PastDates \subseteq Time /\ Future \subseteq Time /\ OpenRuns \subseteq Runs
      /\ \A r : NextSessionNumber(r) \in Nat /\ TransferStartSessionNumber(r) \in Nat
      /\ \A r : ActiveIn(r) \subseteq Employees
      /\ \A st : In(st) = {m \in Meetings : meeting[m].status \in st}
      /\ k \in {"join", "leave", "transfer", "create", "move", "cancel", "save", "exam"}
  BY EnglishAssumption, SessionNumbers DEF Dates, PastDates, Future, ActiveIn, In, Teaching
<1>1. CASE k = "join"
  <2>1. PICK r \in OpenRuns, e \in Employees, d \in Dates :
          q = [kind |-> "join", run |-> r, emp |-> e, date |-> d, number |-> NextSessionNumber(r)]
    BY <1>1 DEF Offered
  <2> QED
    BY <1>0, <2>1 DEF Request, Loaded
<1>2. CASE k = "leave"
  <2>1. PICK r \in Runs : q \in [kind : {"leave"}, run : {r}, emp : ActiveIn(r), date : PastDates]
    BY <1>2 DEF Offered
  <2>2. q \in [kind : {"leave"}, run : Runs, emp : Employees, date : Time]
    BY <1>0, <2>1
  <2> QED
    BY <2>2 DEF Request, Loaded
<1>3. CASE k = "transfer"
  <2>1. PICK r \in OpenRuns : \E s \in Runs \ {r} :
          q \in [kind : {"transfer"}, run : {r}, from : {s}, emp : ActiveIn(s), date : Dates,
                 number : {TransferStartSessionNumber(r)}, reason : BOOLEAN]
    BY <1>3 DEF Offered
  <2>2. q \in [kind : {"transfer"}, run : Runs, from : Runs, emp : Employees,
               date : Time, number : Nat, reason : BOOLEAN]
    BY <1>0, <2>1
  <2> QED
    BY <2>2 DEF Request, Loaded
<1>4. CASE k = "create"
  <2>1. PICK r \in OpenRuns, t \in Future :
          q = [kind |-> "create", run |-> r, at |-> t, number |-> NextSessionNumber(r)]
    BY <1>4 DEF Offered
  <2> QED
    BY <1>0, <2>1 DEF Request, Loaded
<1>5. CASE k = "move"
  <2>1. q \in [kind : {"move"}, meeting : In({"planned"}), at : Future]
    BY <1>5 DEF Offered
  <2> QED
    BY <1>0, <2>1 DEF Request, Loaded
<1>6. CASE k = "cancel"
  <2>1. q \in [kind : {"cancel"}, meeting : In({"planned"})]
    BY <1>6 DEF Offered
  <2> QED
    BY <1>0, <2>1 DEF Request, Loaded
<1>7. CASE k = "save"
  <2>1. PICK m \in {n \in In({"planned", "completed"}) : meeting[n].at <= now} :
          q \in [kind : {"save"}, meeting : {m}, token : {RosterToken(m)},
                 marks : [Roster(m) -> {"present", "absent"}]]
    BY <1>7 DEF Offered
  <2>2. m \in Meetings /\ meeting[m].status \in {"planned", "completed"}
    BY <1>0
  <2>3. Roster(m) \subseteq Employees /\ meeting[m].at \in Time
    BY <2>2 DEF Roster, Teaching, Meeting
  <2>4. [e \in Roster(m) |-> att[m][e]] \in [Roster(m) -> Marks]
    BY <2>2, <2>3 DEF Teaching
  <2>5. RosterToken(m) \in [status : {"planned", "completed"}, at : Time, rows : [Roster(m) -> Marks]]
    BY <2>2, <2>3, <2>4 DEF RosterToken
  <2>6. q \in SaveRequest
    BY <2>1, <2>2, <2>3, <2>5 DEF SaveRequest
  <2>7. q.kind = "save" /\ q.meeting = m
    BY <2>1
  <2> QED
    BY <2>2, <2>6, <2>7 DEF Request, Loaded
<1>8. CASE k = "exam"
  <2>1. PICK r \in Runs : q \in [kind : {"exam"}, run : {r}, emp : ActiveIn(r)]
    BY <1>8 DEF Offered
  <2>2. q \in [kind : {"exam"}, run : Runs, emp : Employees]
    BY <1>0, <2>1
  <2> QED
    BY <2>2 DEF Request, Loaded
<1> QED
  BY <1>0, <1>1, <1>2, <1>3, <1>4, <1>5, <1>6, <1>7, <1>8

\* A meeting that is used stays used.
Kept == \A m \in Meetings : meeting[m].status # "free" => meeting'[m].status # "free"

StillLoaded(q) == q.kind \in {"move", "cancel", "save"} => meeting'[q.meeting].status # "free"

\* What a request found stays found.
LEMMA StaysLoaded ==
  ASSUME Kept, NEW q \in Request, Loaded(q)
  PROVE  StillLoaded(q)
  BY MeetingFields DEF Kept, Loaded, StillLoaded

\* A transaction ends.
LEMMA ReleaseTyped ==
  ASSUME Transacting, Kept, NEW p \in Operators, Release(p)
  PROVE  Transacting'
<1>1. owner' \in [Lockable -> Operators \cup {None}]
  BY DEF Release, Transacting
<1>2. op' \in [Operators -> {Idle} \cup Tx]
  BY DEF Release, Transacting
<1>3. \A o \in Operators : op'[o] # Idle => op'[o] = op[o]
  BY DEF Release, Transacting
<1>4. \A o \in Operators : op'[o] # Idle => StillLoaded(op'[o].req)
  BY <1>3, InTx, StaysLoaded
<1> QED
  BY <1>1, <1>2, <1>4 DEF Transacting, Loaded, StillLoaded

\* A step of nobody's.
LEMMA TransactingStays ==
  ASSUME Transacting, UNCHANGED <<owner, op, meeting>>
  PROVE  Transacting'
<1>1. owner' \in [Lockable -> Operators \cup {None}] /\ op' \in [Operators -> {Idle} \cup Tx]
  BY DEF Transacting
<1>2. \A o \in Operators : op'[o] # Idle => StillLoaded(op'[o].req)
  BY DEF Transacting, Loaded, StillLoaded
<1> QED
  BY <1>1, <1>2 DEF Transacting, Loaded, StillLoaded

\* A transaction goes on with the same request.
LEMMA StepTyped ==
  ASSUME Transacting, Kept, NEW p \in Operators, NEW t \in Tx,
         op' = [op EXCEPT ![p] = t], StillLoaded(t.req),
         owner' \in [Lockable -> Operators \cup {None}]
  PROVE  Transacting'
<1>1. op' \in [Operators -> {Idle} \cup Tx]
  BY DEF Transacting
<1>2. \A o \in Operators : op'[o] # Idle => op'[o] = IF o = p THEN t ELSE op[o]
  BY DEF Transacting
<1>3. \A o \in Operators : op'[o] # Idle => StillLoaded(op'[o].req)
  BY <1>2, InTx, StaysLoaded
<1> QED
  BY <1>1, <1>3 DEF Transacting, Loaded, StillLoaded

\* What a transaction waits for once it has checked is rows: a learner's active
\* enrollment, or the start of a new meeting ...
LEMMA AwaitsAre ==
  ASSUME NEW q \in Request, q.kind \in {"join", "create", "transfer"}, NEW w \in Awaits(q)
  PROVE  /\ w \in Seq(Lockable)
         /\ q.kind = "transfer" => w = <<>>
         /\ q.kind = "join" => w = <<>> \/ \E r \in Runs : w = <<<<r, q.emp>>>>
         /\ q.kind = "create" => w = Entries(q.run, q.at)
<1>1. CASE q.kind = "join"
  <2>1. w = <<>> \/ \E r \in Runs : w = <<<<r, q.emp>>>>
    BY <1>1 DEF Awaits
  <2>2. w \in Seq(Lockable)
    <3>1. <<>> \in Seq(Lockable)
      OBVIOUS
    <3>2. ASSUME NEW r \in Runs PROVE <<<<r, q.emp>>>> \in Seq(Lockable)
      <4>1. <<r, q.emp>> \in Lockable
        BY <1>1, LearnerFields, Lockables
      <4> QED
        BY <4>1
    <3> QED
      BY <2>1, <3>1, <3>2
  <2> QED
    BY <1>1, <2>1, <2>2
<1>2. CASE q.kind = "create"
  <2>1. w = Entries(q.run, q.at)
    BY <1>2 DEF Awaits
  <2> QED
    BY <1>2, <2>1, MeetingFields, EntriesAre
<1>3. CASE q.kind = "transfer"
  BY <1>3 DEF Awaits
<1> QED
  BY <1>1, <1>2, <1>3

\* ... the new start of a meeting that moves ...
LEMMA DepartingAwaits ==
  ASSUME Typed, NEW p \in Operators, LeaveSlot(p),
         NEW row, row = meeting[op[p].req.meeting]
  PROVE  /\ op[p].req \in Request /\ op[p].req.kind = "move" /\ op[p].req.meeting \in Meetings
         /\ op[p].req.at \in Time /\ row.run \in Runs /\ row.at \in Time
         /\ Entries(row.run, op[p].req.at) \in Seq(Lockable)
         /\ op' = [op EXCEPT ![p].step = "write", ![p].want = Entries(row.run, op[p].req.at)]
<1>1. op[p] \in Tx /\ op[p].req \in Request /\ op[p].req.kind = "move" /\ Loaded(op[p].req)
  BY InTx DEF LeaveSlot, Locked, Typed
<1>2. op[p].req.meeting \in Meetings /\ op[p].req.at \in Time
  BY <1>1, MeetingFields
<1>3. row.status # "free"
  BY <1>1 DEF Loaded
<1>4. row.run \in Runs /\ row.at \in Time
  BY <1>2, <1>3 DEF Typed, Teaching, Meeting
<1> QED
  BY <1>1, <1>2, <1>4, EntriesAre DEF LeaveSlot

\* ... and the enrollments of a roster.
LEMMA RosterRowsAre ==
  ASSUME Teaching, NEW m \in Meetings, meeting[m].status # "free", NEW w \in RosterRows(m)
  PROVE  /\ w \in Seq(Lockable)
         /\ \A i \in DOMAIN w : w[i] \in {meeting[m].run} \X Employees
<1> DEFINE rows == {meeting[m].run} \X Roster(m)
<1>1. rows \subseteq Lockable /\ rows \subseteq {meeting[m].run} \X Employees
  BY Lockables DEF Teaching, Roster
<1>2. IsFiniteSet(rows)
  <2>1. IsFiniteSet(Roster(m))
    BY EnglishAssumption, FS_Subset DEF Roster
  <2> QED
    BY <2>1, FS_Singleton, FS_Product
<1>3. Cardinality(rows) \in Nat
  BY <1>2, FS_CardinalityType
<1>4. w \in [1 .. Cardinality(rows) -> rows]
  BY DEF RosterRows
<1> HIDE DEF rows
<1> QED
  BY <1>1, <1>3, <1>4

\* A transaction begins or locks a row.
LEMMA LockingTyped ==
  ASSUME Typed, NEW p \in Operators, Begin(p) \/ Lock(p) \/ Confirm(p) \/ LeaveSlot(p) \/ LockRoster(p)
  PROVE  Typed'
<1>0. /\ Clock /\ Learning /\ Teaching /\ Transacting
      /\ UNCHANGED <<now, enr, member, override, meeting, att, exam>>
      /\ owner \in [Lockable -> Operators \cup {None}]
  BY DEF Typed, Transacting, Begin, Lock, Confirm, LeaveSlot, LockRoster, tables
<1>1. Kept /\ Learning' /\ Teaching'
  BY <1>0 DEF Kept, Learning, Teaching
<1>2. begun' \in 0 .. MaxRequests => Clock'
  BY <1>0 DEF Clock
<1>3. \A q \in Request : Loaded(q) => StillLoaded(q)
  BY <1>1, StaysLoaded
<1>4. CASE Begin(p)
  <2>0. PICK k \in Kinds : \E q \in Offered(k) :
          /\ op' = [op EXCEPT ![p] =
                 [step |-> "lock", req |-> q, seen |-> Counts(q),
                  want |-> IF owner[Head(Rows(q))] = None THEN Tail(Rows(q)) ELSE Rows(q)]]
          /\ owner' = IF owner[Head(Rows(q))] = None THEN [owner EXCEPT ![Head(Rows(q))] = p]
                      ELSE owner
    BY <1>4 DEF Begin
  <2>1. PICK q \in Offered(k) :
          /\ op' = [op EXCEPT ![p] =
                 [step |-> "lock", req |-> q, seen |-> Counts(q),
                  want |-> IF owner[Head(Rows(q))] = None THEN Tail(Rows(q)) ELSE Rows(q)]]
          /\ owner' = IF owner[Head(Rows(q))] = None THEN [owner EXCEPT ![Head(Rows(q))] = p]
                      ELSE owner
    BY <2>0
  <2>2. q \in Request /\ Loaded(q)
    BY <1>0, OfferedRequest
  <2>3. Rows(q) \in Seq(Lockable) /\ Len(Rows(q)) > 0
    <3>1. q.kind = "save" => meeting[q.meeting].run \in Runs
      BY <1>0, <2>2, MeetingFields DEF Loaded, Teaching
    <3> QED
      BY <2>2, <3>1, SomeRows
  <2>4. Counts(q) \in BOOLEAN
    BY <2>2, LearnerFields DEF Counts, Eligible
  <2> DEFINE t == [step |-> "lock", req |-> q, seen |-> Counts(q),
                   want |-> IF owner[Head(Rows(q))] = None THEN Tail(Rows(q)) ELSE Rows(q)]
  <2>5. Tail(Rows(q)) \in Seq(Lockable)
    BY <2>3
  <2>6. t \in Tx /\ t.req = q
    BY <2>2, <2>3, <2>4, <2>5 DEF Tx
  <2>7. op' = [op EXCEPT ![p] = t]
    BY <2>1
  <2>8. owner' \in [Lockable -> Operators \cup {None}]
    BY <1>0, <2>1
  <2>9. begun' \in 0 .. MaxRequests
    BY <1>0, <1>4, EnglishAssumption DEF Clock, Begin
  <2> HIDE DEF t
  <2>10. Transacting'
    BY <1>0, <1>1, <1>3, <2>2, <2>6, <2>7, <2>8, StepTyped
  <2> QED
    BY <1>1, <1>2, <2>9, <2>10 DEF Typed
<1>5. CASE Lock(p)
  <2>1. op[p] \in Tx /\ op[p].req \in Request /\ Loaded(op[p].req)
        /\ op[p].want \in Seq(Lockable) /\ op[p].want # <<>>
    BY <1>0, <1>5, InTx DEF Lock, Waiting
  <2> DEFINE t == [op[p] EXCEPT !.want = Tail(@)]
  <2>2. t \in Tx /\ t.req = op[p].req
    <3>1. Tail(op[p].want) \in Seq(Lockable)
      BY <2>1
    <3> QED
      BY <2>1, <3>1 DEF Tx
  <2>3. op' = [op EXCEPT ![p] = t] /\ begun' = begun
    BY <1>5 DEF Lock
  <2>4. owner' \in [Lockable -> Operators \cup {None}]
    BY <1>0, <1>5 DEF Lock
  <2> HIDE DEF t
  <2>5. Transacting'
    BY <1>0, <1>1, <1>3, <2>1, <2>2, <2>3, <2>4, StepTyped
  <2> QED
    BY <1>0, <1>1, <1>2, <2>3, <2>5 DEF Typed, Clock
<1>6. CASE Confirm(p) \/ LeaveSlot(p) \/ LockRoster(p)
  <2>1. op[p] \in Tx /\ op[p].req \in Request /\ Loaded(op[p].req)
    BY <1>0, <1>6, InTx DEF Confirm, LeaveSlot, LockRoster, Locked
  <2>2. PICK w \in Seq(Lockable) : op' = [op EXCEPT ![p].step = "write", ![p].want = w]
    <3>1. CASE Confirm(p)
      <4>1. PICK w \in Awaits(op[p].req) : op' = [op EXCEPT ![p].step = "write", ![p].want = w]
        BY <3>1 DEF Confirm
      <4>2. op[p].req.kind \in {"join", "create", "transfer"}
        BY <3>1 DEF Confirm
      <4>3. w \in Seq(Lockable)
        BY <2>1, <4>1, <4>2, AwaitsAre
      <4> QED
        BY <4>1, <4>3
    <3>2. CASE LeaveSlot(p)
      BY <1>0, <3>2, DepartingAwaits
    <3>3. CASE LockRoster(p)
      <4>1. PICK w \in RosterRows(op[p].req.meeting) :
              op' = [op EXCEPT ![p].step = "write", ![p].want = w]
        BY <3>3 DEF LockRoster
      <4>2. op[p].req.meeting \in Meetings /\ meeting[op[p].req.meeting].status # "free"
        BY <2>1, <3>3, MeetingFields DEF LockRoster, Loaded
      <4>3. w \in Seq(Lockable)
        BY <1>0, <4>1, <4>2, RosterRowsAre
      <4> QED
        BY <4>1, <4>3
    <3> QED
      BY <1>6, <3>1, <3>2, <3>3
  <2> DEFINE t == [op[p] EXCEPT !.step = "write", !.want = w]
  <2>3. t \in Tx /\ t.req = op[p].req
    BY <2>1 DEF Tx
  <2>4. op' = [op EXCEPT ![p] = t] /\ begun' = begun
    BY <1>0, <1>6, <2>2 DEF Confirm, LeaveSlot, LockRoster, Transacting
  <2>5. owner' \in [Lockable -> Operators \cup {None}]
    BY <1>0, <1>6 DEF Confirm, LeaveSlot, LockRoster
  <2> HIDE DEF t
  <2>6. Transacting'
    BY <1>0, <1>1, <1>3, <2>1, <2>3, <2>4, <2>5, StepTyped
  <2> QED
    BY <1>0, <1>1, <1>2, <2>4, <2>6 DEF Typed, Clock
<1> QED
  BY <1>4, <1>5, <1>6

-----------------------------------------------------------------------------
(* What the operations on learners do.                                     *)

\* Membership rows with one of them ended.
Closing(rows, i, status, date) == [rows EXCEPT ![i] = Ended(@, status, date)]

\* A row that is ended keeps its place, and the others stay as they are.
LEMMA ClosingRow ==
  ASSUME NEW rows \in Seq(Membership), NEW i \in DOMAIN rows,
         NEW status \in {"cancelled", "transferred"}, NEW date \in Time
  PROVE  /\ Closing(rows, i, status, date) \in Seq(Membership)
         /\ DOMAIN Closing(rows, i, status, date) = DOMAIN rows
         /\ Closing(rows, i, status, date)[i].status = status
         /\ \A j \in DOMAIN rows \ {i} : Closing(rows, i, status, date)[j] = rows[j]
<1> DEFINE row == Ended(rows[i], status, date)
<1>1. rows[i] \in Membership /\ date \in 0 .. Never
  BY EnglishAssumption DEF Time, Never
<1>2. row \in Membership /\ row.status = status
  BY <1>1 DEF Ended, Membership
<1>3. Closing(rows, i, status, date) = [rows EXCEPT ![i] = row]
  BY DEF Closing
<1> HIDE DEF row
<1> QED
  BY <1>2, <1>3, ExceptSeq

\* What joining makes of a learner's memberships in a class.
JoinsOnto(c, e, rows) ==
  /\ rows \in Seq(Membership)
  /\ ActiveMember(c, e) => rows = member[c][e]
  /\ ~ ActiveMember(c, e) =>
       /\ Len(rows) = Len(member[c][e]) + 1
       /\ DOMAIN rows = DOMAIN member[c][e] \cup {Len(member[c][e]) + 1}
       /\ rows[Len(member[c][e]) + 1].status = "active"
       /\ \A i \in DOMAIN member[c][e] : rows[i] = member[c][e][i]

\* The memberships of a learner who joins: the open one, or a new last one.
LEMMA JoinedRows ==
  ASSUME Learning, NEW c \in Cohorts, NEW e \in Employees, NEW date \in Time
  PROVE  JoinsOnto(c, e, Joined(c, e, date))
<1> DEFINE row == [status |-> "active", since |-> date, until |-> Never]
<1>1. member[c][e] \in Seq(Membership)
  BY DEF Learning
<1>2. row \in Membership /\ row.status = "active"
  BY EnglishAssumption DEF Membership, Never, Time
<1>3. Joined(c, e, date) = IF ActiveMember(c, e) THEN member[c][e] ELSE Append(member[c][e], row)
  BY DEF Joined
<1> HIDE DEF row
<1> QED
  BY <1>1, <1>2, <1>3 DEF JoinsOnto

\* Joining: one enrollment begins, and a membership unless there is one.
LEMMA JoinEffect ==
  ASSUME Typed, NEW p \in Operators, AddRunEnrollment(p)
  PROVE  LET q == op[p].req
             c == CohortOf[q.run]
             rows == Joined(c, q.emp, q.date)
         IN  /\ q.run \in Runs /\ q.emp \in Employees /\ c \in Cohorts /\ q.date \in Time
             /\ Enrolled(Len(rows), q.number, None) \in Enrollment
             /\ enr[q.run][q.emp].status = "none"
             /\ HasRoom(q.run) /\ ~ ActiveElsewhere(q.emp)
             /\ Release(p) /\ UNCHANGED <<now, begun, override, meeting, att, exam>>
             /\ \A r \in Runs, e \in Employees :
                  enr'[r][e] = IF r = q.run /\ e = q.emp THEN Enrolled(Len(rows), q.number, None)
                               ELSE enr[r][e]
             /\ \A k \in Cohorts, e \in Employees :
                  member'[k][e] = IF k = c /\ e = q.emp THEN rows ELSE member[k][e]
             /\ Learning'
<1> DEFINE q == op[p].req
           c == CohortOf[q.run]
           rows == Joined(c, q.emp, q.date)
           row == Enrolled(Len(rows), q.number, None)
<1>1. q \in Request /\ q.kind = "join"
  BY InTx DEF Typed, AddRunEnrollment, Writing
<1>2. q.run \in Runs /\ q.emp \in Employees /\ q.date \in Time /\ q.number \in Nat /\ c \in Cohorts
  BY <1>1, LearnerFields, Lockables
<1>3. Learning
  BY DEF Typed
<1>4. rows \in Seq(Membership)
  BY <1>2, <1>3, JoinedRows DEF JoinsOnto
<1>5. row \in Enrollment
  <2>1. Len(rows) \in Nat
    BY <1>4
  <2> HIDE DEF rows
  <2> QED
    BY <1>2, <2>1 DEF Enrolled, Enrollment
<1>6. /\ enr' = [enr EXCEPT ![q.run][q.emp] = row]
      /\ member' = [member EXCEPT ![c][q.emp] = rows]
      /\ enr[q.run][q.emp].status = "none" /\ HasRoom(q.run) /\ ~ ActiveElsewhere(q.emp)
      /\ Release(p) /\ UNCHANGED <<now, begun, override, meeting, att, exam>>
  BY DEF AddRunEnrollment, NoneActive
<1> HIDE DEF q, c, rows, row
<1>7. /\ \A r \in Runs, e \in Employees :
           enr'[r][e] = IF r = q.run /\ e = q.emp THEN row ELSE enr[r][e]
      /\ \A k \in Cohorts, e \in Employees :
           member'[k][e] = IF k = c /\ e = q.emp THEN rows ELSE member[k][e]
      /\ Learning'
  BY <1>2, <1>3, <1>4, <1>5, <1>6 DEF Learning
<1> QED
  BY <1>2, <1>5, <1>6, <1>7 DEF q, c, rows, row

\* An enrollment that is closed, as it is otherwise.
Closed(row, status) == [row EXCEPT !.status = status]

\* It differs in its status only.
LEMMA ClosedRow ==
  ASSUME NEW row \in Enrollment, NEW status \in {"dropped", "transferred"}
  PROVE  /\ Closed(row, status) \in Enrollment /\ Closed(row, status).status = status
         /\ Closed(row, status).from = row.from /\ Closed(row, status).start = row.start
         /\ Closed(row, status).row = row.row
  BY DEF Closed, Enrollment

\* Leaving: the enrollment closes, and its membership if no other uses it.
LEMMA LeaveEffect ==
  ASSUME Typed, NEW p \in Operators, LeaveRunEnrollment(p)
  PROVE  LET q == op[p].req
             c == CohortOf[q.run]
             row == enr[q.run][q.emp].row
         IN  /\ q.run \in Runs /\ q.emp \in Employees /\ c \in Cohorts /\ q.date \in Time
             /\ enr[q.run][q.emp].status = "active"
             /\ MembershipOf(q.run, q.emp).status = "active"
             /\ Release(p) /\ UNCHANGED <<now, begun, override, meeting, att, exam>>
             /\ \A r \in Runs, e \in Employees :
                  enr'[r][e] = IF r = q.run /\ e = q.emp THEN Closed(enr[r][e], "dropped")
                               ELSE enr[r][e]
             /\ \A k \in Cohorts, e \in Employees :
                  member'[k][e] = IF k = c /\ e = q.emp /\ Unused(c, e, q.run)
                                  THEN Closing(member[k][e], row, "cancelled", q.date)
                                  ELSE member[k][e]
<1> DEFINE q == op[p].req
           c == CohortOf[q.run]
           row == enr[q.run][q.emp].row
<1>1. q \in Request /\ q.kind = "leave"
  BY InTx DEF Typed, LeaveRunEnrollment, Locked
<1>2. q.run \in Runs /\ q.emp \in Employees /\ q.date \in Time /\ c \in Cohorts
  BY <1>1, LearnerFields, Lockables
<1>3. Learning
  BY DEF Typed
<1>4. /\ enr' = [enr EXCEPT ![q.run][q.emp] = Closed(@, "dropped")]
      /\ member' = IF Unused(c, q.emp, q.run)
                   THEN [member EXCEPT ![c][q.emp] = Closing(@, row, "cancelled", q.date)]
                   ELSE member
      /\ enr[q.run][q.emp].status = "active" /\ MembershipOf(q.run, q.emp).status = "active"
      /\ Release(p) /\ UNCHANGED <<now, begun, override, meeting, att, exam>>
  BY DEF LeaveRunEnrollment, Closed, Closing
<1> HIDE DEF q, c, row
<1>5. \A r \in Runs, e \in Employees :
        enr'[r][e] = IF r = q.run /\ e = q.emp THEN Closed(enr[r][e], "dropped") ELSE enr[r][e]
  BY <1>2, <1>3, <1>4 DEF Learning
<1>6. \A k \in Cohorts, e \in Employees :
        member'[k][e] = IF k = c /\ e = q.emp /\ Unused(c, e, q.run)
                        THEN Closing(member[k][e], row, "cancelled", q.date)
                        ELSE member[k][e]
  BY <1>2, <1>3, <1>4 DEF Learning
<1> QED
  BY <1>2, <1>4, <1>5, <1>6 DEF q, c, row

\* A transfer: one enrollment closes with its membership, and another begins in
\* a class of which the learner is no member.
LEMMA TransferEffect ==
  ASSUME Typed, NEW p \in Operators, TransferLearner(p)
  PROVE  LET q == op[p].req
             c == CohortOf[q.from]
             d == CohortOf[q.run]
             row == enr[q.from][q.emp].row
             rows == Joined(d, q.emp, q.date)
         IN  /\ q.run \in Runs /\ q.from \in Runs /\ q.emp \in Employees /\ q.date \in Time
             /\ c \in Cohorts /\ d \in Cohorts /\ c # d
             /\ Enrolled(Len(rows), q.number, q.from) \in Enrollment
             /\ enr[q.from][q.emp].status = "active" /\ enr[q.run][q.emp].status = "none"
             /\ MembershipOf(q.from, q.emp).status = "active" /\ ~ ActiveMember(d, q.emp)
             /\ \A r \in Runs \ {q.from} : enr[r][q.emp].status # "active"
             /\ override' = [override EXCEPT ![d] = @ \cup Overridden(d)]
             /\ Release(p) /\ UNCHANGED <<now, begun, meeting, att, exam>>
             /\ \A r \in Runs, e \in Employees :
                  enr'[r][e] = IF r = q.from /\ e = q.emp THEN Closed(enr[r][e], "transferred")
                               ELSE IF r = q.run /\ e = q.emp
                               THEN Enrolled(Len(rows), q.number, q.from)
                               ELSE enr[r][e]
             /\ \A k \in Cohorts, e \in Employees :
                  member'[k][e] = IF k = c /\ e = q.emp
                                  THEN Closing(member[k][e], row, "transferred", q.date)
                                  ELSE IF k = d /\ e = q.emp THEN rows
                                  ELSE member[k][e]
<1> DEFINE q == op[p].req
           c == CohortOf[q.from]
           d == CohortOf[q.run]
           row == enr[q.from][q.emp].row
           rows == Joined(d, q.emp, q.date)
           new == Enrolled(Len(rows), q.number, q.from)
<1>1. q \in Request /\ q.kind = "transfer"
  BY InTx DEF Typed, TransferLearner, Writing
<1>2. /\ q.run \in Runs /\ q.from \in Runs /\ q.emp \in Employees /\ q.date \in Time
      /\ q.number \in Nat /\ c \in Cohorts /\ d \in Cohorts
  BY <1>1, LearnerFields, Lockables
<1>3. Learning
  BY DEF Typed
<1>4. new \in Enrollment
  <2>1. rows \in Seq(Membership)
    BY <1>2, <1>3, JoinedRows DEF JoinsOnto
  <2>2. Len(rows) \in Nat
    BY <2>1
  <2> HIDE DEF rows
  <2> QED
    BY <1>2, <2>2 DEF Enrolled, Enrollment
<1>5. /\ c # d /\ q.from # q.run
      /\ enr[q.from][q.emp].status = "active" /\ enr[q.run][q.emp].status = "none"
      /\ MembershipOf(q.from, q.emp).status = "active" /\ ~ ActiveMember(d, q.emp)
      /\ \A r \in Runs \ {q.from} : enr[r][q.emp].status # "active"
      /\ override' = [override EXCEPT ![d] = @ \cup Overridden(d)]
      /\ Release(p) /\ UNCHANGED <<now, begun, meeting, att, exam>>
  BY DEF TransferLearner
<1>6. enr' = [[enr EXCEPT ![q.from][q.emp] = Closed(@, "transferred")] EXCEPT ![q.run][q.emp] = new]
  BY DEF TransferLearner, Closed
<1>7. member' = [[member EXCEPT ![c][q.emp] = Closing(@, row, "transferred", q.date)]
                 EXCEPT ![d][q.emp] = rows]
  BY DEF TransferLearner, Closing
<1> HIDE DEF q, c, d, row, rows, new
<1>8. \A r \in Runs, e \in Employees :
        enr'[r][e] = IF r = q.from /\ e = q.emp THEN Closed(enr[r][e], "transferred")
                     ELSE IF r = q.run /\ e = q.emp THEN new ELSE enr[r][e]
  <2> DEFINE mid == [enr EXCEPT ![q.from][q.emp] = Closed(@, "transferred")]
  <2>1. /\ DOMAIN mid = Runs /\ \A r \in Runs : DOMAIN mid[r] = Employees
        /\ \A r \in Runs, e \in Employees :
             mid[r][e] = IF r = q.from /\ e = q.emp THEN Closed(enr[r][e], "transferred")
                         ELSE enr[r][e]
    BY <1>2, <1>3 DEF Learning
  <2>2. enr' = [mid EXCEPT ![q.run][q.emp] = new]
    BY <1>6
  <2> HIDE DEF mid
  <2> QED
    BY <1>2, <1>5, <2>1, <2>2
<1>9. \A k \in Cohorts, e \in Employees :
        member'[k][e] = IF k = c /\ e = q.emp
                        THEN Closing(member[k][e], row, "transferred", q.date)
                        ELSE IF k = d /\ e = q.emp THEN rows ELSE member[k][e]
  <2> DEFINE mid == [member EXCEPT ![c][q.emp] = Closing(@, row, "transferred", q.date)]
  <2>1. /\ DOMAIN mid = Cohorts /\ \A k \in Cohorts : DOMAIN mid[k] = Employees
        /\ \A k \in Cohorts, e \in Employees :
             mid[k][e] = IF k = c /\ e = q.emp
                         THEN Closing(member[k][e], row, "transferred", q.date) ELSE member[k][e]
    BY <1>2, <1>3 DEF Learning
  <2>2. member' = [mid EXCEPT ![d][q.emp] = rows]
    BY <1>7
  <2> HIDE DEF mid
  <2> QED
    BY <1>2, <1>5, <2>1, <2>2
<1> QED
  BY <1>2, <1>4, <1>5, <1>8, <1>9 DEF q, c, d, row, rows, new

-----------------------------------------------------------------------------
(* Memberships and the enrollments that use them.                          *)

\* An active enrollment refers to a membership that is open.
Uses(r, e) ==
    enr[r][e].status = "active" =>
        /\ enr[r][e].row \in DOMAIN member[CohortOf[r]][e]
        /\ MembershipOf(r, e).status = "active"

\* Only the last membership of a learner in a class can be open.
LastOpen(c, e) ==
    \A i \in DOMAIN member[c][e] :
        member[c][e][i].status = "active" => i = Len(member[c][e])

\* An open membership is used.
InUse(c, e) == ActiveMember(c, e) => \E r \in Runs : CohortOf[r] = c /\ enr[r][e].status = "active"

Rosters ==
    \A e \in Employees :
        /\ \A r \in Runs : Uses(r, e)
        /\ \A c \in Cohorts : LastOpen(c, e) /\ InUse(c, e)

\* Which steps touch enrollments, memberships and approvals.
LEMMA LearningChanges ==
  ASSUME [Next]_vars
  PROVE  \/ UNCHANGED <<enr, member, override>>
         \/ \E p \in Operators : AddRunEnrollment(p) \/ LeaveRunEnrollment(p) \/ TransferLearner(p)
<1>1. CASE \E p \in Operators : Begin(p) \/ Lock(p)
  BY <1>1 DEF Begin, Lock, tables
<1>2. CASE \E p \in Operators : Work(p)
  <2>1. PICK p \in Operators : Work(p)
    BY <1>2
  <2> QED
    BY <2>1 DEF Work, Confirm, CreateAttendanceSession, LeaveSlot, RescheduleMeeting, CancelMeeting, LockRoster,
       SaveAttendanceRoster, RecordExamResult, Refuse, AbortVictim, tables
<1>3. CASE DeleteExamResult \/ Tick \/ UNCHANGED vars
  BY <1>3 DEF DeleteExamResult, Tick, vars, tables
<1> QED
  BY <1>1, <1>2, <1>3 DEF Next

\* A learner who joins is a member, through the last membership.
LEMMA JoinRosters ==
  ASSUME Typed, Rosters, NEW p \in Operators, AddRunEnrollment(p)
  PROVE  Rosters'
<1> DEFINE q == op[p].req
           c == CohortOf[q.run]
           rows == Joined(c, q.emp, q.date)
           new == Enrolled(Len(rows), q.number, None)
<1>1. /\ q.run \in Runs /\ q.emp \in Employees /\ c \in Cohorts /\ q.date \in Time
      /\ ~ ActiveElsewhere(q.emp)
      /\ \A r \in Runs, e \in Employees :
           enr'[r][e] = IF r = q.run /\ e = q.emp THEN new ELSE enr[r][e]
      /\ \A k \in Cohorts, e \in Employees :
           member'[k][e] = IF k = c /\ e = q.emp THEN rows ELSE member[k][e]
  BY JoinEffect
<1>2. /\ rows \in Seq(Membership) /\ member[c][q.emp] \in Seq(Membership)
      /\ ActiveMember(c, q.emp) => rows = member[c][q.emp]
      /\ ~ ActiveMember(c, q.emp) =>
           /\ Len(rows) = Len(member[c][q.emp]) + 1
           /\ DOMAIN rows = DOMAIN member[c][q.emp] \cup {Len(member[c][q.emp]) + 1}
           /\ rows[Len(member[c][q.emp]) + 1].status = "active"
           /\ \A i \in DOMAIN member[c][q.emp] : rows[i] = member[c][q.emp][i]
  <2>1. Learning /\ member[c][q.emp] \in Seq(Membership)
    BY <1>1 DEF Typed, Learning
  <2> HIDE DEF q, c
  <2>2. JoinsOnto(c, q.emp, rows)
    BY <1>1, <2>1, JoinedRows
  <2> HIDE DEF rows
  <2> QED
    BY <2>1, <2>2 DEF JoinsOnto
<1>3. new.status = "active" /\ new.row = Len(rows)
  BY DEF Enrolled
<1>4. \A r \in Runs : CohortOf[r] \in Cohorts
  BY Lockables
<1>5. /\ Len(rows) \in DOMAIN rows /\ rows[Len(rows)].status = "active"
      /\ \A i \in DOMAIN rows : rows[i].status = "active" => i = Len(rows)
  <2>1. CASE ActiveMember(c, q.emp)
    <3>1. PICK i \in DOMAIN member[c][q.emp] : member[c][q.emp][i].status = "active"
      BY <2>1 DEF ActiveMember
    <3>2. \A j \in DOMAIN member[c][q.emp] :
            member[c][q.emp][j].status = "active" => j = Len(member[c][q.emp])
      BY <1>1 DEF Rosters, LastOpen
    <3>3. rows = member[c][q.emp]
      BY <1>2, <2>1
    <3> HIDE DEF q, c, rows
    <3> QED
      BY <3>1, <3>2, <3>3
  <2>2. CASE ~ ActiveMember(c, q.emp)
    <3>1. \A i \in DOMAIN member[c][q.emp] : rows[i].status # "active"
      BY <1>2, <2>2 DEF ActiveMember
    <3> QED
      BY <1>2, <2>2, <3>1
  <2> QED
    BY <2>1, <2>2
<1> HIDE DEF q, c, rows, new
<1>6. ASSUME NEW e \in Employees, NEW r \in Runs
      PROVE  Uses(r, e)'
  <2>1. CASE e = q.emp /\ r = q.run
    BY <1>1, <1>3, <1>4, <1>5, <2>1 DEF Uses, MembershipOf, c
  <2>2. CASE e = q.emp /\ r # q.run
    BY <1>1, <2>2 DEF Uses, ActiveElsewhere
  <2>3. CASE e # q.emp
    BY <1>1, <1>4, <2>3 DEF Uses, MembershipOf, Rosters
  <2> QED
    BY <2>1, <2>2, <2>3
<1>7. ASSUME NEW e \in Employees, NEW k \in Cohorts
      PROVE  LastOpen(k, e)' /\ InUse(k, e)'
  <2>1. CASE e = q.emp /\ k = c
    <3>1. InUse(k, e)'
      BY <1>1, <1>3, <2>1 DEF InUse, c
    <3> QED
      BY <1>1, <1>5, <2>1, <3>1 DEF LastOpen
  <2>2. CASE e = q.emp /\ k # c
    <3>1. ~ ActiveMember(k, e)
      BY <1>1, <2>2 DEF Rosters, InUse, ActiveElsewhere
    <3> QED
      BY <1>1, <2>2, <3>1 DEF LastOpen, InUse, ActiveMember
  <2>3. CASE e # q.emp
    BY <1>1, <2>3 DEF Rosters, LastOpen, InUse, ActiveMember
  <2> QED
    BY <2>1, <2>2, <2>3
<1> QED
  BY <1>6, <1>7 DEF Rosters

\* Closing the open membership leaves none.
LEMMA ClosingLast ==
  ASSUME Learning, Rosters, NEW r \in Runs, NEW e \in Employees, enr[r][e].status = "active",
         NEW status \in {"cancelled", "transferred"}, NEW date \in Time
  PROVE  LET c == CohortOf[r]
             rows == Closing(member[c][e], enr[r][e].row, status, date)
         IN  rows \in Seq(Membership) /\ \A i \in DOMAIN rows : rows[i].status # "active"
<1> DEFINE c == CohortOf[r]
           k == enr[r][e].row
           rows == Closing(member[c][e], k, status, date)
<1>1. /\ c \in Cohorts /\ member[c][e] \in Seq(Membership) /\ k \in DOMAIN member[c][e]
      /\ member[c][e][k].status = "active"
      /\ \A i \in DOMAIN member[c][e] : member[c][e][i].status = "active" => i = Len(member[c][e])
  BY Lockables DEF Learning, Rosters, Uses, LastOpen, MembershipOf
<1> HIDE DEF c, k
<1>2. /\ rows \in Seq(Membership) /\ DOMAIN rows = DOMAIN member[c][e] /\ rows[k].status = status
      /\ \A i \in DOMAIN member[c][e] \ {k} : rows[i] = member[c][e][i]
  BY <1>1, ClosingRow
<1> HIDE DEF rows
<1>3. \A i \in DOMAIN rows : rows[i].status # "active"
  BY <1>1, <1>2
<1> QED
  BY <1>2, <1>3 DEF c, k, rows

\* A learner who leaves is a member as long as another enrollment says so.
LEMMA LeaveRosters ==
  ASSUME Typed, Rosters, NEW p \in Operators, LeaveRunEnrollment(p)
  PROVE  Rosters' /\ Learning'
<1> DEFINE q == op[p].req
           c == CohortOf[q.run]
           row == enr[q.run][q.emp].row
           rows == Closing(member[c][q.emp], row, "cancelled", q.date)
<1>1. /\ q.run \in Runs /\ q.emp \in Employees /\ c \in Cohorts /\ q.date \in Time
      /\ enr[q.run][q.emp].status = "active"
      /\ UNCHANGED override
      /\ \A r \in Runs, e \in Employees :
           enr'[r][e] = IF r = q.run /\ e = q.emp THEN Closed(enr[r][e], "dropped") ELSE enr[r][e]
      /\ \A k \in Cohorts, e \in Employees :
           member'[k][e] = IF k = c /\ e = q.emp /\ Unused(c, e, q.run)
                           THEN Closing(member[k][e], row, "cancelled", q.date)
                           ELSE member[k][e]
  BY LeaveEffect
<1>2. /\ rows \in Seq(Membership) /\ \A i \in DOMAIN rows : rows[i].status # "active"
      /\ Learning
  BY <1>1, ClosingLast DEF Typed
<1>3. \A k \in Cohorts, e \in Employees :
        member'[k][e] = IF k = c /\ e = q.emp /\ Unused(c, e, q.run) THEN rows ELSE member[k][e]
  BY <1>1
<1>4. \A r \in Runs : CohortOf[r] \in Cohorts
  BY Lockables
<1>5. \A r \in Runs, e \in Employees :
        /\ enr[r][e] \in Enrollment /\ enr'[r][e] \in Enrollment
        /\ enr'[r][e].status = "active" <=> ((r # q.run \/ e # q.emp) /\ enr[r][e].status = "active")
        /\ enr'[r][e].row = enr[r][e].row
  <2>1. \A r \in Runs, e \in Employees :
          /\ enr[r][e] \in Enrollment
          /\ Closed(enr[r][e], "dropped") \in Enrollment
          /\ Closed(enr[r][e], "dropped").status = "dropped"
          /\ Closed(enr[r][e], "dropped").row = enr[r][e].row
    BY <1>2, ClosedRow DEF Learning
  <2> HIDE DEF q, c, row, rows
  <2> QED
    BY <1>1, <2>1
<1>6. /\ enr' = [enr EXCEPT ![q.run][q.emp] = Closed(@, "dropped")]
      /\ member' = member \/ member' = [member EXCEPT ![c][q.emp] = rows]
  BY DEF LeaveRunEnrollment, Closed, Closing
<1> HIDE DEF rows, row
<1>7. Learning'
  <2> HIDE DEF q, c
  <2>1. enr' \in [Runs -> [Employees -> Enrollment]]
    <3>1. Closed(enr[q.run][q.emp], "dropped") \in Enrollment
      BY <1>1, <1>5, ClosedRow
    <3> QED
      BY <1>1, <1>2, <1>6, <3>1 DEF Learning
  <2>2. member' \in [Cohorts -> [Employees -> Seq(Membership)]]
    <3>1. CASE member' = member
      BY <1>2, <3>1 DEF Learning
    <3>2. CASE member' = [member EXCEPT ![c][q.emp] = rows]
      <4>1. member \in [Cohorts -> [Employees -> Seq(Membership)]] /\ rows \in Seq(Membership)
        BY <1>2 DEF Learning
      <4> QED
        BY <1>1, <3>2, <4>1
    <3> QED
      BY <1>6, <3>1, <3>2
  <2> QED
    BY <1>1, <1>2, <2>1, <2>2 DEF Learning
<1> HIDE DEF q
<1>8. ASSUME NEW e \in Employees, NEW r \in Runs
      PROVE  Uses(r, e)'
  <2> SUFFICES ASSUME enr'[r][e].status = "active"
               PROVE  /\ enr'[r][e].row \in DOMAIN member'[CohortOf[r]][e]
                      /\ member'[CohortOf[r]][e][enr'[r][e].row].status = "active"
    BY DEF Uses, MembershipOf
  <2>1. /\ enr[r][e].status = "active" /\ (r # q.run \/ e # q.emp)
        /\ enr'[r][e].row = enr[r][e].row
    BY <1>5
  <2>2. member'[CohortOf[r]][e] = member[CohortOf[r]][e]
    BY <1>3, <1>4, <2>1 DEF Unused
  <2> QED
    BY <2>1, <2>2 DEF Rosters, Uses, MembershipOf
<1>9. ASSUME NEW e \in Employees, NEW k \in Cohorts
      PROVE  LastOpen(k, e)' /\ InUse(k, e)'
  <2>1. CASE k = c /\ e = q.emp /\ Unused(c, e, q.run)
    BY <1>2, <1>3, <2>1 DEF LastOpen, InUse, ActiveMember
  <2>2. CASE ~ (k = c /\ e = q.emp /\ Unused(c, e, q.run))
    <3>1. member'[k][e] = member[k][e]
      BY <1>3, <2>2
    <3>2. LastOpen(k, e)'
      BY <3>1 DEF Rosters, LastOpen
    <3>3. ASSUME ActiveMember(k, e)'
          PROVE  \E r \in Runs : CohortOf[r] = k /\ enr'[r][e].status = "active"
      <4>1. \E r \in Runs : CohortOf[r] = k /\ enr[r][e].status = "active"
        BY <3>1, <3>3 DEF ActiveMember, Rosters, InUse
      <4>2. CASE k = c /\ e = q.emp
        BY <1>5, <2>2, <4>2 DEF Unused
      <4>3. CASE ~ (k = c /\ e = q.emp)
        BY <1>5, <4>1, <4>3
      <4> QED
        BY <4>2, <4>3
    <3> QED
      BY <3>2, <3>3 DEF InUse
  <2> QED
    BY <2>1, <2>2
<1> QED
  BY <1>7, <1>8, <1>9 DEF Rosters

\* A learner who is transferred leaves one class and enters the other.
LEMMA TransferRosters ==
  ASSUME Typed, Rosters, NEW p \in Operators, TransferLearner(p)
  PROVE  Rosters' /\ Learning'
<1> DEFINE q == op[p].req
           c == CohortOf[q.from]
           d == CohortOf[q.run]
           row == enr[q.from][q.emp].row
           out == Closing(member[c][q.emp], row, "transferred", q.date)
           rows == Joined(d, q.emp, q.date)
           new == Enrolled(Len(rows), q.number, q.from)
<1>1. /\ q.run \in Runs /\ q.from \in Runs /\ q.emp \in Employees /\ q.date \in Time
      /\ c \in Cohorts /\ d \in Cohorts /\ c # d
      /\ new \in Enrollment
      /\ enr[q.from][q.emp].status = "active" /\ enr[q.run][q.emp].status = "none"
      /\ ~ ActiveMember(d, q.emp)
      /\ \A r \in Runs \ {q.from} : enr[r][q.emp].status # "active"
      /\ override' = [override EXCEPT ![d] = @ \cup Overridden(d)]
      /\ \A r \in Runs, e \in Employees :
           enr'[r][e] = IF r = q.from /\ e = q.emp THEN Closed(enr[r][e], "transferred")
                        ELSE IF r = q.run /\ e = q.emp THEN new ELSE enr[r][e]
      /\ \A k \in Cohorts, e \in Employees :
           member'[k][e] = IF k = c /\ e = q.emp
                           THEN Closing(member[k][e], row, "transferred", q.date)
                           ELSE IF k = d /\ e = q.emp THEN rows ELSE member[k][e]
  BY TransferEffect
<1>2. /\ out \in Seq(Membership) /\ \A i \in DOMAIN out : out[i].status # "active"
      /\ Learning
  BY <1>1, ClosingLast DEF Typed
<1>3. \A k \in Cohorts, e \in Employees :
        member'[k][e] = IF k = c /\ e = q.emp THEN out
                        ELSE IF k = d /\ e = q.emp THEN rows ELSE member[k][e]
  BY <1>1
<1>4. \A r \in Runs : CohortOf[r] \in Cohorts
  BY Lockables
<1>5. /\ rows \in Seq(Membership)
      /\ Len(rows) \in DOMAIN rows /\ rows[Len(rows)].status = "active"
      /\ \A i \in DOMAIN rows : rows[i].status = "active" => i = Len(rows)
  <2>1. member[d][q.emp] \in Seq(Membership)
    BY <1>1, <1>2 DEF Learning
  <2>2. /\ rows \in Seq(Membership)
        /\ Len(rows) = Len(member[d][q.emp]) + 1
        /\ DOMAIN rows = DOMAIN member[d][q.emp] \cup {Len(member[d][q.emp]) + 1}
        /\ rows[Len(member[d][q.emp]) + 1].status = "active"
        /\ \A i \in DOMAIN member[d][q.emp] : rows[i] = member[d][q.emp][i]
    <3>1. Learning /\ d \in Cohorts /\ q.emp \in Employees /\ q.date \in Time
          /\ ~ ActiveMember(d, q.emp)
      BY <1>1, <1>2
    <3> HIDE DEF q, d
    <3>2. JoinsOnto(d, q.emp, rows)
      BY <3>1, JoinedRows
    <3> HIDE DEF rows
    <3> QED
      BY <3>1, <3>2 DEF JoinsOnto
  <2>3. \A i \in DOMAIN member[d][q.emp] : rows[i].status # "active"
    BY <1>1, <2>2 DEF ActiveMember
  <2> HIDE DEF q, d, rows
  <2> QED
    BY <2>1, <2>2, <2>3
<1>6. new.status = "active" /\ new.row = Len(rows)
  BY DEF Enrolled
<1>7. \A r \in Runs, e \in Employees :
        /\ enr[r][e] \in Enrollment
        /\ Closed(enr[r][e], "transferred") \in Enrollment
        /\ Closed(enr[r][e], "transferred").status = "transferred"
  BY <1>2, ClosedRow DEF Learning
<1>8. /\ enr' = [[enr EXCEPT ![q.from][q.emp] = Closed(@, "transferred")] EXCEPT ![q.run][q.emp] = new]
      /\ member' = [[member EXCEPT ![c][q.emp] = out] EXCEPT ![d][q.emp] = rows]
  BY DEF TransferLearner, Closed, Closing
<1> HIDE DEF out, row, rows, new, q
<1>9. Learning'
  <2> HIDE DEF c, d
  <2>1. enr' \in [Runs -> [Employees -> Enrollment]]
    <3> DEFINE mid == [enr EXCEPT ![q.from][q.emp] = Closed(@, "transferred")]
    <3>1. mid \in [Runs -> [Employees -> Enrollment]]
      <4>1. Closed(enr[q.from][q.emp], "transferred") \in Enrollment
        BY <1>1, <1>7
      <4> QED
        BY <1>1, <1>2, <4>1 DEF Learning
    <3>2. enr' = [mid EXCEPT ![q.run][q.emp] = new]
      BY <1>8
    <3> HIDE DEF mid
    <3> QED
      BY <1>1, <3>1, <3>2
  <2>2. member' \in [Cohorts -> [Employees -> Seq(Membership)]]
    <3> DEFINE mid == [member EXCEPT ![c][q.emp] = out]
    <3>1. mid \in [Cohorts -> [Employees -> Seq(Membership)]]
      BY <1>1, <1>2 DEF Learning
    <3>2. member' = [mid EXCEPT ![d][q.emp] = rows]
      BY <1>8
    <3> HIDE DEF mid
    <3> QED
      BY <1>1, <1>5, <3>1, <3>2
  <2>3. override' \in [Cohorts -> SUBSET Nat]
    <3>1. Overridden(d) \subseteq Nat
      <4>1. IsFiniteSet(Members(d))
        BY EnglishAssumption, FS_Subset DEF Members
      <4> QED
        BY <4>1, FS_CardinalityType DEF Overridden, Resulting
    <3> QED
      BY <1>1, <1>2, <3>1 DEF Learning
  <2> QED
    BY <2>1, <2>2, <2>3 DEF Learning
<1>10. ASSUME NEW e \in Employees, NEW r \in Runs
       PROVE  Uses(r, e)'
  <2> SUFFICES ASSUME enr'[r][e].status = "active"
               PROVE  /\ enr'[r][e].row \in DOMAIN member'[CohortOf[r]][e]
                      /\ member'[CohortOf[r]][e][enr'[r][e].row].status = "active"
    BY DEF Uses, MembershipOf
  <2>1. CASE e = q.emp
    <3>1. r = q.run /\ enr'[r][e] = new
      BY <1>1, <1>7, <2>1
    <3>2. member'[CohortOf[r]][e] = rows
      BY <1>1, <1>3, <2>1, <3>1
    <3> QED
      BY <1>5, <1>6, <3>1, <3>2
  <2>2. CASE e # q.emp
    <3>1. enr'[r][e] = enr[r][e] /\ member'[CohortOf[r]][e] = member[CohortOf[r]][e]
      BY <1>1, <1>3, <1>4, <2>2
    <3> QED
      BY <3>1 DEF Rosters, Uses, MembershipOf
  <2> QED
    BY <2>1, <2>2
<1>11. ASSUME NEW e \in Employees, NEW k \in Cohorts
       PROVE  LastOpen(k, e)' /\ InUse(k, e)'
  <2>1. CASE e = q.emp /\ k = c
    <3>1. member'[k][e] = out
      BY <1>3, <2>1
    <3>2. \A i \in DOMAIN member'[k][e] : member'[k][e][i].status # "active"
      BY <1>2, <3>1
    <3> QED
      BY <3>2 DEF LastOpen, InUse, ActiveMember
  <2>2. CASE e = q.emp /\ k = d
    <3>1. member'[k][e] = rows
      BY <1>1, <1>3, <2>2
    <3>2. enr'[q.run][e].status = "active"
      BY <1>1, <1>6, <2>2
    <3>3. InUse(k, e)'
      BY <1>1, <2>2, <3>2 DEF InUse
    <3> QED
      BY <1>5, <3>1, <3>3 DEF LastOpen
  <2>3. CASE e = q.emp /\ k # c /\ k # d
    <3>1. ~ ActiveMember(k, e) /\ member'[k][e] = member[k][e]
      BY <1>1, <1>3, <2>3 DEF Rosters, InUse
    <3> QED
      BY <3>1 DEF LastOpen, InUse, ActiveMember
  <2>4. CASE e # q.emp
    <3>1. member'[k][e] = member[k][e] /\ \A r \in Runs : enr'[r][e] = enr[r][e]
      BY <1>1, <1>3, <2>4
    <3> QED
      BY <3>1 DEF Rosters, LastOpen, InUse, ActiveMember
  <2> QED
    BY <2>1, <2>2, <2>3, <2>4
<1> QED
  BY <1>9, <1>10, <1>11 DEF Rosters

\* Every step keeps enrollments and memberships in order.
LEMMA RostersStep ==
  ASSUME Typed, Rosters, [Next]_vars
  PROVE  Rosters' /\ Learning'
<1>1. CASE UNCHANGED <<enr, member, override>>
  BY <1>1 DEF Rosters, Uses, LastOpen, InUse, ActiveMember, MembershipOf, Typed, Learning
<1>2. CASE \E p \in Operators : AddRunEnrollment(p) \/ LeaveRunEnrollment(p) \/ TransferLearner(p)
  BY <1>2, JoinRosters, LeaveRosters, TransferRosters, JoinEffect
<1> QED
  BY <1>1, <1>2, LearningChanges

-----------------------------------------------------------------------------
(* What the operations on meetings do.                                     *)

\* A meeting as an operation leaves it.
Held(row, status) == [row EXCEPT !.status = status]

\* Completing or cancelling a meeting changes nothing else of it.
LEMMA HeldRow ==
  ASSUME NEW row \in Meeting, NEW status \in {"completed", "cancelled"}
  PROVE  /\ Held(row, status) \in Meeting /\ Held(row, status).status = status
         /\ Held(row, status).run = row.run /\ Held(row, status).number = row.number
         /\ Held(row, status).at = row.at
  BY DEF Held, Meeting

\* A meeting at another time.
Moved(row, at) == [row EXCEPT !.at = at]

\* Moving a meeting changes its time only.
LEMMA MovedRow ==
  ASSUME NEW row \in Meeting, NEW at \in Time
  PROVE  /\ Moved(row, at) \in Meeting /\ Moved(row, at).at = at
         /\ Moved(row, at).status = row.status /\ Moved(row, at).run = row.run
         /\ Moved(row, at).number = row.number
  BY DEF Moved, Meeting

\* What a step may do to the meetings: a new one of an existing run, and another
\* time, a cancellation or the end of one that there is.
MeetingStep(m) ==
    \/ meeting'[m] = meeting[m]
    \/ /\ meeting[m] = NoMeeting
       /\ meeting'[m].status = "planned" /\ meeting'[m].run \in Runs
    \/ /\ meeting[m].status # "free"
       /\ \/ \E t \in Time : meeting'[m] = Moved(meeting[m], t)
          \/ \E status \in {"completed", "cancelled"} : meeting'[m] = Held(meeting[m], status)

\* Creating a meeting.
LEMMA CreateEffect ==
  ASSUME Typed, NEW p \in Operators, CreateAttendanceSession(p)
  PROVE  /\ Release(p) /\ UNCHANGED <<now, enr, member, override, att, exam, begun>>
         /\ meeting' \in [Meetings -> Meeting]
         /\ \A m \in Meetings : MeetingStep(m)
<1> DEFINE q == op[p].req
           new == [status |-> "planned", run |-> q.run, number |-> q.number, at |-> q.at]
<1>1. q \in Request /\ q.kind = "create"
  BY InTx DEF Typed, CreateAttendanceSession, Writing
<1>2. q.run \in Runs /\ q.at \in Time /\ q.number \in Nat /\ meeting \in [Meetings -> Meeting]
  BY <1>1, MeetingFields DEF Typed, Teaching
<1>3. new \in Meeting /\ new.status = "planned" /\ new.run \in Runs
  BY <1>2 DEF Meeting
<1>4. PICK m \in Meetings : meeting[m] = NoMeeting /\ meeting' = [meeting EXCEPT ![m] = new]
  BY DEF CreateAttendanceSession
<1> HIDE DEF new, q
<1>5. meeting' \in [Meetings -> Meeting] /\ \A n \in Meetings : MeetingStep(n)
  BY <1>2, <1>3, <1>4 DEF MeetingStep
<1> QED
  BY <1>5 DEF CreateAttendanceSession

\* Moving or cancelling one.
LEMMA ChangeEffect ==
  ASSUME Typed, NEW p \in Operators, RescheduleMeeting(p) \/ CancelMeeting(p)
  PROVE  /\ Release(p) /\ UNCHANGED <<now, enr, member, override, att, exam, begun>>
         /\ meeting' \in [Meetings -> Meeting]
         /\ \A m \in Meetings : MeetingStep(m)
<1> DEFINE q == op[p].req
<1>1. q \in Request /\ q.kind \in {"move", "cancel"}
  BY InTx DEF Typed, RescheduleMeeting, CancelMeeting, Locked, Writing
<1>2. q.meeting \in Meetings /\ meeting \in [Meetings -> Meeting]
  BY <1>1, MeetingFields DEF Typed, Teaching
<1>3. meeting[q.meeting].status # "free"
  BY <1>1, InTx DEF Typed, Loaded, RescheduleMeeting, CancelMeeting, Locked, Writing
<1>4. Release(p) /\ UNCHANGED <<now, enr, member, override, att, exam, begun>>
  BY DEF RescheduleMeeting, CancelMeeting
<1>5. CASE RescheduleMeeting(p)
  <2>1. meeting' = [meeting EXCEPT ![q.meeting] = Moved(meeting[q.meeting], q.at)] /\ q.kind = "move"
    BY <1>2, <1>5 DEF RescheduleMeeting, Moved
  <2>2. q.at \in Time /\ meeting[q.meeting] \in Meeting
    BY <1>1, <1>2, <2>1, MeetingFields
  <2>3. Moved(meeting[q.meeting], q.at) \in Meeting
    BY <2>2, MovedRow
  <2> HIDE DEF q
  <2>4. meeting' \in [Meetings -> Meeting] /\ \A n \in Meetings : MeetingStep(n)
    BY <1>2, <1>3, <2>1, <2>2, <2>3 DEF MeetingStep
  <2> QED
    BY <1>4, <2>4
<1>6. CASE CancelMeeting(p)
  <2>1. meeting' = [meeting EXCEPT ![q.meeting] = Held(meeting[q.meeting], "cancelled")]
    BY <1>2, <1>6 DEF CancelMeeting, Held
  <2>2. Held(meeting[q.meeting], "cancelled") \in Meeting
    BY <1>2, HeldRow
  <2> HIDE DEF q
  <2>3. meeting' \in [Meetings -> Meeting] /\ \A n \in Meetings : MeetingStep(n)
    BY <1>2, <1>3, <2>1, <2>2 DEF MeetingStep
  <2> QED
    BY <1>4, <2>3
<1> QED
  BY <1>5, <1>6

\* Saving a roster: the marks replace what was recorded, and the meeting ends.
LEMMA SaveEffect ==
  ASSUME Typed, NEW p \in Operators, SaveAttendanceRoster(p)
  PROVE  LET q == op[p].req
         IN  /\ q \in Request /\ q.kind = "save" /\ q.meeting \in Meetings
             /\ meeting[q.meeting].status # "free"
             /\ Release(p) /\ UNCHANGED <<now, enr, member, override, exam, begun>>
             /\ meeting' \in [Meetings -> Meeting]
             /\ att' \in [Meetings -> [Employees -> Marks]]
             /\ \A m \in Meetings : MeetingStep(m)
             /\ \A m \in Meetings : meeting'[m] = IF m = q.meeting THEN Held(meeting[m], "completed")
                                                  ELSE meeting[m]
             /\ \A m \in Meetings, e \in Employees :
                  att'[m][e] = IF m = q.meeting /\ e \in DOMAIN q.marks THEN q.marks[e] ELSE att[m][e]
<1> DEFINE q == op[p].req
           new == [e \in Employees |-> IF e \in DOMAIN q.marks THEN q.marks[e] ELSE att[q.meeting][e]]
<1>1. q \in Request /\ q.kind = "save" /\ Loaded(q)
  BY InTx DEF Typed, SaveAttendanceRoster, Writing
<1>2. /\ q.meeting \in Meetings /\ meeting \in [Meetings -> Meeting]
      /\ meeting[q.meeting].status # "free"
      /\ att \in [Meetings -> [Employees -> Marks]]
  BY <1>1, MeetingFields DEF Typed, Teaching, Loaded
<1>3. new \in [Employees -> Marks]
  BY <1>1, <1>2, SaveFields DEF Marks
<1>4. Release(p) /\ UNCHANGED <<now, enr, member, override, exam, begun>>
  BY DEF SaveAttendanceRoster
<1>5. meeting' = [meeting EXCEPT ![q.meeting] = Held(meeting[q.meeting], "completed")]
      /\ att' = [att EXCEPT ![q.meeting] = new]
  BY <1>2 DEF SaveAttendanceRoster, Held
<1>6. Held(meeting[q.meeting], "completed") \in Meeting
  BY <1>2, HeldRow
<1>7. \A e \in Employees :
        new[e] = IF e \in DOMAIN q.marks THEN q.marks[e] ELSE att[q.meeting][e]
  OBVIOUS
<1> HIDE DEF q, new
<1>8. /\ meeting' \in [Meetings -> Meeting]
      /\ att' \in [Meetings -> [Employees -> Marks]]
      /\ \A m \in Meetings : meeting'[m] = IF m = q.meeting THEN Held(meeting[m], "completed")
                                           ELSE meeting[m]
      /\ \A m \in Meetings, e \in Employees :
           att'[m][e] = IF m = q.meeting /\ e \in DOMAIN q.marks THEN q.marks[e] ELSE att[m][e]
  BY <1>2, <1>3, <1>5, <1>6, <1>7
<1>9. \A m \in Meetings : MeetingStep(m)
  BY <1>2, <1>8 DEF MeetingStep
<1> QED
  BY <1>1, <1>2, <1>4, <1>8, <1>9 DEF q

\* A meeting that is used stays used, and is of a run.
LEMMA MeetingsKept ==
  ASSUME meeting \in [Meetings -> Meeting], \A m \in Meetings : MeetingStep(m),
         \A m \in Meetings : meeting[m].status # "free" => meeting[m].run \in Runs
  PROVE  /\ Kept
         /\ \A m \in Meetings : meeting'[m].status # "free" => meeting'[m].run \in Runs
<1>1. ASSUME NEW m \in Meetings
      PROVE  /\ meeting[m].status # "free" => meeting'[m].status # "free"
             /\ meeting'[m].status # "free" => meeting'[m].run \in Runs
  <2>1. meeting[m] \in Meeting
    OBVIOUS
  <2>2. CASE meeting'[m] = meeting[m]
    BY <2>2
  <2>3. CASE meeting[m] = NoMeeting /\ meeting'[m].status = "planned" /\ meeting'[m].run \in Runs
    BY <2>3
  <2>4. CASE meeting[m].status # "free" /\ \E t \in Time : meeting'[m] = Moved(meeting[m], t)
    BY <2>1, <2>4, MovedRow
  <2>5. CASE /\ meeting[m].status # "free"
             /\ \E status \in {"completed", "cancelled"} : meeting'[m] = Held(meeting[m], status)
    BY <2>1, <2>5, HeldRow
  <2> QED
    BY <2>2, <2>3, <2>4, <2>5 DEF MeetingStep, NoMeeting
<1> QED
  BY <1>1 DEF Kept

\* What the operations on meetings leave typed.
LEMMA TeachingTyped ==
  ASSUME Typed, NEW p \in Operators, Release(p), UNCHANGED <<now, begun, enr, member, override>>,
         meeting' \in [Meetings -> Meeting], \A m \in Meetings : MeetingStep(m),
         att' \in [Meetings -> [Employees -> Marks]], exam' \in [Runs -> [Employees -> BOOLEAN]]
  PROVE  Typed'
<1>1. Clock /\ Learning /\ Teaching /\ Transacting
  BY DEF Typed
<1>2. Kept /\ \A m \in Meetings : meeting'[m].status # "free" => meeting'[m].run \in Runs
  BY <1>1, MeetingsKept DEF Teaching
<1>3. Transacting'
  BY <1>1, <1>2, ReleaseTyped
<1> QED
  BY <1>1, <1>2, <1>3 DEF Typed, Clock, Learning, Teaching

\* At first there is nothing.
LEMMA InitTyped == Init => Typed /\ Rosters
<1> SUFFICES ASSUME Init PROVE Typed /\ Rosters
  OBVIOUS
<1>1. NoEnrollment \in Enrollment /\ NoEnrollment.status = "none"
  BY DEF NoEnrollment, Enrollment
<1>2. NoMeeting \in Meeting /\ NoMeeting.status = "free"
  BY EnglishAssumption DEF NoMeeting, Meeting, Time
<1>3. Clock /\ Teaching
  BY <1>2, EnglishAssumption DEF Init, Clock, Teaching, Time, Marks
<1>4. Learning
  BY <1>1 DEF Init, Learning
<1>5. Transacting
  BY DEF Init, Transacting
<1>6. Rosters
  <2>1. \A r \in Runs, e \in Employees : enr[r][e].status # "active"
    BY <1>1 DEF Init
  <2>2. \A c \in Cohorts, e \in Employees : DOMAIN member[c][e] = {}
    BY DEF Init
  <2> QED
    BY <2>1, <2>2 DEF Rosters, Uses, LastOpen, InUse, ActiveMember
<1> QED
  BY <1>3, <1>4, <1>5, <1>6 DEF Typed

\* Every step leaves the tables and the transactions what they are.
LEMMA NextTyped ==
  ASSUME Typed, Rosters, [Next]_vars
  PROVE  Typed' /\ Rosters'
<1>1. Rosters' /\ Learning'
  BY RostersStep
<1>2. Clock /\ Learning /\ Teaching /\ Transacting
  BY DEF Typed
<1>3. UNCHANGED meeting => Kept
  BY DEF Kept
<1>4. CASE \E p \in Operators : Begin(p) \/ Lock(p) \/ Confirm(p) \/ LeaveSlot(p) \/ LockRoster(p)
  BY <1>1, <1>4, LockingTyped
<1>5. ASSUME NEW p \in Operators, AddRunEnrollment(p) \/ LeaveRunEnrollment(p) \/ TransferLearner(p)
      PROVE  Typed'
  <2>1. Release(p) /\ UNCHANGED <<now, begun, meeting, att, exam>>
    BY <1>5 DEF AddRunEnrollment, LeaveRunEnrollment, TransferLearner
  <2>2. Transacting'
    BY <1>2, <1>3, <2>1, ReleaseTyped
  <2> QED
    BY <1>1, <1>2, <2>1, <2>2 DEF Typed, Clock, Teaching
<1>6. ASSUME NEW p \in Operators, CreateAttendanceSession(p) \/ RescheduleMeeting(p) \/ CancelMeeting(p)
      PROVE  Typed'
  <2>1. /\ Release(p) /\ UNCHANGED <<now, enr, member, override, att, exam, begun>>
        /\ meeting' \in [Meetings -> Meeting]
        /\ \A m \in Meetings : MeetingStep(m)
    BY <1>6, CreateEffect, ChangeEffect
  <2> QED
    BY <1>2, <2>1, TeachingTyped DEF Teaching
<1>7. ASSUME NEW p \in Operators, SaveAttendanceRoster(p)
      PROVE  Typed'
  BY <1>2, <1>7, SaveEffect, TeachingTyped DEF Teaching
<1>8. ASSUME NEW p \in Operators, RecordExamResult(p)
      PROVE  Typed'
  <2>1. Release(p) /\ UNCHANGED <<now, enr, member, override, meeting, att, begun>>
    BY <1>8 DEF RecordExamResult
  <2>2. exam' \in [Runs -> [Employees -> BOOLEAN]]
    BY <1>2, <1>8 DEF RecordExamResult, Teaching
  <2>3. \A m \in Meetings : MeetingStep(m)
    BY <2>1 DEF MeetingStep
  <2> QED
    BY <1>2, <2>1, <2>2, <2>3, TeachingTyped DEF Teaching
<1>9. ASSUME NEW p \in Operators, Refuse(p) \/ AbortVictim(p)
      PROVE  Typed'
  <2>1. Release(p) /\ UNCHANGED <<now, begun, meeting, att, exam>>
    BY <1>9 DEF Refuse, AbortVictim, tables
  <2>2. Transacting'
    BY <1>2, <1>3, <2>1, ReleaseTyped
  <2> QED
    BY <1>1, <1>2, <2>1, <2>2 DEF Typed, Clock, Teaching
<1>10. CASE DeleteExamResult
  <2>1. exam' \in [Runs -> [Employees -> BOOLEAN]]
    BY <1>2, <1>10 DEF DeleteExamResult, Teaching
  <2> QED
    BY <1>1, <1>2, <1>10, <2>1, TransactingStays DEF DeleteExamResult, Typed, Clock, Teaching
<1>11. CASE Tick
  <2>1. now' \in Time
    BY <1>2, <1>11, EnglishAssumption DEF Tick, Clock, Time
  <2> QED
    BY <1>1, <1>2, <1>11, <2>1, TransactingStays DEF Tick, tables, Typed, Clock, Teaching
<1>12. CASE UNCHANGED vars
  BY <1>1, <1>2, <1>12, TransactingStays DEF vars, tables, Typed, Clock, Teaching
<1> QED
  BY <1>1, <1>4, <1>5, <1>6, <1>7, <1>8, <1>9, <1>10, <1>11, <1>12 DEF Next, Work

\* The tables and the transactions are well formed in every state.
LEMMA Invariance == Spec => [](Typed /\ Rosters)
<1>1. Init => Typed /\ Rosters
  BY InitTyped
<1>2. (Typed /\ Rosters) /\ [Next]_vars => (Typed /\ Rosters)'
  BY NextTyped
<1> QED
  BY <1>1, <1>2, PTL DEF Spec

-----------------------------------------------------------------------------
(* Theorems.                                                               *)

\* Type correctness of the canonical English operations, with every lock of a
\* row held by a transaction.
THEOREM Typing == Spec => []TypeOK
  BY Invariance, TypedOK, PTL

\* The unique index and the transfer's own check leave nobody active in two
\* runs, however transactions that read before they wait interleave.
THEOREM OneRun == Spec => []OneActiveRun
<1>1. Init => OneActiveRun
  BY DEF Init, OneActiveRun, NoEnrollment
<1>2. ASSUME Typed, Rosters, OneActiveRun, [Next]_vars
      PROVE  OneActiveRun'
  <2>0. Learning
    BY <1>2 DEF Typed
  <2>1. CASE UNCHANGED <<enr, member, override>>
    BY <1>2, <2>1 DEF OneActiveRun
  <2>2. ASSUME NEW p \in Operators, AddRunEnrollment(p)
        PROVE  OneActiveRun'
    <3> DEFINE q == op[p].req
               new == Enrolled(Len(Joined(CohortOf[q.run], q.emp, q.date)), q.number, None)
    <3>1. /\ q.run \in Runs /\ ~ ActiveElsewhere(q.emp)
          /\ \A r \in Runs, e \in Employees :
               enr'[r][e] = IF r = q.run /\ e = q.emp THEN new ELSE enr[r][e]
      BY <1>2, <2>2, JoinEffect
    <3> HIDE DEF new, q
    <3> QED
      BY <1>2, <3>1 DEF OneActiveRun, ActiveElsewhere
  <2>3. ASSUME NEW p \in Operators, LeaveRunEnrollment(p)
        PROVE  OneActiveRun'
    <3> DEFINE q == op[p].req
    <3>1. \A r \in Runs, e \in Employees :
            enr'[r][e] = IF r = q.run /\ e = q.emp THEN Closed(enr[r][e], "dropped") ELSE enr[r][e]
      BY <1>2, <2>3, LeaveEffect
    <3>2. \A r \in Runs, e \in Employees : Closed(enr[r][e], "dropped").status # "active"
      BY <2>0, ClosedRow DEF Learning
    <3> HIDE DEF q
    <3>3. \A r \in Runs, e \in Employees : enr'[r][e].status = "active" => enr[r][e].status = "active"
      BY <3>1, <3>2
    <3> QED
      BY <1>2, <3>3 DEF OneActiveRun
  <2>4. ASSUME NEW p \in Operators, TransferLearner(p)
        PROVE  OneActiveRun'
    <3> DEFINE q == op[p].req
               new == Enrolled(Len(Joined(CohortOf[q.run], q.emp, q.date)), q.number, q.from)
    <3>1. /\ \A r \in Runs \ {q.from} : enr[r][q.emp].status # "active"
          /\ \A r \in Runs, e \in Employees :
               enr'[r][e] = IF r = q.from /\ e = q.emp THEN Closed(enr[r][e], "transferred")
                            ELSE IF r = q.run /\ e = q.emp THEN new ELSE enr[r][e]
      BY <1>2, <2>4, TransferEffect
    <3>2. \A r \in Runs, e \in Employees : Closed(enr[r][e], "transferred").status # "active"
      BY <2>0, ClosedRow DEF Learning
    <3> HIDE DEF new, q
    <3>3. \A r \in Runs : enr'[r][q.emp].status = "active" /\ q.emp \in Employees => r = q.run
      BY <3>1, <3>2
    <3>4. \A r \in Runs, e \in Employees : e # q.emp => enr'[r][e] = enr[r][e]
      BY <3>1
    <3> QED
      BY <1>2, <3>3, <3>4 DEF OneActiveRun
  <2> QED
    BY <1>2, <2>1, <2>2, <2>3, <2>4, LearningChanges
<1> QED
  BY <1>1, <1>2, Invariance, PTL DEF Spec

\* Leaving and transferring close a membership with the last enrollment that
\* uses it, and no other operation leaves a member without a run.
THEOREM MembersUseRuns == Spec => []MembershipInUse
<1>1. Typed /\ Rosters => MembershipInUse
  <2> SUFFICES ASSUME Typed, Rosters, NEW c \in Cohorts, NEW e \in Employees
               PROVE  ActiveMember(c, e) <=> \E r \in Runs : CohortOf[r] = c /\ enr[r][e].status = "active"
    BY DEF MembershipInUse
  <2>1. ActiveMember(c, e) => \E r \in Runs : CohortOf[r] = c /\ enr[r][e].status = "active"
    BY DEF Rosters, InUse
  <2>2. ASSUME NEW r \in Runs, CohortOf[r] = c, enr[r][e].status = "active"
        PROVE  ActiveMember(c, e)
    BY <2>2 DEF Rosters, Uses, MembershipOf, ActiveMember
  <2> QED
    BY <2>1, <2>2
<1> QED
  BY <1>1, Invariance, PTL

-----------------------------------------------------------------------------
(* The same operations without the memberships.                            *)

\* Joining starts an enrollment where there is room.
LEMMA JoinedEnrollment ==
  ASSUME Typed, NEW p \in Operators, AddRunEnrollment(p)
  PROVE  \E run \in Runs, emp \in Employees, new \in Enrollment :
           /\ HasRoom(run) /\ enr[run][emp].status = "none" /\ new.status = "active"
           /\ UNCHANGED override
           /\ \A r \in Runs, e \in Employees :
                enr'[r][e] = IF r = run /\ e = emp THEN new ELSE enr[r][e]
<1> DEFINE q == op[p].req
           new == Enrolled(Len(Joined(CohortOf[q.run], q.emp, q.date)), q.number, None)
<1>1. /\ q.run \in Runs /\ q.emp \in Employees /\ new \in Enrollment
      /\ HasRoom(q.run) /\ enr[q.run][q.emp].status = "none" /\ UNCHANGED override
      /\ \A r \in Runs, e \in Employees :
           enr'[r][e] = IF r = q.run /\ e = q.emp THEN new ELSE enr[r][e]
  BY JoinEffect
<1>2. new.status = "active"
  BY DEF Enrolled
<1> HIDE DEF q, new
<1> QED
  BY <1>1, <1>2

\* A transfer closes one enrollment and starts another, which names the first.
LEMMA TransferredEnrollment ==
  ASSUME Typed, NEW p \in Operators, TransferLearner(p)
  PROVE  \E run \in Runs, from \in Runs, emp \in Employees, new \in Enrollment :
           /\ new.status = "active" /\ new.from = from
           /\ enr[from][emp].status = "active" /\ enr[run][emp].status = "none"
           /\ ~ ActiveMember(CohortOf[run], emp)
           /\ override' = [override EXCEPT ![CohortOf[run]] = @ \cup Overridden(CohortOf[run])]
           /\ \A r \in Runs, e \in Employees :
                enr'[r][e] = IF r = from /\ e = emp THEN Closed(enr[r][e], "transferred")
                             ELSE IF r = run /\ e = emp THEN new ELSE enr[r][e]
<1> DEFINE q == op[p].req
           new == Enrolled(Len(Joined(CohortOf[q.run], q.emp, q.date)), q.number, q.from)
<1>1. /\ q.run \in Runs /\ q.from \in Runs /\ q.emp \in Employees /\ new \in Enrollment
      /\ enr[q.from][q.emp].status = "active" /\ enr[q.run][q.emp].status = "none"
      /\ ~ ActiveMember(CohortOf[q.run], q.emp)
      /\ override' = [override EXCEPT ![CohortOf[q.run]] = @ \cup Overridden(CohortOf[q.run])]
      /\ \A r \in Runs, e \in Employees :
           enr'[r][e] = IF r = q.from /\ e = q.emp THEN Closed(enr[r][e], "transferred")
                        ELSE IF r = q.run /\ e = q.emp THEN new ELSE enr[r][e]
  BY TransferEffect
<1>2. new.status = "active" /\ new.from = q.from
  BY DEF Enrolled
<1> HIDE DEF q, new
<1> QED
  BY <1>1, <1>2

-----------------------------------------------------------------------------
(* Capacity.                                                               *)

\* The active learners of a run are members of its class.
LEMMA ActiveAreMembers ==
  ASSUME Rosters, NEW r \in Runs
  PROVE  ActiveIn(r) \subseteq Members(CohortOf[r])
  BY DEF Rosters, Uses, MembershipOf, ActiveIn, Members, ActiveMember

\* A run with fewer learners, in a class with no fewer approvals, stays within
\* its capacity.
LEMMA FewerFit ==
  ASSUME NEW S \in SUBSET Employees, NEW T \in SUBSET Employees, S \subseteq T,
         NEW A \in SUBSET Nat, NEW B, A \subseteq B,
         \E n \in A : Cardinality(T) <= n
  PROVE  \E n \in B : Cardinality(S) <= n
<1>1. IsFiniteSet(T)
  BY EnglishAssumption, FS_Subset
<1>2. IsFiniteSet(S) /\ Cardinality(S) <= Cardinality(T)
  BY <1>1, FS_Subset
<1>3. Cardinality(S) \in Nat /\ Cardinality(T) \in Nat
  BY <1>1, <1>2, FS_CardinalityType
<1> QED
  BY <1>2, <1>3

\* One learner more is one seat more.
LEMMA OneMore ==
  ASSUME NEW S \in SUBSET Employees, NEW T \in SUBSET Employees, S \subseteq T,
         NEW e \in Employees \ S
  PROVE  /\ Cardinality(S) \in Nat /\ Cardinality(T) \in Nat
         /\ Cardinality(S \cup {e}) = Cardinality(S) + 1
         /\ Cardinality(S \cup {e}) <= Cardinality(T) + 1
<1>1. IsFiniteSet(T)
  BY EnglishAssumption, FS_Subset
<1>2. IsFiniteSet(S) /\ Cardinality(S) <= Cardinality(T)
  BY <1>1, FS_Subset
<1>3. Cardinality(S) \in Nat /\ Cardinality(T) \in Nat
  BY <1>1, <1>2, FS_CardinalityType
<1>4. Cardinality(S \cup {e}) = Cardinality(S) + 1
  BY <1>2, FS_AddElement
<1> QED
  BY <1>2, <1>3, <1>4

\* A run is over the capacity of its class only if a transfer was approved at a
\* count as high: joining counts the run, transferring the class, and the
\* learners of a run are members of the class.
THEOREM Capacities == Spec => []CapacityApproved
<1>1. Init => CapacityApproved
  <2> SUFFICES ASSUME Init, NEW r \in Runs
               PROVE  \E n \in {Capacity[CohortOf[r]]} \cup override[CohortOf[r]] :
                        Cardinality(ActiveIn(r)) <= n
    BY DEF CapacityApproved
  <2>1. ActiveIn(r) = {}
    BY DEF Init, ActiveIn, NoEnrollment
  <2>2. Cardinality(ActiveIn(r)) = 0
    BY <2>1, FS_EmptySet
  <2>3. Capacity[CohortOf[r]] \in Nat
    BY EnglishAssumption
  <2> QED
    BY <2>2, <2>3
<1>2. ASSUME Typed, Rosters, CapacityApproved, [Next]_vars
      PROVE  CapacityApproved'
  <2> DEFINE Approved(r) == {Capacity[CohortOf[r]]} \cup override[CohortOf[r]]
  <2>0. /\ Learning
        /\ \A r \in Runs : CohortOf[r] \in Cohorts /\ Capacity[CohortOf[r]] \in Nat
        /\ \A r \in Runs : Approved(r) \in SUBSET Nat /\ ActiveIn(r) \in SUBSET Employees
    BY <1>2, EnglishAssumption DEF Typed, Learning, ActiveIn
  <2>1. \A r \in Runs : \E n \in Approved(r) : Cardinality(ActiveIn(r)) <= n
    BY <1>2 DEF CapacityApproved
  <2>2. ASSUME NEW r \in Runs, ActiveIn(r)' \subseteq ActiveIn(r),
               override[CohortOf[r]] \subseteq override'[CohortOf[r]]
        PROVE  \E n \in {Capacity[CohortOf[r]]} \cup override'[CohortOf[r]] :
                 Cardinality(ActiveIn(r)') <= n
    <3> DEFINE S == ActiveIn(r)'
               B == {Capacity[CohortOf[r]]} \cup override'[CohortOf[r]]
    <3>1. S \in SUBSET Employees /\ S \subseteq ActiveIn(r) /\ Approved(r) \subseteq B
      BY <2>0, <2>2
    <3> HIDE DEF S, B, Approved
    <3>2. \E n \in B : Cardinality(S) <= n
      BY <2>0, <2>1, <3>1, FewerFit
    <3> QED
      BY <3>2 DEF S, B
  <2>3. CASE UNCHANGED <<enr, member, override>>
    BY <1>2, <2>3 DEF CapacityApproved, ActiveIn
  <2>4. ASSUME NEW p \in Operators, AddRunEnrollment(p)
        PROVE  CapacityApproved'
    <3>1. PICK run \in Runs, emp \in Employees, new \in Enrollment :
            /\ HasRoom(run) /\ enr[run][emp].status = "none" /\ new.status = "active"
            /\ UNCHANGED override
            /\ \A r \in Runs, e \in Employees :
                 enr'[r][e] = IF r = run /\ e = emp THEN new ELSE enr[r][e]
      BY <1>2, <2>4, JoinedEnrollment
    <3>2. \A r \in Runs : r # run => ActiveIn(r)' = ActiveIn(r)
      BY <3>1 DEF ActiveIn
    <3>3. ActiveIn(run)' = ActiveIn(run) \cup {emp} /\ emp \notin ActiveIn(run)
      BY <3>1 DEF ActiveIn
    <3>4. Cardinality(ActiveIn(run)') <= Capacity[CohortOf[run]]
      <4>1. /\ Cardinality(ActiveIn(run)) \in Nat
            /\ Cardinality(ActiveIn(run) \cup {emp}) = Cardinality(ActiveIn(run)) + 1
        BY <2>0, <3>3, OneMore
      <4>2. Cardinality(ActiveIn(run)) < Capacity[CohortOf[run]] /\ Capacity[CohortOf[run]] \in Nat
        BY <2>0, <3>1 DEF HasRoom
      <4>3. Cardinality(ActiveIn(run)') = Cardinality(ActiveIn(run)) + 1
        BY <3>3, <4>1
      <4> QED
        BY <4>1, <4>2, <4>3
    <3> QED
      BY <2>2, <3>1, <3>2, <3>4 DEF CapacityApproved
  <2>5. ASSUME NEW p \in Operators, LeaveRunEnrollment(p)
        PROVE  CapacityApproved'
    <3> DEFINE q == op[p].req
    <3>1. /\ UNCHANGED override
          /\ \A r \in Runs, e \in Employees :
               enr'[r][e] = IF r = q.run /\ e = q.emp THEN Closed(enr[r][e], "dropped") ELSE enr[r][e]
      BY <1>2, <2>5, LeaveEffect
    <3>2. \A r \in Runs, e \in Employees : Closed(enr[r][e], "dropped").status # "active"
      BY <2>0, ClosedRow DEF Learning
    <3> HIDE DEF q
    <3>3. \A r \in Runs : ActiveIn(r)' \subseteq ActiveIn(r)
      BY <3>1, <3>2 DEF ActiveIn
    <3> QED
      BY <2>2, <3>1, <3>3 DEF CapacityApproved
  <2>6. ASSUME NEW p \in Operators, TransferLearner(p)
        PROVE  CapacityApproved'
    <3>1. PICK run \in Runs, from \in Runs, emp \in Employees, new \in Enrollment :
            /\ new.status = "active" /\ ~ ActiveMember(CohortOf[run], emp)
            /\ override' = [override EXCEPT ![CohortOf[run]] = @ \cup Overridden(CohortOf[run])]
            /\ \A r \in Runs, e \in Employees :
                 enr'[r][e] = IF r = from /\ e = emp THEN Closed(enr[r][e], "transferred")
                              ELSE IF r = run /\ e = emp THEN new ELSE enr[r][e]
      BY <1>2, <2>6, TransferredEnrollment
    <3>2. \A r \in Runs, e \in Employees : Closed(enr[r][e], "transferred").status # "active"
      BY <2>0, ClosedRow DEF Learning
    <3> DEFINE d == CohortOf[run]
    <3>3. d \in Cohorts /\ Capacity[d] \in Nat
      BY <2>0
    <3>4. \A r \in Runs : r # run => ActiveIn(r)' \subseteq ActiveIn(r)
      BY <3>1, <3>2 DEF ActiveIn
    <3>5. ActiveIn(run)' \subseteq ActiveIn(run) \cup {emp}
      BY <3>1, <3>2 DEF ActiveIn
    <3>6. \A c \in Cohorts : override[c] \subseteq override'[c]
      BY <2>0, <3>1 DEF Learning
    <3>7. Overridden(d) \subseteq override'[d]
      BY <2>0, <3>1 DEF Learning
    <3>8. ActiveIn(run) \subseteq Members(d) /\ emp \notin Members(d)
      BY <1>2, <3>1, ActiveAreMembers DEF Members
    <3> HIDE DEF d
    <3>9. \E n \in {Capacity[d]} \cup override'[d] : Cardinality(ActiveIn(run)') <= n
      <4> DEFINE S == ActiveIn(run)'
                 T == Members(d) \cup {emp}
      <4>1. Members(d) \in SUBSET Employees /\ emp \in Employees \ Members(d)
        BY <3>8 DEF Members
      <4>2. S \subseteq T /\ S \in SUBSET Employees /\ T \in SUBSET Employees
        BY <3>5, <3>8, <4>1
      <4>3. Cardinality(T) = Cardinality(Members(d)) + 1 /\ Cardinality(Members(d)) \in Nat
        BY <4>1, OneMore
      <4> HIDE DEF S, T
      <4>4. Cardinality(T) = Resulting(d) /\ Resulting(d) \in Nat
        BY <4>3 DEF Resulting
      <4>5. \E n \in {Resulting(d)} : Cardinality(S) <= n
        <5> DEFINE A == {Resulting(d)}
        <5>1. A \in SUBSET Nat /\ \E n \in A : Cardinality(T) <= n
          BY <4>4
        <5> HIDE DEF A
        <5>2. \E n \in A : Cardinality(S) <= n
          BY <4>2, <5>1, FewerFit
        <5> QED
          BY <5>2 DEF A
      <4>6. Cardinality(S) \in Nat
        BY <4>2, EnglishAssumption, FS_Subset, FS_CardinalityType
      <4>7. CASE Resulting(d) > Capacity[d]
        BY <3>7, <4>5, <4>7 DEF Overridden, S
      <4>8. CASE Resulting(d) <= Capacity[d]
        BY <3>3, <4>4, <4>5, <4>6, <4>8 DEF S
      <4> QED
        BY <3>3, <4>4, <4>7, <4>8
    <3>10. ASSUME NEW r \in Runs
           PROVE  \E n \in {Capacity[CohortOf[r]]} \cup override'[CohortOf[r]] :
                    Cardinality(ActiveIn(r)') <= n
      <4>1. CASE r = run
        BY <3>9, <4>1 DEF d
      <4>2. CASE r # run
        BY <2>0, <2>2, <3>4, <3>6, <4>2
      <4> QED
        BY <4>1, <4>2
    <3> QED
      BY <3>10 DEF CapacityApproved
  <2> QED
    BY <1>2, <2>3, <2>4, <2>5, <2>6, LearningChanges
<1> QED
  BY <1>1, <1>2, Invariance, PTL DEF Spec

-----------------------------------------------------------------------------
(* The chain of a transfer.                                                *)

\* The enrollments that name a source, and the whole of what the transfers leave.
Targets(s, e) == {r \in Runs : enr[r][e].status # "none" /\ enr[r][e].from = s}

Chained ==
    \A e \in Employees, s \in Runs :
        IF enr[s][e].status = "transferred" THEN \E t \in Runs : Targets(s, e) = {t}
        ELSE Targets(s, e) = {}

\* A step that neither transfers nor names a source keeps the chain.
LEMMA ChainKept ==
  ASSUME Chained,
         \A s \in Runs, e \in Employees :
             /\ enr'[s][e].status = "transferred" <=> enr[s][e].status = "transferred"
             /\ Targets(s, e)' = Targets(s, e)
  PROVE  Chained'
  BY DEF Chained

\* Every step keeps it; a transfer adds a link at an enrollment that was active.
LEMMA ChainStep ==
  ASSUME Typed, Chained, [Next]_vars
  PROVE  Chained'
<1>0. Learning
  BY DEF Typed
<1>1. CASE UNCHANGED <<enr, member, override>>
  BY <1>1, ChainKept DEF Targets
<1>2. ASSUME NEW p \in Operators, AddRunEnrollment(p)
      PROVE  Chained'
  <2> DEFINE q == op[p].req
             new == Enrolled(Len(Joined(CohortOf[q.run], q.emp, q.date)), q.number, None)
  <2>1. /\ enr[q.run][q.emp].status = "none"
        /\ \A r \in Runs, e \in Employees :
             enr'[r][e] = IF r = q.run /\ e = q.emp THEN new ELSE enr[r][e]
    BY <1>2, JoinEffect
  <2>2. new.status = "active" /\ new.from = None
    BY DEF Enrolled
  <2> HIDE DEF new, q
  <2>3. ASSUME NEW s \in Runs, NEW e \in Employees
        PROVE  /\ enr'[s][e].status = "transferred" <=> enr[s][e].status = "transferred"
               /\ Targets(s, e)' = Targets(s, e)
    <3>1. s # None
      BY EnglishAssumption
    <3>2. \A r \in Runs : (enr'[r][e].status # "none" /\ enr'[r][e].from = s)
                             <=> (enr[r][e].status # "none" /\ enr[r][e].from = s)
      BY <2>1, <2>2, <3>1
    <3> QED
      BY <2>1, <2>2, <3>2 DEF Targets
  <2> QED
    BY <2>3, ChainKept
<1>3. ASSUME NEW p \in Operators, LeaveRunEnrollment(p)
      PROVE  Chained'
  <2> DEFINE q == op[p].req
  <2>1. /\ enr[q.run][q.emp].status = "active"
        /\ \A r \in Runs, e \in Employees :
             enr'[r][e] = IF r = q.run /\ e = q.emp THEN Closed(enr[r][e], "dropped") ELSE enr[r][e]
    BY <1>3, LeaveEffect
  <2>2. \A r \in Runs, e \in Employees :
          Closed(enr[r][e], "dropped").status = "dropped" /\ Closed(enr[r][e], "dropped").from = enr[r][e].from
    BY <1>0, ClosedRow DEF Learning
  <2> HIDE DEF q
  <2>3. \A r \in Runs, e \in Employees :
          /\ enr'[r][e].status = "transferred" <=> enr[r][e].status = "transferred"
          /\ enr'[r][e].status = "none" <=> enr[r][e].status = "none"
          /\ enr'[r][e].from = enr[r][e].from
    BY <2>1, <2>2
  <2>4. \A s \in Runs, e \in Employees : Targets(s, e)' = Targets(s, e)
    BY <2>3 DEF Targets
  <2> QED
    BY <2>3, <2>4, ChainKept
<1>4. ASSUME NEW p \in Operators, TransferLearner(p)
      PROVE  Chained'
  <2>1. PICK run \in Runs, from \in Runs, emp \in Employees, new \in Enrollment :
          /\ new.status = "active" /\ new.from = from
          /\ enr[from][emp].status = "active" /\ enr[run][emp].status = "none"
          /\ \A r \in Runs, e \in Employees :
               enr'[r][e] = IF r = from /\ e = emp THEN Closed(enr[r][e], "transferred")
                            ELSE IF r = run /\ e = emp THEN new ELSE enr[r][e]
    BY <1>4, TransferredEnrollment
  <2>2. \A r \in Runs, e \in Employees :
          /\ Closed(enr[r][e], "transferred").status = "transferred"
          /\ Closed(enr[r][e], "transferred").from = enr[r][e].from
    BY <1>0, ClosedRow DEF Learning
  <2>3. \A r \in Runs, e \in Employees :
          /\ enr'[r][e].status = "transferred" <=>
               (enr[r][e].status = "transferred" \/ (r = from /\ e = emp))
          /\ enr'[r][e].status # "none" <=> (enr[r][e].status # "none" \/ (r = run /\ e = emp))
          /\ enr'[r][e].from = IF r = run /\ e = emp THEN from ELSE enr[r][e].from
    BY <2>1, <2>2
  <2>4. ASSUME NEW s \in Runs, NEW e \in Employees, ~ (s = from /\ e = emp)
        PROVE  Targets(s, e)' = Targets(s, e)
    <3>1. \A r \in Runs : (enr'[r][e].status # "none" /\ enr'[r][e].from = s)
                             <=> (enr[r][e].status # "none" /\ enr[r][e].from = s)
      BY <2>1, <2>3, <2>4
    <3> QED
      BY <3>1 DEF Targets
  <2>5. Targets(from, emp) = {}
    BY <2>1 DEF Chained
  <2>6. Targets(from, emp)' = {run}
    BY <2>1, <2>3, <2>5 DEF Targets
  <2>7. ASSUME NEW e \in Employees, NEW s \in Runs
        PROVE  IF enr'[s][e].status = "transferred" THEN \E t \in Runs : Targets(s, e)' = {t}
               ELSE Targets(s, e)' = {}
    <3>1. CASE s = from /\ e = emp
      BY <2>3, <2>6, <3>1
    <3>2. CASE ~ (s = from /\ e = emp)
      BY <2>3, <2>4, <3>2 DEF Chained
    <3> QED
      BY <3>1, <3>2
  <2> QED
    BY <2>7 DEF Chained
<1> QED
  BY <1>1, <1>2, <1>3, <1>4, LearningChanges

\* A source that was transferred names one target, and no other enrollment is a
\* source, whatever the other transfers of the learner did.
THEOREM OneChain == Spec => []TransferChain
<1>1. Init => Chained
  BY DEF Init, Chained, Targets, NoEnrollment
<1>2. Typed /\ Chained /\ [Next]_vars => Chained'
  BY ChainStep
<1>3. Chained => TransferChain
  <2> SUFFICES ASSUME Chained, NEW e \in Employees, NEW s \in Runs
               PROVE  enr[s][e].status = "transferred" <=> Cardinality(Targets(s, e)) = 1
    BY DEF TransferChain, Targets
  <2>1. Cardinality({}) = 0 /\ \A t \in Runs : Cardinality({t}) = 1
    BY FS_EmptySet, FS_Singleton
  <2>2. CASE enr[s][e].status = "transferred"
    BY <2>1, <2>2 DEF Chained
  <2>3. CASE enr[s][e].status # "transferred"
    <3>1. Targets(s, e) = {}
      BY <2>3 DEF Chained
    <3> QED
      BY <2>1, <2>3, <3>1
  <2> QED
    BY <2>2, <2>3
<1> QED
  BY <1>1, <1>2, <1>3, Invariance, PTL DEF Spec

-----------------------------------------------------------------------------
(* Row locks.                                                              *)

\* What any step does to a meeting.
LEMMA MeetingSteps ==
  ASSUME Typed, [Next]_vars, NEW m \in Meetings
  PROVE  MeetingStep(m)
<1>1. CASE UNCHANGED meeting
  BY <1>1 DEF MeetingStep
<1>2. CASE \E p \in Operators : \/ CreateAttendanceSession(p) \/ RescheduleMeeting(p)
                                \/ CancelMeeting(p) \/ SaveAttendanceRoster(p)
  BY <1>2, CreateEffect, ChangeEffect, SaveEffect
<1>3. ASSUME NEW p \in Operators, Begin(p) \/ Lock(p) \/ Work(p),
             ~ (\/ CreateAttendanceSession(p) \/ RescheduleMeeting(p)
                \/ CancelMeeting(p) \/ SaveAttendanceRoster(p))
      PROVE  UNCHANGED meeting
  BY <1>3 DEF Begin, Lock, Work, Confirm, AddRunEnrollment, LeaveRunEnrollment, TransferLearner,
     LeaveSlot, LockRoster, RecordExamResult, Refuse, AbortVictim, tables
<1>4. DeleteExamResult \/ Tick \/ UNCHANGED vars => UNCHANGED meeting
  BY DEF DeleteExamResult, Tick, vars, tables
<1> QED
  BY <1>1, <1>2, <1>3, <1>4 DEF Next

\* A meeting stays in its run and keeps its number.
LEMMA RunStays ==
  ASSUME Typed, [Next]_vars, NEW m \in Meetings, meeting[m].status # "free"
  PROVE  meeting'[m].run = meeting[m].run /\ meeting'[m].number = meeting[m].number
<1>1. meeting[m] \in Meeting /\ meeting[m] # NoMeeting
  BY DEF Typed, Teaching, NoMeeting
<1> QED
  BY <1>1, MeetingSteps, HeldRow, MovedRow DEF MeetingStep

\* The rows that a request takes first stay the same.
LEMMA RowsStay ==
  ASSUME Typed, [Next]_vars, NEW q \in Request, Loaded(q)
  PROVE  Rows(q)' = Rows(q)
<1>1. q.kind = "save" => meeting'[q.meeting].run = meeting[q.meeting].run
  BY MeetingFields, RunStays DEF Loaded
<1> QED
  BY <1>1, LearnerFields DEF Rows, RunRows

\* No slot is among them.
LEMMA NoSlots ==
  ASSUME Typed, NEW q \in Request, Loaded(q)
  PROVE  /\ Rows(q) \in Seq(Lockable) /\ Len(Rows(q)) \in Nat \ {0}
         /\ \A i \in 1 .. Len(Rows(q)) : Rows(q)[i] \in Lockable \ SlotRows
<1>1. q.kind = "save" => meeting[q.meeting].run \in Runs
  BY MeetingFields DEF Loaded, Typed, Teaching
<1>2. /\ q.kind \in {"join", "leave", "transfer", "create"} => CohortOf[q.run] \in Cohorts
      /\ q.kind = "transfer" => CohortOf[q.from] \in Cohorts /\ <<q.from, q.emp>> \in Runs \X Employees
      /\ q.kind \in {"leave", "exam"} => <<q.run, q.emp>> \in Runs \X Employees
      /\ q.kind \in {"move", "cancel", "save"} => q.meeting \in Meetings /\ UnitRow(q.meeting) \in UnitRows
      /\ q.kind = "save" => CohortOf[meeting[q.meeting].run] \in Cohorts
  BY <1>1, LearnerFields, MeetingFields, Lockables
<1>3. Rows(q) \in Seq(Lockable) /\ Len(Rows(q)) > 0
  BY <1>1, SomeRows
<1>4. ASSUME NEW i \in 1 .. Len(Rows(q))
      PROVE  Rows(q)[i] \in Cohorts \cup Meetings \cup UnitRows \cup (Runs \X Employees)
  <2>1. i = 1 \/ i = 2 \/ i = 3
    <3>1. PICK n \in {1, 2, 3} : Len(Rows(q)) = n
      BY <1>1, SomeRows
    <3> QED
      BY <3>1
  <2> QED
    BY <1>1, <1>2, <2>1, LearnerFields, LearnerRows, MeetingRows DEF Takes
<1> QED
  BY <1>3, <1>4, RowKinds DEF Lockable

\* Transaction p has taken its first rows up to some place, those and no others,
\* and wants the rest.
Taking(p, q, w) ==
    \E n \in 0 .. Len(Rows(q)) :
        /\ Len(w) = Len(Rows(q)) - n
        /\ \A i \in 1 .. Len(w) : w[i] = Rows(q)[n + i]
        /\ \A x \in Lockable : owner[x] = p <=> \E i \in 1 .. n : x = Rows(q)[i]

\* It has them all. A join waits for an enrollment, with a class at most; a new
\* session, with its class, for its entry of the run's index and then for that
\* of all meetings; a meeting that moves for entries, with the meeting, its unit
\* and entries; a roster for enrollments of its run, whose class and meeting it
\* holds.
Holding(p, q, w) ==
    \/ /\ q.kind \in {"join", "transfer"}
       /\ w # <<>> =>
            /\ q.kind = "join" /\ Len(w) = 1 /\ w[1] \in Runs \X Employees
            /\ \A x \in Lockable : owner[x] = p => x \in Cohorts
    \/ /\ q.kind = "create" /\ owner[CohortOf[q.run]] = p
       /\ \/ w = Entries(q.run, q.at) /\ \A x \in Lockable : owner[x] = p => x \in Cohorts
          \/ /\ w = <<SlotRow(None, q.at)>>
             /\ \A x \in Lockable : owner[x] = p => x \in Cohorts \cup {SlotRow(q.run, q.at)}
          \/ w = <<>>
    \/ /\ q.kind = "move" /\ owner[q.meeting] = p
       /\ \A i \in 1 .. Len(w) : w[i] \in SlotRows
       /\ \A x \in Lockable : owner[x] = p => x \in {q.meeting, UnitRow(q.meeting)} \cup SlotRows
    \/ /\ q.kind = "save" /\ owner[q.meeting] = p /\ owner[CohortOf[meeting[q.meeting].run]] = p
       /\ \A i \in 1 .. Len(w) : w[i] \in {meeting[q.meeting].run} \X Employees
       /\ \A x \in Lockable : owner[x] = p =>
            x \in Cohorts \cup {q.meeting, UnitRow(q.meeting)} \cup ({meeting[q.meeting].run} \X Employees)

\* What a transaction holds, whatever its request and the rows it wants.
Locking(p) ==
    /\ op[p] = Idle => \A x \in Lockable : owner[x] # p
    /\ \A q \in Request, w \in Seq(Lockable) :
         (op[p] # Idle /\ op[p].req = q /\ op[p].want = w) =>
            /\ op[p].step = "lock" => Taking(p, q, w)
            /\ op[p].step = "write" => Holding(p, q, w)

\* Others' steps leave a transaction's first rows its own; an entry it has taken
\* is more than it is asked to keep.
LEMMA TakingKept ==
  ASSUME Typed, [Next]_vars, NEW o \in Operators, NEW q \in Request, Loaded(q), NEW w \in Seq(Lockable),
         \A x \in Lockable : owner'[x] = o => owner[x] = o,
         \A x \in Lockable \ SlotRows : owner[x] = o => owner'[x] = o
  PROVE  /\ Taking(o, q, w) => Taking(o, q, w)'
         /\ Holding(o, q, w) => Holding(o, q, w)'
<1>1. Taking(o, q, w) => Taking(o, q, w)'
  <2> SUFFICES ASSUME Taking(o, q, w) PROVE Taking(o, q, w)'
    OBVIOUS
  <2>1. PICK n \in 0 .. Len(Rows(q)) :
          /\ Len(w) = Len(Rows(q)) - n
          /\ \A i \in 1 .. Len(w) : w[i] = Rows(q)[n + i]
          /\ \A x \in Lockable : owner[x] = o <=> \E i \in 1 .. n : x = Rows(q)[i]
    BY DEF Taking
  <2>2. PICK rows : rows = Rows(q)
    OBVIOUS
  <2>3. Rows(q)' = rows
    BY <2>2, RowsStay
  <2>4. Len(rows) \in Nat /\ \A i \in 1 .. n : rows[i] \in Lockable \ SlotRows
    BY <2>1, <2>2, NoSlots
  <2>5. \A x \in Lockable : owner'[x] = o <=> \E i \in 1 .. n : x = rows[i]
    BY <2>1, <2>2, <2>4
  <2>6. n \in 0 .. Len(rows) /\ Len(w) = Len(rows) - n /\ \A i \in 1 .. Len(w) : w[i] = rows[n + i]
    BY <2>1, <2>2
  <2> QED
    BY <2>3, <2>5, <2>6 DEF Taking
<1>2. Holding(o, q, w) => Holding(o, q, w)'
  <2>1. /\ q.kind \in {"move", "save"} => q.meeting \in Lockable \ SlotRows
        /\ q.kind = "create" => CohortOf[q.run] \in Lockable \ SlotRows
        /\ q.kind = "save" =>
             /\ meeting'[q.meeting].run = meeting[q.meeting].run
             /\ CohortOf[meeting[q.meeting].run] \in Lockable \ SlotRows
    <3>1. \A x \in Cohorts \cup Meetings : x \in Lockable \ SlotRows
      BY RowKinds DEF Lockable
    <3>2. /\ q.kind \in {"move", "save"} => q.meeting \in Meetings
          /\ q.kind = "create" => CohortOf[q.run] \in Cohorts
      BY MeetingFields, Lockables
    <3>3. q.kind = "save" =>
            /\ meeting[q.meeting].run \in Runs
            /\ meeting'[q.meeting].run = meeting[q.meeting].run
      BY <3>2, RunStays DEF Loaded, Typed, Teaching
    <3> QED
      BY <3>1, <3>2, <3>3, Lockables
  <2>2. CASE q.kind \in {"join", "transfer"}
    BY <2>2 DEF Holding
  <2>5. CASE q.kind = "create"
    BY <2>1, <2>5 DEF Holding
  <2>3. CASE q.kind = "move"
    BY <2>1, <2>3 DEF Holding
  <2>4. CASE q.kind = "save"
    BY <2>1, <2>4 DEF Holding
  <2> QED
    BY <2>2, <2>3, <2>4, <2>5 DEF Holding
<1> QED
  BY <1>1, <1>2

\* A transaction that does not move.
LEMMA LockingKept ==
  ASSUME Typed, [Next]_vars, NEW o \in Operators, Locking(o), op'[o] = op[o],
         \A x \in Lockable : owner'[x] = o => owner[x] = o,
         \A x \in Lockable \ SlotRows : owner[x] = o => owner'[x] = o
  PROVE  Locking(o)'
<1>1. op'[o] = Idle => \A x \in Lockable : owner'[x] # o
  BY DEF Locking
<1>2. ASSUME NEW q \in Request, NEW w \in Seq(Lockable),
             op'[o] # Idle, op'[o].req = q, op'[o].want = w
      PROVE  /\ op'[o].step = "lock" => Taking(o, q, w)'
             /\ op'[o].step = "write" => Holding(o, q, w)'
  <2>1. Loaded(q)
    BY <1>2, InTx DEF Typed
  <2>2. /\ op[o].step = "lock" => Taking(o, q, w)
        /\ op[o].step = "write" => Holding(o, q, w)
    BY <1>2 DEF Locking
  <2> QED
    BY <2>1, <2>2, TakingKept
<1> QED
  BY <1>1, <1>2 DEF Locking

\* One that moves, by what it holds then.
LEMMA LockingMoves ==
  ASSUME NEW p \in Operators, NEW q, NEW w,
         op'[p] # Idle, op'[p].req = q, op'[p].want = w,
         op'[p].step = "lock" => Taking(p, q, w)',
         op'[p].step = "write" => Holding(p, q, w)'
  PROVE  Locking(p)'
  BY DEF Locking

\* One that ends.
LEMMA LockingReleased ==
  ASSUME Typed, [Next]_vars, \A o \in Operators : Locking(o), NEW p \in Operators, Release(p)
  PROVE  \A o \in Operators : Locking(o)'
<1>1. /\ op' = [op EXCEPT ![p] = Idle] /\ DOMAIN op = Operators
      /\ \A x \in Lockable : owner'[x] = IF owner[x] = p THEN None ELSE owner[x]
  BY DEF Release, Typed, Transacting
<1>2. \A o \in Operators : o # None
  BY EnglishAssumption
<1>3. op'[p] = Idle /\ \A x \in Lockable : owner'[x] # p
  BY <1>1, <1>2
<1>4. Locking(p)'
  BY <1>3 DEF Locking
<1>5. ASSUME NEW o \in Operators, o # p
      PROVE  Locking(o)'
  <2>1. op'[o] = op[o] /\ \A x \in Lockable : owner'[x] = o <=> owner[x] = o
    BY <1>1, <1>2, <1>5
  <2> QED
    BY <2>1, LockingKept
<1> QED
  BY <1>4, <1>5

\* One that begins, with its first row or before it.
LEMMA LockingBegin ==
  ASSUME Typed, [Next]_vars, \A o \in Operators : Locking(o), NEW p \in Operators, Begin(p)
  PROVE  \A o \in Operators : Locking(o)'
<1>0. /\ Clock /\ Teaching /\ owner \in [Lockable -> Operators \cup {None}] /\ DOMAIN op = Operators
      /\ \A o \in Operators : o # None
  BY EnglishAssumption DEF Typed, Transacting
<1>1. PICK k \in Kinds : \E q \in Offered(k) :
        /\ op' = [op EXCEPT ![p] =
               [step |-> "lock", req |-> q, seen |-> Counts(q),
                want |-> IF owner[Head(Rows(q))] = None THEN Tail(Rows(q)) ELSE Rows(q)]]
        /\ owner' = IF owner[Head(Rows(q))] = None THEN [owner EXCEPT ![Head(Rows(q))] = p]
                    ELSE owner
  BY DEF Begin
<1>2. PICK q \in Offered(k) :
        /\ op' = [op EXCEPT ![p] =
               [step |-> "lock", req |-> q, seen |-> Counts(q),
                want |-> IF owner[Head(Rows(q))] = None THEN Tail(Rows(q)) ELSE Rows(q)]]
        /\ owner' = IF owner[Head(Rows(q))] = None THEN [owner EXCEPT ![Head(Rows(q))] = p]
                    ELSE owner
  BY <1>1
<1>3. q \in Request /\ Loaded(q)
  BY <1>0, OfferedRequest
<1>4. PICK rows : rows = Rows(q)
  OBVIOUS
<1>5. Rows(q)' = rows
  BY <1>3, <1>4, RowsStay
<1>6. /\ rows \in Seq(Lockable) /\ Len(rows) \in Nat \ {0}
      /\ Head(rows) = rows[1] /\ rows[1] \in Lockable \ SlotRows
      /\ Len(Tail(rows)) = Len(rows) - 1
      /\ \A i \in 1 .. Len(rows) - 1 : Tail(rows)[i] = rows[i + 1]
  <2>1. /\ rows \in Seq(Lockable) /\ Len(rows) \in Nat \ {0}
        /\ \A i \in 1 .. Len(rows) : rows[i] \in Lockable \ SlotRows
    BY <1>3, <1>4, NoSlots
  <2> QED
    BY <2>1
<1>7. PICK w : w = IF owner[rows[1]] = None THEN Tail(rows) ELSE rows
  OBVIOUS
<1>8. op[p] = Idle /\ \A x \in Lockable : owner[x] # p
  BY DEF Begin, Locking
<1>9. /\ op'[p] # Idle /\ op'[p].step = "lock" /\ op'[p].req = q /\ op'[p].want = w
      /\ \A o \in Operators \ {p} : op'[o] = op[o]
  BY <1>0, <1>2, <1>4, <1>6, <1>7 DEF Idle
<1>10. owner' = IF owner[rows[1]] = None THEN [owner EXCEPT ![rows[1]] = p] ELSE owner
  BY <1>2, <1>4, <1>6
<1>11. ASSUME NEW o \in Operators, o # p
       PROVE  Locking(o)'
  <2>1. \A x \in Lockable : owner'[x] = o <=> owner[x] = o
    BY <1>0, <1>6, <1>10, <1>11
  <2> QED
    BY <1>9, <1>11, <2>1, LockingKept
<1>12. Taking(p, q, w)'
  <2>1. CASE owner[rows[1]] = None
    <3>1. \A x \in Lockable : owner'[x] = p <=> \E i \in 1 .. 1 : x = rows[i]
      BY <1>0, <1>6, <1>8, <1>10, <2>1
    <3>2. Len(w) = Len(rows) - 1 /\ \A i \in 1 .. Len(w) : w[i] = rows[1 + i]
      BY <1>6, <1>7, <2>1
    <3>3. 1 \in 0 .. Len(rows)
      BY <1>6
    <3> QED
      BY <1>5, <3>1, <3>2, <3>3 DEF Taking
  <2>2. CASE owner[rows[1]] # None
    <3>1. \A x \in Lockable : owner'[x] = p <=> \E i \in 1 .. 0 : x = rows[i]
      BY <1>8, <1>10, <2>2
    <3>2. w = rows /\ Len(w) = Len(rows) - 0 /\ \A i \in 1 .. Len(w) : w[i] = rows[0 + i]
      BY <1>6, <1>7, <2>2
    <3>3. 0 \in 0 .. Len(rows)
      BY <1>6
    <3> QED
      BY <1>5, <3>1, <3>2, <3>3 DEF Taking
  <2> QED
    BY <2>1, <2>2
<1>13. Locking(p)'
  BY <1>9, <1>12, LockingMoves
<1> QED
  BY <1>11, <1>13

\* The rows that are left when the next one is taken.
LEMMA OneTaken ==
  ASSUME Typed, [Next]_vars, NEW p \in Operators, NEW q \in Request, Loaded(q),
         NEW w \in Seq(Lockable), w # <<>>,
         \A x \in Lockable : owner'[x] = p <=> (owner[x] = p \/ x = Head(w))
  PROVE  /\ Taking(p, q, w) => Taking(p, q, Tail(w))'
         /\ Holding(p, q, w) => Holding(p, q, Tail(w))'
<1>0. /\ Len(w) \in Nat \ {0} /\ Head(w) = w[1] /\ w[1] \in Lockable
      /\ Tail(w) \in Seq(Lockable) /\ Len(Tail(w)) = Len(w) - 1
      /\ \A i \in 1 .. Len(w) - 1 : Tail(w)[i] = w[i + 1]
  OBVIOUS
<1>1. PICK v : v = Tail(w)
  OBVIOUS
<1>2. /\ v \in Seq(Lockable) /\ Len(v) = Len(w) - 1
      /\ \A i \in 1 .. Len(w) - 1 : v[i] = w[i + 1]
  BY <1>0, <1>1
<1>3. Taking(p, q, w) => Taking(p, q, v)'
  <2> SUFFICES ASSUME Taking(p, q, w) PROVE Taking(p, q, v)'
    OBVIOUS
  <2>1. PICK n \in 0 .. Len(Rows(q)) :
          /\ Len(w) = Len(Rows(q)) - n
          /\ \A i \in 1 .. Len(w) : w[i] = Rows(q)[n + i]
          /\ \A x \in Lockable : owner[x] = p <=> \E i \in 1 .. n : x = Rows(q)[i]
    BY DEF Taking
  <2>2. PICK rows : rows = Rows(q)
    OBVIOUS
  <2>3. Rows(q)' = rows
    BY <2>2, RowsStay
  <2>4. Len(rows) \in Nat /\ n \in Nat
    BY <2>1, <2>2, NoSlots
  <2>5. PICK k \in Nat : k = n + 1
    BY <2>4
  <2>6. k \in 0 .. Len(rows) /\ Len(v) = Len(rows) - k
    BY <1>0, <1>2, <2>1, <2>2, <2>4, <2>5
  <2>7. \A i \in 1 .. Len(v) : v[i] = rows[k + i]
    <3> SUFFICES ASSUME NEW i \in 1 .. Len(v) PROVE v[i] = rows[k + i]
      OBVIOUS
    <3>1. i \in 1 .. Len(w) - 1 /\ i + 1 \in 1 .. Len(w) /\ n + (i + 1) = k + i
      BY <1>0, <1>2, <2>4, <2>5
    <3>2. v[i] = w[i + 1]
      BY <1>2, <3>1
    <3>3. w[i + 1] = rows[n + (i + 1)]
      BY <2>1, <2>2, <3>1
    <3> QED
      BY <3>1, <3>2, <3>3
  <2>8. w[1] = rows[k]
    <3>1. 1 \in 1 .. Len(w)
      BY <1>0
    <3> QED
      BY <2>1, <2>2, <2>5, <3>1
  <2>9. \A x \in Lockable : owner'[x] = p <=> \E i \in 1 .. k : x = rows[i]
    <3>1. \A i : i \in 1 .. k <=> (i \in 1 .. n \/ i = k)
      BY <2>4, <2>5
    <3> QED
      BY <1>0, <2>1, <2>2, <2>8, <3>1
  <2> QED
    BY <2>3, <2>6, <2>7, <2>9 DEF Taking
<1>4. Holding(p, q, w) => Holding(p, q, v)'
  <2> SUFFICES ASSUME Holding(p, q, w) PROVE Holding(p, q, v)'
    OBVIOUS
  <2>1. /\ q.kind \in {"move", "save"} => q.meeting \in Lockable
        /\ q.kind = "create" => CohortOf[q.run] \in Lockable
        /\ q.kind = "save" =>
             /\ meeting'[q.meeting].run = meeting[q.meeting].run
             /\ CohortOf[meeting[q.meeting].run] \in Lockable
    BY MeetingFields, RunStays, Lockables DEF Loaded, Typed, Teaching
  <2>2. Len(w) = 1 => v = <<>>
    BY <1>2
  <2>3. CASE q.kind \in {"join", "transfer"}
    BY <2>2, <2>3 DEF Holding
  <2>4. CASE q.kind = "move"
    <3>1. \A i \in 1 .. Len(w) : w[i] \in SlotRows
      BY <2>4 DEF Holding
    <3>2. 1 \in 1 .. Len(w) /\ \A i \in 1 .. Len(v) : i \in 1 .. Len(w) - 1 /\ i + 1 \in 1 .. Len(w)
      BY <1>0, <1>2
    <3>3. w[1] \in SlotRows /\ \A i \in 1 .. Len(v) : v[i] \in SlotRows
      BY <1>2, <3>1, <3>2
    <3> QED
      BY <1>0, <2>1, <2>4, <3>3 DEF Holding
  <2>6. CASE q.kind = "create"
    <3>1. q.run \in Runs /\ q.at \in Time
      BY <2>6, MeetingFields
    <3>2. owner[CohortOf[q.run]] = p /\ owner'[CohortOf[q.run]] = p
      BY <2>1, <2>6 DEF Holding
    <3>3. CASE w = Entries(q.run, q.at)
      <4>1. Head(w) = SlotRow(q.run, q.at) /\ v = <<SlotRow(None, q.at)>> /\ w # <<SlotRow(None, q.at)>>
        BY <1>1, <3>1, <3>3, EntriesAre
      <4>2. \A x \in Lockable : owner[x] = p => x \in Cohorts
        BY <1>0, <2>6, <3>3, <4>1 DEF Holding
      <4>3. \A x \in Lockable : owner'[x] = p => x \in Cohorts \cup {SlotRow(q.run, q.at)}
        BY <4>1, <4>2
      <4> QED
        BY <2>6, <3>2, <4>1, <4>3 DEF Holding
    <3>4. CASE w = <<SlotRow(None, q.at)>>
      <4>1. v = <<>>
        BY <1>1, <3>4
      <4> QED
        BY <2>6, <3>2, <4>1 DEF Holding
    <3> QED
      BY <2>6, <3>3, <3>4 DEF Holding
  <2>5. CASE q.kind = "save"
    <3>1. /\ \A i \in 1 .. Len(v) : v[i] \in {meeting[q.meeting].run} \X Employees
          /\ w[1] \in {meeting[q.meeting].run} \X Employees
      <4>1. \A i \in 1 .. Len(w) : w[i] \in {meeting[q.meeting].run} \X Employees
        BY <2>5 DEF Holding
      <4>2. 1 \in 1 .. Len(w) /\ \A i \in 1 .. Len(v) : i \in 1 .. Len(w) - 1 /\ i + 1 \in 1 .. Len(w)
        BY <1>0, <1>2
      <4> QED
        BY <1>2, <4>1, <4>2
    <3> QED
      BY <1>0, <2>1, <2>5, <3>1 DEF Holding
  <2> QED
    BY <2>3, <2>4, <2>5, <2>6 DEF Holding
<1> QED
  BY <1>1, <1>3, <1>4

\* One that takes its next row, which was nobody's.
LEMMA LockingLock ==
  ASSUME Typed, [Next]_vars, \A o \in Operators : Locking(o), NEW p \in Operators, Lock(p)
  PROVE  \A o \in Operators : Locking(o)'
<1>0. /\ Transacting /\ owner \in [Lockable -> Operators \cup {None}] /\ DOMAIN op = Operators
      /\ \A o \in Operators : o # None
  BY EnglishAssumption DEF Typed, Transacting
<1>1. /\ op[p] \in Tx /\ op[p] # Idle /\ op[p].req \in Request /\ Loaded(op[p].req)
      /\ op[p].want \in Seq(Lockable) /\ op[p].want # <<>>
  BY <1>0, InTx DEF Lock, Waiting
<1>2. PICK q \in Request, w \in Seq(Lockable) : q = op[p].req /\ w = op[p].want
  BY <1>1
<1>3. PICK v \in Seq(Lockable) : v = Tail(w)
  <2>1. w # <<>>
    BY <1>1, <1>2
  <2>2. Tail(w) \in Seq(Lockable)
    BY <2>1
  <2> QED
    BY <2>2
<1>4. Head(w) \in Lockable
  <2>1. w # <<>>
    BY <1>1, <1>2
  <2> QED
    BY <2>1
<1>5. /\ owner[Head(w)] \in {None, p} /\ owner' = [owner EXCEPT ![Head(w)] = p]
      /\ op' = [op EXCEPT ![p] = [op[p] EXCEPT !.want = v]]
  BY <1>0, <1>2, <1>3 DEF Lock
<1>6. /\ op'[p] # Idle /\ op'[p].req = q /\ op'[p].want = v /\ op'[p].step = op[p].step
      /\ \A o \in Operators \ {p} : op'[o] = op[o]
  <2> DEFINE t == [op[p] EXCEPT !.want = v]
  <2>1. t.want = v /\ t.req = q /\ t.step = op[p].step
    BY <1>1, <1>2 DEF Tx
  <2>2. op' = [op EXCEPT ![p] = t] /\ t.step # "idle"
    BY <1>1, <1>5, <2>1 DEF Tx
  <2> HIDE DEF t
  <2> QED
    BY <1>0, <2>1, <2>2 DEF Idle
<1>7. \A x \in Lockable : owner'[x] = p <=> (owner[x] = p \/ x = Head(w))
  BY <1>0, <1>4, <1>5
<1>8. ASSUME NEW o \in Operators, o # p
      PROVE  Locking(o)'
  <2>1. \A x \in Lockable : owner'[x] = o <=> owner[x] = o
    BY <1>0, <1>4, <1>5, <1>8
  <2> QED
    BY <1>6, <1>8, <2>1, LockingKept
<1>9. /\ op[p].step = "lock" => Taking(p, q, w)
      /\ op[p].step = "write" => Holding(p, q, w)
  BY <1>1, <1>2 DEF Locking
<1>10. /\ Taking(p, q, w) => Taking(p, q, v)'
       /\ Holding(p, q, w) => Holding(p, q, v)'
  BY <1>1, <1>2, <1>3, <1>7, OneTaken
<1>11. Locking(p)'
  BY <1>6, <1>9, <1>10, LockingMoves
<1> QED
  BY <1>8, <1>11

\* One that has its first rows has all of them, and no others.
LEMMA HasTaken ==
  ASSUME Typed, NEW p \in Operators, Locking(p), Locked(p)
  PROVE  \A x \in Lockable : owner[x] = p <=> \E i \in 1 .. Len(Rows(op[p].req)) : x = Rows(op[p].req)[i]
<1>1. /\ op[p] # Idle /\ op[p].req \in Request /\ Loaded(op[p].req)
      /\ op[p].want \in Seq(Lockable)
  BY InTx DEF Typed, Locked
<1>2. PICK q \in Request, w \in Seq(Lockable) : q = op[p].req /\ w = op[p].want /\ w = <<>>
  BY <1>1 DEF Locked
<1>3. Taking(p, q, w)
  BY <1>1, <1>2 DEF Locking, Locked
<1>4. Len(w) = 0 /\ Len(Rows(q)) \in Nat
  BY <1>1, <1>2, NoSlots
<1> QED
  BY <1>2, <1>3, <1>4 DEF Taking

\* One that goes on to write: a move with its meeting, a roster with its class
\* and meeting, a join or a new session with its class.
LEMMA LockingWrite ==
  ASSUME Typed, [Next]_vars, \A o \in Operators : Locking(o), NEW p \in Operators,
         Confirm(p) \/ LeaveSlot(p) \/ LockRoster(p)
  PROVE  \A o \in Operators : Locking(o)'
<1>0. /\ Transacting /\ Teaching
      /\ owner \in [Lockable -> Operators \cup {None}] /\ DOMAIN op = Operators
      /\ \A o \in Operators : o # None
  BY EnglishAssumption DEF Typed, Transacting
<1>1. /\ op[p] \in Tx /\ op[p] # Idle /\ op[p].req \in Request /\ Loaded(op[p].req) /\ Locked(p)
  BY <1>0, InTx DEF Confirm, LeaveSlot, LockRoster, Locked
<1>2. PICK q \in Request : q = op[p].req
  BY <1>1
<1>3. PICK w \in Seq(Lockable) :
        /\ op' = [op EXCEPT ![p].step = "write", ![p].want = w]
        /\ Confirm(p) => w \in Awaits(q)
        /\ LeaveSlot(p) => w = Entries(meeting[q.meeting].run, q.at)
        /\ LockRoster(p) => w \in RosterRows(q.meeting)
  <2>1. CASE Confirm(p)
    <3>1. PICK w \in Awaits(q) : op' = [op EXCEPT ![p].step = "write", ![p].want = w]
      BY <1>2, <2>1 DEF Confirm
    <3>2. q.kind \in {"join", "create", "transfer"} /\ w \in Seq(Lockable)
      BY <1>2, <2>1, <3>1, AwaitsAre DEF Confirm
    <3> QED
      BY <1>2, <2>1, <3>1, <3>2 DEF Confirm, LeaveSlot, LockRoster
  <2>2. CASE LeaveSlot(p)
    BY <1>2, <2>2, DepartingAwaits DEF Confirm, LeaveSlot, LockRoster
  <2>3. CASE LockRoster(p)
    <3>1. PICK w \in RosterRows(q.meeting) : op' = [op EXCEPT ![p].step = "write", ![p].want = w]
      BY <1>2, <2>3 DEF LockRoster
    <3>2. q.kind = "save" /\ q.meeting \in Meetings /\ meeting[q.meeting].status # "free"
      BY <1>1, <1>2, <2>3, MeetingFields DEF LockRoster, Loaded
    <3>3. w \in Seq(Lockable)
      BY <1>0, <3>1, <3>2, RosterRowsAre
    <3> QED
      BY <1>2, <2>3, <3>1, <3>3 DEF Confirm, LeaveSlot, LockRoster
  <2> QED
    BY <2>1, <2>2, <2>3
<1>4. /\ op'[p] # Idle /\ op'[p].req = q /\ op'[p].want = w /\ op'[p].step = "write"
      /\ \A o \in Operators \ {p} : op'[o] = op[o]
  <2> DEFINE t == [op[p] EXCEPT !.step = "write", !.want = w]
  <2>1. t.want = w /\ t.req = q /\ t.step = "write"
    BY <1>1, <1>2 DEF Tx
  <2>2. op' = [op EXCEPT ![p] = t]
    BY <1>0, <1>3
  <2> HIDE DEF t
  <2> QED
    BY <1>0, <2>1, <2>2 DEF Idle
<1>5. /\ \A x \in Lockable : owner'[x] = owner[x] \/ (x \in SlotRows /\ owner'[x] = p)
      /\ Confirm(p) \/ LockRoster(p) => owner' = owner
  <2>1. CASE Confirm(p) \/ LockRoster(p)
    BY <2>1 DEF Confirm, LockRoster
  <2>2. CASE LeaveSlot(p)
    <3>1. PICK s \in SlotRows, t \in SlotRows :
            /\ s = SlotRow(meeting[q.meeting].run, meeting[q.meeting].at)
            /\ t = SlotRow(None, meeting[q.meeting].at)
      <4>1. meeting[q.meeting].run \in Runs /\ meeting[q.meeting].at \in Time
        BY <1>2, <2>2, DepartingAwaits
      <4> QED
        BY <4>1, Lockables
    <3>2. owner' = [owner EXCEPT ![s] = p, ![t] = p]
      BY <1>2, <2>2, <3>1 DEF LeaveSlot
    <3>3. ~ Confirm(p) /\ ~ LockRoster(p)
      BY <2>2 DEF Confirm, LeaveSlot, LockRoster
    <3> QED
      BY <1>0, <3>1, <3>2, <3>3
  <2> QED
    BY <2>1, <2>2
<1>6. ASSUME NEW o \in Operators, o # p
      PROVE  Locking(o)'
  BY <1>4, <1>5, <1>6, LockingKept
<1>7. \A x \in Lockable : owner[x] = p <=> \E i \in 1 .. Len(Rows(q)) : x = Rows(q)[i]
  BY <1>1, <1>2, HasTaken
<1>8. Holding(p, q, w)'
  <2>1. CASE Confirm(p)
    <3>1. q.kind \in {"join", "create", "transfer"} /\ w \in Awaits(q)
      BY <1>2, <1>3, <2>1 DEF Confirm
    <3>2. /\ q.kind = "transfer" => w = <<>>
          /\ q.kind = "join" /\ w # <<>> => Len(w) = 1 /\ w[1] \in Runs \X Employees
          /\ q.kind = "create" => w = Entries(q.run, q.at)
      <4>1. q.kind = "join" => q.emp \in Employees
        BY LearnerFields
      <4> QED
        BY <3>1, <4>1, AwaitsAre
    <3>3. q.kind # "transfer" =>
            /\ \A x \in Lockable : owner[x] = p => x \in Cohorts
            /\ owner[CohortOf[q.run]] = p
      <4>1. q.kind # "transfer" => Takes(q, 1, CohortOf[q.run]) /\ CohortOf[q.run] \in Cohorts
        BY <3>1, LearnerRows, LearnerFields, MeetingFields, Lockables
      <4>2. Cohorts \subseteq Lockable
        BY DEF Lockable
      <4> QED
        BY <1>7, <4>1, <4>2 DEF Takes
    <3>4. owner' = owner
      BY <1>5, <2>1
    <3>5. CASE q.kind = "create"
      BY <3>2, <3>3, <3>4, <3>5 DEF Holding
    <3>6. CASE q.kind \in {"join", "transfer"}
      BY <3>2, <3>3, <3>4, <3>6 DEF Holding
    <3> QED
      BY <3>1, <3>5, <3>6
  <2>2. CASE LeaveSlot(p)
    <3>1. /\ q.kind = "move" /\ q.meeting \in Meetings /\ q.at \in Time
          /\ meeting[q.meeting].run \in Runs /\ w = Entries(meeting[q.meeting].run, q.at)
      BY <1>2, <1>3, <2>2, DepartingAwaits
    <3>2. Takes(q, 2, q.meeting) /\ Rows(q)[2] = UnitRow(q.meeting)
      BY <3>1, MeetingRows
    <3>3. /\ owner[q.meeting] = p
          /\ \A x \in Lockable : owner[x] = p => x \in {q.meeting, UnitRow(q.meeting)}
      BY <1>7, <3>1, <3>2, Lockables DEF Takes
    <3>4. owner'[q.meeting] = p
      BY <1>5, <3>1, <3>3, Lockables
    <3>5. \A i \in 1 .. Len(w) : w[i] \in SlotRows
      <4>1. Len(w) = 2 /\ w[1] \in SlotRows /\ w[2] \in SlotRows
        BY <3>1, EntriesAre, Lockables
      <4> QED
        BY <4>1
    <3> QED
      BY <1>5, <3>1, <3>3, <3>4, <3>5 DEF Holding
  <2>3. CASE LockRoster(p)
    <3>1. /\ q.kind = "save" /\ q.meeting \in Meetings /\ meeting[q.meeting].run \in Runs
          /\ meeting[q.meeting].status # "free" /\ w \in RosterRows(q.meeting) /\ UNCHANGED meeting
      BY <1>0, <1>1, <1>2, <1>3, <2>3, MeetingFields DEF LockRoster, Loaded, Teaching, tables
    <3>2. /\ Takes(q, 3, CohortOf[meeting[q.meeting].run])
          /\ Rows(q)[2] = UnitRow(q.meeting) /\ Rows(q)[3] = q.meeting
      BY <3>1, MeetingRows
    <3>3. /\ owner[q.meeting] = p /\ owner[CohortOf[meeting[q.meeting].run]] = p
          /\ \A x \in Lockable : owner[x] = p => x \in Cohorts \cup {q.meeting, UnitRow(q.meeting)}
      BY <1>7, <3>1, <3>2, Lockables DEF Takes
    <3>4. \A i \in 1 .. Len(w) : w[i] \in {meeting[q.meeting].run} \X Employees
      BY <1>0, <3>1, RosterRowsAre
    <3> QED
      BY <1>5, <2>3, <3>1, <3>3, <3>4 DEF Holding
  <2> QED
    BY <2>1, <2>2, <2>3
<1>9. Locking(p)'
  BY <1>4, <1>8, LockingMoves
<1> QED
  BY <1>6, <1>9

\* Every step leaves each transaction with the rows of its place.
LEMMA LockingStep ==
  ASSUME Typed, \A o \in Operators : Locking(o), [Next]_vars
  PROVE  \A o \in Operators : Locking(o)'
<1>1. ASSUME NEW p \in Operators, Work(p), ~ (Confirm(p) \/ LeaveSlot(p) \/ LockRoster(p))
      PROVE  Release(p)
  BY <1>1 DEF Work, AddRunEnrollment, LeaveRunEnrollment, TransferLearner, CreateAttendanceSession,
     RescheduleMeeting, CancelMeeting, SaveAttendanceRoster, RecordExamResult, Refuse, AbortVictim
<1>2. CASE DeleteExamResult \/ Tick \/ UNCHANGED vars
  <2>1. UNCHANGED <<owner, op>>
    BY <1>2 DEF DeleteExamResult, Tick, vars
  <2> QED
    BY <2>1, LockingKept
<1> QED
  BY <1>1, <1>2, LockingBegin, LockingLock, LockingWrite, LockingReleased DEF Next

\* At first no row is locked.
LEMMA LockingInit == Init => \A o \in Operators : Locking(o)
  BY EnglishAssumption DEF Init, Locking, Idle

-----------------------------------------------------------------------------
(* Deadlocks.                                                              *)

\* What a waiting transaction may hold besides what it waits for.
LEMMA WaitersHold ==
  ASSUME Typed, NEW p \in Operators, Locking(p), Waiting(p),
         NEW x \in Lockable, owner[x] = p
  PROVE  LET q == op[p].req
             h == Head(op[p].want)
         IN  /\ h \in Lockable
             /\ x \in Cohorts => (h \in Cohorts => q.kind = "transfer")
             /\ x \in Meetings =>
                  /\ x = q.meeting
                  /\ h \in UnitRows => q.kind \in {"move", "cancel"} /\ h = UnitRow(x)
                  /\ h \notin Cohorts \cup Meetings
             /\ x \in UnitRows =>
                  /\ x = UnitRow(q.meeting)
                  /\ h \in Meetings => q.kind = "save" /\ h = q.meeting
                  /\ h \notin Cohorts \cup UnitRows
             /\ x \in SlotRows =>
                  /\ q.kind \in {"move", "create"} /\ h \in SlotRows
                  /\ q.kind = "create" => x = SlotRow(q.run, q.at)
             /\ x \in Runs \X Employees =>
                  /\ \E m \in Meetings :
                       /\ x[1] = meeting[m].run /\ h[1] = x[1] /\ meeting[m].run \in Runs
                       /\ owner[CohortOf[meeting[m].run]] = p
                  /\ h \in Runs \X Employees
<1>1. /\ op[p] \in Tx /\ op[p] # Idle /\ op[p].req \in Request /\ Loaded(op[p].req)
      /\ op[p].want \in Seq(Lockable) /\ op[p].want # <<>>
  BY InTx DEF Waiting, Typed
<1>2. PICK q \in Request, w \in Seq(Lockable) : q = op[p].req /\ w = op[p].want
  BY <1>1
<1>3. Loaded(q) /\ Len(w) \in Nat \ {0} /\ Head(w) = w[1] /\ w[1] \in Lockable
  BY <1>1, <1>2
<1>4. /\ q.kind \in {"join", "leave", "transfer", "create"} => CohortOf[q.run] \in Cohorts
      /\ q.kind = "transfer" => CohortOf[q.from] \in Cohorts /\ <<q.from, q.emp>> \in Runs \X Employees
      /\ q.kind \in {"leave", "exam"} => <<q.run, q.emp>> \in Runs \X Employees
      /\ q.kind \in {"move", "cancel", "save"} => q.meeting \in Meetings /\ UnitRow(q.meeting) \in UnitRows
      /\ q.kind = "save" => /\ meeting[q.meeting].run \in Runs
                            /\ CohortOf[meeting[q.meeting].run] \in Cohorts
  BY <1>3, LearnerFields, MeetingFields, Lockables DEF Loaded, Typed, Teaching
<1>5. CASE op[p].step = "lock"
  <2>1. Taking(p, q, w)
    BY <1>1, <1>2, <1>5 DEF Locking
  <2>2. PICK n \in 0 .. Len(Rows(q)) :
          /\ Len(w) = Len(Rows(q)) - n
          /\ \A i \in 1 .. Len(w) : w[i] = Rows(q)[n + i]
          /\ \A y \in Lockable : owner[y] = p <=> \E i \in 1 .. n : y = Rows(q)[i]
    BY <2>1 DEF Taking
  <2>3. Len(Rows(q)) \in {1, 2, 3}
    BY <1>4, SomeRows
  <2>4. /\ n \in {1, 2} /\ n < Len(Rows(q)) /\ w[1] = Rows(q)[n + 1]
        /\ \E i \in 1 .. n : x = Rows(q)[i]
    <3>1. PICK i \in 1 .. n : x = Rows(q)[i]
      BY <2>2
    <3>2. n \in Nat /\ i \in Nat /\ Len(w) \in Nat /\ Len(w) = Len(Rows(q)) - n /\ Len(w) # 0
      BY <1>3, <2>2, <2>3
    <3>3. 1 \in 1 .. Len(w)
      BY <3>2
    <3>4. w[1] = Rows(q)[n + 1]
      BY <2>2, <3>3
    <3>5. n \in {1, 2} /\ n < Len(Rows(q))
      <4>1. n > 0
        BY <3>1, <3>2
      <4>2. n < Len(Rows(q))
        BY <2>3, <3>2
      <4> QED
        BY <2>3, <3>2, <4>1, <4>2
    <3> QED
      BY <3>1, <3>4, <3>5
  <2>5. \/ n = 1 /\ w[1] = Rows(q)[2] /\ x = Rows(q)[1] /\ Len(Rows(q)) \in {2, 3}
        \/ n = 2 /\ w[1] = Rows(q)[3] /\ x \in {Rows(q)[1], Rows(q)[2]} /\ Len(Rows(q)) = 3
    BY <2>3, <2>4
  <2>6. CASE q.kind \in {"join", "create", "exam"}
    BY <2>5, <2>6, LearnerRows DEF Takes
  <2>7. CASE q.kind = "leave"
    <3>1. x \in Cohorts /\ w[1] \in Runs \X Employees
      BY <1>4, <2>5, <2>7, LearnerRows DEF Takes
    <3> QED
      BY <1>2, <1>3, <3>1, RowKinds
  <2>8. CASE q.kind = "transfer"
    <3>1. x \in Cohorts
      BY <1>4, <2>5, <2>8, LearnerRows DEF Takes
    <3> QED
      BY <1>2, <1>3, <2>8, <3>1, RowKinds
  <2>9. CASE q.kind \in {"move", "cancel"}
    <3>1. x = q.meeting /\ w[1] = UnitRow(q.meeting)
      <4>1. Takes(q, 2, q.meeting) /\ Rows(q)[2] = UnitRow(q.meeting)
        BY <1>4, <2>9, MeetingRows
      <4>2. Len(Rows(q)) = 2 /\ Rows(q)[1] = q.meeting
        BY <4>1 DEF Takes
      <4> QED
        BY <2>5, <4>1, <4>2
    <3>2. /\ x \in Meetings /\ x \notin Cohorts /\ x \notin UnitRows /\ x \notin SlotRows
          /\ x \notin Runs \X Employees
      BY <1>4, <2>9, <3>1, RowKinds
    <3>3. w[1] \notin Cohorts \cup Meetings
      BY <1>4, <2>9, <3>1, RowKinds
    <3> QED
      BY <1>2, <1>3, <2>9, <3>1, <3>2, <3>3
  <2>10. CASE q.kind = "save"
    <3>1. \/ x \in Cohorts /\ w[1] \in {UnitRow(q.meeting), q.meeting}
          \/ x = UnitRow(q.meeting) /\ w[1] = q.meeting
      <4>1. /\ Takes(q, 3, CohortOf[meeting[q.meeting].run])
            /\ Rows(q)[2] = UnitRow(q.meeting) /\ Rows(q)[3] = q.meeting
        BY <1>4, <2>10, MeetingRows
      <4>2. Len(Rows(q)) = 3 /\ Rows(q)[1] \in Cohorts
        BY <1>4, <2>10, <4>1 DEF Takes
      <4> QED
        BY <2>5, <4>1, <4>2
    <3>2. /\ x \notin Meetings /\ x \notin SlotRows /\ x \notin Runs \X Employees
          /\ x \in Cohorts => x \notin UnitRows
          /\ w[1] \notin Cohorts
      BY <1>4, <2>10, <3>1, RowKinds
    <3>3. x \in UnitRows => x = UnitRow(q.meeting) /\ w[1] = q.meeting /\ w[1] \notin UnitRows
      BY <1>4, <2>10, <3>1, RowKinds
    <3> QED
      BY <1>2, <1>3, <2>10, <3>2, <3>3
  <2> QED
    BY <2>6, <2>7, <2>8, <2>9, <2>10, LearnerFields
<1>6. CASE op[p].step = "write"
  <2>1. Holding(p, q, w)
    BY <1>1, <1>2, <1>6 DEF Locking
  <2>2. w # <<>> /\ 1 \in 1 .. Len(w)
    BY <1>1, <1>2, <1>3
  <2>3. CASE q.kind \in {"join", "transfer"}
    <3>1. x \in Cohorts /\ w[1] \in Runs \X Employees
      BY <2>1, <2>2, <2>3 DEF Holding
    <3> QED
      BY <1>2, <1>3, <3>1, RowKinds
  <2>6. CASE q.kind = "create"
    <3>1. q.run \in Runs /\ q.at \in Time
      BY <2>6, MeetingFields
    <3>2. w[1] \in SlotRows
      BY <2>1, <2>2, <2>6, <3>1, EntriesAre, Lockables DEF Holding
    <3>3. x \in Cohorts \cup {SlotRow(q.run, q.at)} /\ SlotRow(q.run, q.at) \in SlotRows
      BY <2>1, <2>2, <2>6, <3>1, Lockables DEF Holding
    <3> QED
      BY <1>2, <1>3, <2>6, <3>2, <3>3, RowKinds
  <2>4. CASE q.kind = "move"
    <3>1. x \in {q.meeting, UnitRow(q.meeting)} \cup SlotRows /\ w[1] \in SlotRows
      BY <2>1, <2>2, <2>4 DEF Holding
    <3> QED
      BY <1>2, <1>3, <1>4, <2>4, <3>1, RowKinds
  <2>5. CASE q.kind = "save"
    <3>1. /\ x \in Cohorts \cup {q.meeting, UnitRow(q.meeting)} \cup ({meeting[q.meeting].run} \X Employees)
          /\ w[1] \in {meeting[q.meeting].run} \X Employees
          /\ owner[CohortOf[meeting[q.meeting].run]] = p
      BY <2>1, <2>2, <2>5 DEF Holding
    <3>2. w[1] \in Runs \X Employees /\ w[1][1] = meeting[q.meeting].run
      BY <1>4, <2>5, <3>1
    <3>3. x \in Runs \X Employees => x[1] = meeting[q.meeting].run
      BY <1>4, <2>5, <3>1, RowKinds
    <3>4. x \in Meetings => x = q.meeting
      BY <1>4, <2>5, <3>1, RowKinds
    <3>5. x \in UnitRows => x = UnitRow(q.meeting)
      BY <1>4, <2>5, <3>1, RowKinds
    <3>6. x \notin SlotRows
      BY <1>4, <2>5, <3>1, RowKinds
    <3> QED
      BY <1>2, <1>3, <1>4, <2>5, <3>1, <3>2, <3>3, <3>4, <3>5, <3>6, RowKinds
  <2> QED
    BY <2>1, <2>3, <2>4, <2>5, <2>6 DEF Holding
<1> QED
  BY <1>1, <1>5, <1>6 DEF Tx

\* A new session that waits for an entry holds its class.
LEMMA NewSessionsWait ==
  ASSUME Typed, NEW p \in Operators, Locking(p), Waiting(p),
         op[p].req.kind = "create", Head(op[p].want) \in SlotRows
  PROVE  LET q == op[p].req
         IN  /\ q.run \in Runs /\ q.at \in Time
             /\ CohortOf[q.run] \in Lockable /\ owner[CohortOf[q.run]] = p
             /\ Head(op[p].want) \in {SlotRow(q.run, q.at), SlotRow(None, q.at)}
<1>1. /\ op[p] \in Tx /\ op[p] # Idle /\ op[p].req \in Request /\ Loaded(op[p].req)
      /\ op[p].want \in Seq(Lockable) /\ op[p].want # <<>>
  BY InTx DEF Waiting, Typed
<1>2. PICK q \in Request, w \in Seq(Lockable) : q = op[p].req /\ w = op[p].want
  BY <1>1
<1>3. /\ Loaded(q) /\ Len(w) \in Nat \ {0} /\ Head(w) = w[1] /\ 1 \in 1 .. Len(w)
      /\ q.run \in Runs /\ q.at \in Time
  BY <1>1, <1>2, MeetingFields
<1>4. op[p].step # "lock"
  <2> SUFFICES ASSUME op[p].step = "lock" PROVE FALSE
    OBVIOUS
  <2>1. PICK n \in 0 .. Len(Rows(q)) :
          Len(w) = Len(Rows(q)) - n /\ \A i \in 1 .. Len(w) : w[i] = Rows(q)[n + i]
    BY <1>1, <1>2 DEF Locking, Taking
  <2>2. Len(Rows(q)) \in Nat /\ \A i \in 1 .. Len(Rows(q)) : Rows(q)[i] \notin SlotRows
    BY <1>3, NoSlots
  <2>3. n + 1 \in 1 .. Len(Rows(q)) /\ w[1] = Rows(q)[n + 1]
    BY <1>3, <2>1, <2>2
  <2> QED
    BY <1>2, <1>3, <2>2, <2>3
<1>5. Holding(p, q, w)
  BY <1>1, <1>2, <1>4 DEF Locking, Tx
<1>6. owner[CohortOf[q.run]] = p /\ w \in {Entries(q.run, q.at), <<SlotRow(None, q.at)>>}
  BY <1>1, <1>2, <1>5 DEF Holding
<1> QED
  BY <1>2, <1>3, <1>6, EntriesAre, Lockables

\* Two of them do not wait in a row: the second would wait for the other index,
\* holding its entry of the run's, where the first has no business.
LEMMA OneSessionWaits ==
  ASSUME Typed, NEW p \in Operators, NEW o \in Operators, o # p,
         Locking(p), Locking(o), Waiting(p), Waiting(o),
         Head(op[p].want) \in SlotRows, Head(op[p].want) \in Lockable, owner[Head(op[p].want)] = o
  PROVE  ~ (op[p].req.kind = "create" /\ op[o].req.kind = "create")
<1> SUFFICES ASSUME op[p].req.kind = "create", op[o].req.kind = "create" PROVE FALSE
  OBVIOUS
<1>1. PICK x \in Lockable : x = Head(op[p].want) /\ x \in SlotRows /\ owner[x] = o
  OBVIOUS
<1>2. Head(op[o].want) \in SlotRows /\ x = SlotRow(op[o].req.run, op[o].req.at)
  BY <1>1, WaitersHold
<1>3. /\ op[p].req.run \in Runs /\ owner[CohortOf[op[p].req.run]] = p
      /\ x \in {SlotRow(op[p].req.run, op[p].req.at), SlotRow(None, op[p].req.at)}
  BY <1>1, NewSessionsWait
<1>4. op[o].req.run \in Runs /\ owner[CohortOf[op[o].req.run]] = o
  BY <1>2, NewSessionsWait
<1>5. op[o].req.run = op[p].req.run
  BY <1>2, <1>3, <1>4, RowKinds, EnglishAssumption
<1> QED
  BY <1>3, <1>4, <1>5

\* In a set whose members all wait for one another, what each waits for is held
\* by a member that waits in turn.
LEMMA StuckWaits ==
  ASSUME Typed, \A o \in Operators : Locking(o), NEW S \in SUBSET Operators, Stuck(S), NEW p \in S
  PROVE  \E o \in S : /\ o # p /\ WaitsFor(p) = o /\ owner[Head(op[p].want)] = o
                      /\ Head(op[p].want) \in Lockable
                      /\ Waiting(o) /\ Locking(o)
<1>1. Blocked(p) /\ WaitsFor(p) \in S
  BY DEF Stuck
<1>2. Head(op[p].want) \in Lockable
  <2>1. op[p].want \in Seq(Lockable) /\ op[p].want # <<>>
    BY <1>1, InTx DEF Blocked, Waiting, Typed
  <2> QED
    BY <2>1
<1> QED
  BY <1>1, <1>2 DEF Blocked, Stuck, WaitsFor

\* Nobody in a cycle waits for an enrollment: who holds one and waits saves a
\* roster, and waits for another of its run, whose class it holds.
LEMMA NoneAwaitsLearners ==
  ASSUME Typed, \A o \in Operators : Locking(o), NEW S \in SUBSET Operators, Stuck(S), NEW p \in S
  PROVE  Head(op[p].want) \notin Runs \X Employees
<1> SUFFICES ASSUME Head(op[p].want) \in Runs \X Employees PROVE FALSE
  OBVIOUS
<1>1. PICK o \in S : Waiting(o) /\ Locking(o) /\ owner[Head(op[p].want)] = o
  BY StuckWaits
<1>2. PICK x \in Runs \X Employees : x \in Lockable /\ owner[x] = o
  BY <1>1 DEF Lockable
<1>3. PICK m \in Meetings :
        /\ x[1] = meeting[m].run /\ Head(op[o].want)[1] = x[1]
        /\ owner[CohortOf[meeting[m].run]] = o /\ Head(op[o].want) \in Runs \X Employees
  BY <1>1, <1>2, WaitersHold
<1>4. PICK y \in Runs \X Employees : y = Head(op[o].want) /\ y \in Lockable
  BY <1>3 DEF Lockable
<1>5. PICK n \in S : Waiting(n) /\ Locking(n) /\ owner[y] = n /\ n # o
  BY <1>4, StuckWaits
<1>6. PICK k \in Meetings : y[1] = meeting[k].run /\ owner[CohortOf[meeting[k].run]] = n
  BY <1>4, <1>5, WaitersHold
<1> QED
  BY <1>3, <1>4, <1>5, <1>6

\* Transfers, moves, or a roster and a move or cancellation of its meeting:
\* a cycle of waits is one of these, for each of them is stuck by itself, and a
\* cycle has no smaller one in it.
THEOREM Cycles == Spec => []CollisionsAreKnown
<1>1. ASSUME Typed, \A o \in Operators : Locking(o) PROVE CollisionsAreKnown
  <2> SUFFICES ASSUME NEW S \in SUBSET Operators, Cycle(S)
               PROVE  \/ \A p \in S : op[p].req.kind = "transfer"
                      \/ /\ \A p \in S : op[p].req.kind \in {"move", "create"}
                         /\ \E p \in S : op[p].req.kind = "move"
                      \/ \E p, q \in S :
                           /\ S = {p, q}
                           /\ op[p].req.kind = "save" /\ op[q].req.kind \in {"move", "cancel"}
                           /\ op[p].req.meeting = op[q].req.meeting
    BY DEF CollisionsAreKnown
  <2>0. S # {} /\ Stuck(S) /\ \A T \in SUBSET S : T # {} /\ Stuck(T) => T = S
    BY DEF Cycle
  <2>1. \A p \in S : \E o \in S :
          /\ o # p /\ WaitsFor(p) = o /\ owner[Head(op[p].want)] = o /\ Head(op[p].want) \in Lockable
          /\ Waiting(o) /\ Locking(o)
    BY <1>1, <2>0, StuckWaits
  <2>2. \A p \in S : Blocked(p) /\ Waiting(p)
    BY <2>0 DEF Stuck, Blocked
  <2>3. \A p \in S : Head(op[p].want) \in Cohorts \cup Meetings \cup UnitRows \cup SlotRows
    BY <1>1, <2>0, <2>1, NoneAwaitsLearners DEF Lockable
  <2>4. CASE \E p \in S : Head(op[p].want) \in SlotRows
    <3> DEFINE A == {o \in S : op[o].req.kind \in {"move", "create"} /\ Head(op[o].want) \in SlotRows}
    <3>1. ASSUME NEW p \in S, Head(op[p].want) \in SlotRows
          PROVE  WaitsFor(p) \in A
      <4>1. PICK o \in S : /\ WaitsFor(p) = o /\ owner[Head(op[p].want)] = o
                           /\ Head(op[p].want) \in Lockable /\ Waiting(o) /\ Locking(o)
        BY <2>1
      <4>2. PICK x \in Lockable : x \in SlotRows /\ owner[x] = o
        BY <3>1, <4>1
      <4>3. op[o].req.kind \in {"move", "create"} /\ Head(op[o].want) \in SlotRows
        BY <1>1, <4>1, <4>2, WaitersHold
      <4> QED
        BY <4>1, <4>3
    <3>2. A # {} /\ Stuck(A)
      <4>1. \A p \in A : Blocked(p) /\ WaitsFor(p) \in A
        BY <2>2, <3>1
      <4> HIDE DEF A
      <4> QED
        BY <2>4, <3>1, <4>1 DEF Stuck
    <3>3. \A p \in S : op[p].req.kind \in {"move", "create"} /\ Head(op[p].want) \in SlotRows
      BY <2>0, <3>2
    <3>4. \E p \in S : op[p].req.kind = "move"
      <4>1. PICK p \in S : Head(op[p].want) \in SlotRows
        BY <2>4
      <4>2. PICK o \in S : /\ o # p /\ owner[Head(op[p].want)] = o /\ Head(op[p].want) \in Lockable
                           /\ Waiting(o) /\ Locking(o)
        BY <2>1
      <4>3. Waiting(p) /\ Locking(p)
        BY <1>1, <2>2
      <4>4. ~ (op[p].req.kind = "create" /\ op[o].req.kind = "create")
        BY <1>1, <3>3, <4>1, <4>2, <4>3, OneSessionWaits
      <4> QED
        BY <3>3, <4>4
    <3> QED
      BY <3>3, <3>4
  <2>5. ASSUME \A p \in S : Head(op[p].want) \notin SlotRows,
               NEW p \in S, Head(op[p].want) \in UnitRows
        PROVE  \E o, n \in S :
                 /\ S = {o, n}
                 /\ op[o].req.kind = "save" /\ op[n].req.kind \in {"move", "cancel"}
                 /\ op[o].req.meeting = op[n].req.meeting
    <3>1. PICK o \in S : owner[Head(op[p].want)] = o /\ Waiting(o) /\ Locking(o)
      BY <2>1
    <3>2. PICK u \in UnitRows : u = Head(op[p].want) /\ u \in Lockable
      BY <2>5 DEF Lockable
    <3>3. PICK m : m = op[o].req.meeting
      OBVIOUS
    <3>4. u = UnitRow(m) /\ op[o].req.kind = "save" /\ Head(op[o].want) = m /\ m \in Meetings
      <4>1. /\ u = UnitRow(op[o].req.meeting)
            /\ Head(op[o].want) \in Meetings =>
                 op[o].req.kind = "save" /\ Head(op[o].want) = op[o].req.meeting
            /\ Head(op[o].want) \notin Cohorts \cup UnitRows
        BY <1>1, <3>1, <3>2, WaitersHold, RowKinds
      <4> QED
        BY <2>3, <2>5, <3>3, <4>1
    <3>5. PICK n \in S : /\ WaitsFor(o) = n /\ owner[m] = n /\ m \in Lockable
                         /\ Waiting(n) /\ Locking(n)
      BY <2>1, <3>4
    <3>6. /\ m = op[n].req.meeting /\ op[n].req.kind \in {"move", "cancel"}
          /\ Head(op[n].want) = UnitRow(m)
      <4>1. /\ m = op[n].req.meeting
            /\ Head(op[n].want) \in UnitRows =>
                 op[n].req.kind \in {"move", "cancel"} /\ Head(op[n].want) = UnitRow(m)
            /\ Head(op[n].want) \notin Cohorts \cup Meetings
        BY <1>1, <3>4, <3>5, WaitersHold
      <4> QED
        BY <2>3, <2>5, <4>1
    <3>7. WaitsFor(n) = o
      BY <3>1, <3>2, <3>4, <3>6 DEF WaitsFor
    <3>8. Stuck({o, n})
      BY <2>2, <3>5, <3>7 DEF Stuck
    <3>9. S = {o, n}
      BY <2>0, <3>8
    <3> QED
      BY <3>3, <3>4, <3>6, <3>9
  <2>6. ASSUME \A p \in S : Head(op[p].want) \notin SlotRows,
               NEW p \in S, Head(op[p].want) \in Meetings
        PROVE  \E n \in S : Head(op[n].want) \in UnitRows
    <3>1. PICK n \in S : /\ owner[Head(op[p].want)] = n /\ Head(op[p].want) \in Lockable
                         /\ Waiting(n) /\ Locking(n)
      BY <2>1
    <3>2. Head(op[n].want) \notin Cohorts \cup Meetings
      BY <1>1, <2>6, <3>1, WaitersHold
    <3> QED
      BY <2>3, <2>6, <3>2
  <2>7. CASE \A p \in S : Head(op[p].want) \in Cohorts
    <3> DEFINE B == {o \in S : op[o].req.kind = "transfer"}
    <3>1. ASSUME NEW p \in S
          PROVE  WaitsFor(p) \in B
      <4>1. PICK o \in S : /\ WaitsFor(p) = o /\ owner[Head(op[p].want)] = o
                           /\ Head(op[p].want) \in Lockable /\ Waiting(o) /\ Locking(o)
        BY <2>1
      <4>2. op[o].req.kind = "transfer"
        BY <1>1, <2>7, <4>1, WaitersHold
      <4> QED
        BY <4>1, <4>2
    <3>2. B # {} /\ Stuck(B)
      <4>1. \A p \in B : Blocked(p) /\ WaitsFor(p) \in B
        BY <2>2, <3>1
      <4> HIDE DEF B
      <4> QED
        BY <2>0, <3>1, <4>1 DEF Stuck
    <3>3. B = S
      BY <2>0, <3>2
    <3> QED
      BY <3>3
  <2> QED
    BY <2>3, <2>4, <2>5, <2>6, <2>7
<1>2. Init => \A o \in Operators : Locking(o)
  BY LockingInit
<1>3. Typed /\ (\A o \in Operators : Locking(o)) /\ [Next]_vars => (\A o \in Operators : Locking(o))'
  BY LockingStep
<1> QED
  BY <1>1, <1>2, <1>3, Invariance, PTL DEF Spec

-----------------------------------------------------------------------------
(* Evidence.                                                               *)

\* A session that takes place, or did.
Running(m) == meeting[m].status \in {"planned", "completed"} /\ meeting[m].at <= now

\* A learner who takes part in it.
Attends(m, e) ==
    /\ enr[meeting[m].run][e].status # "none"
    /\ enr[meeting[m].run][e].start <= meeting[m].number

\* A roster that is about to be written is of such a session and such learners,
\* and what was recorded is still what its operator saw.
Saving(p) ==
    (op[p].step = "write" /\ op[p].req.kind = "save") =>
        LET q == op[p].req IN
        /\ Running(q.meeting)
        /\ \A e \in DOMAIN q.marks : Attends(q.meeting, e) /\ q.token.rows[e] = att[q.meeting][e]

\* A transaction that is about to write a roster.
Writes(p) == op[p].step = "write" /\ op[p].req.kind = "save"

\* A session with records, or about to have them.
Settled(m) == meeting[m].status = "completed" \/ \E p \in Operators : Writes(p) /\ op[p].req.meeting = m

\* A transaction that is about to move a meeting has found it planned.
Moving(p) ==
    (op[p].step = "write" /\ op[p].req.kind = "move") => meeting[op[p].req.meeting].status = "planned"

\* Who is about to write holds the meeting ...
LEMMA WriterHolds ==
  ASSUME Transacting, NEW p \in Operators, Locking(p),
         op[p].step = "write", op[p].req.kind \in {"move", "save"}
  PROVE  op[p].req.meeting \in Meetings /\ owner[op[p].req.meeting] = p
<1>1. op[p] # Idle /\ op[p].req \in Request /\ op[p].want \in Seq(Lockable)
  BY InTx
<1>2. PICK q \in Request, w \in Seq(Lockable) : q = op[p].req /\ w = op[p].want
  BY <1>1
<1>3. Holding(p, q, w)
  BY <1>1, <1>2 DEF Locking
<1> QED
  BY <1>2, <1>3, MeetingFields DEF Holding

\* ... and so does who cancels it.
LEMMA CancelHolds ==
  ASSUME Typed, NEW p \in Operators, Locking(p), CancelMeeting(p)
  PROVE  op[p].req.meeting \in Meetings /\ owner[op[p].req.meeting] = p
<1>1. op[p].req \in Request /\ op[p].req.kind = "cancel" /\ Locked(p)
  BY InTx DEF Typed, CancelMeeting, Locked
<1>2. PICK q \in Request : q = op[p].req
  BY <1>1
<1>3. q.meeting \in Meetings /\ q.meeting \in Lockable /\ Takes(q, 2, q.meeting)
  BY <1>1, <1>2, MeetingFields, MeetingRows, Lockables
<1>4. 1 \in 1 .. Len(Rows(q)) /\ Rows(q)[1] = q.meeting
  BY <1>3 DEF Takes
<1> QED
  BY <1>1, <1>2, <1>3, <1>4, HasTaken

\* What a step may do to the status of a meeting that somebody is about to move
\* or to write the roster of: only the writer can.
LEMMA StatusSteps ==
  ASSUME Typed, \A o \in Operators : Locking(o), [Next]_vars,
         NEW p \in Operators, op[p].step = "write", op[p].req.kind \in {"move", "save"},
         NEW m, m = op[p].req.meeting
  PROVE  \/ meeting'[m] = meeting[m]
         \/ op[p].req.kind = "move" /\ RescheduleMeeting(p)
         \/ op[p].req.kind = "save" /\ meeting'[m] = Held(meeting[m], "completed")
<1>0. Transacting /\ meeting \in [Meetings -> Meeting]
  BY DEF Typed, Teaching
<1>1. m \in Meetings /\ owner[m] = p
  BY <1>0, WriterHolds
<1>2. meeting[m].status # "free"
  BY <1>0, InTx DEF Loaded
<1>3. ASSUME NEW o \in Operators, CreateAttendanceSession(o)
      PROVE  meeting'[m] = meeting[m]
  <2>1. PICK n \in Meetings :
          meeting[n] = NoMeeting /\ \E row : meeting' = [meeting EXCEPT ![n] = row]
    BY <1>3 DEF CreateAttendanceSession
  <2>2. PICK row : meeting' = [meeting EXCEPT ![n] = row]
    BY <2>1
  <2>3. n # m
    BY <1>2, <2>1 DEF NoMeeting
  <2> QED
    BY <1>0, <1>1, <2>2, <2>3
<1>4. ASSUME NEW o \in Operators, RescheduleMeeting(o)
      PROVE  meeting'[m] = meeting[m] \/ (op[p].req.kind = "move" /\ RescheduleMeeting(p))
  <2>1. op[o].step = "write" /\ op[o].req.kind = "move"
        /\ meeting' = [meeting EXCEPT ![op[o].req.meeting].at = op[o].req.at]
    BY <1>4 DEF RescheduleMeeting, Writing
  <2>2. op[o].req.meeting \in Meetings /\ owner[op[o].req.meeting] = o
    BY <1>0, <2>1, WriterHolds
  <2>3. CASE op[o].req.meeting = m
    <3>1. o = p
      BY <1>1, <2>2, <2>3
    <3> QED
      BY <1>4, <2>1, <3>1
  <2>4. CASE op[o].req.meeting # m
    BY <1>0, <1>1, <2>1, <2>2, <2>4
  <2> QED
    BY <2>3, <2>4
<1>5. ASSUME NEW o \in Operators, CancelMeeting(o)
      PROVE  meeting'[m] = meeting[m]
  <2>1. op[o].step = "lock" /\ meeting' = [meeting EXCEPT ![op[o].req.meeting].status = "cancelled"]
    BY <1>5 DEF CancelMeeting, Locked
  <2>2. op[o].req.meeting \in Meetings /\ owner[op[o].req.meeting] = o
    BY <1>5, CancelHolds
  <2>3. op[o].req.meeting # m
    BY <1>1, <2>1, <2>2
  <2> QED
    BY <1>0, <1>1, <2>1, <2>2, <2>3
<1>6. ASSUME NEW o \in Operators, SaveAttendanceRoster(o)
      PROVE  \/ meeting'[m] = meeting[m]
             \/ op[p].req.kind = "save" /\ meeting'[m] = Held(meeting[m], "completed")
  <2>1. op[o].step = "write" /\ op[o].req.kind = "save"
        /\ \A n \in Meetings : meeting'[n] = IF n = op[o].req.meeting THEN Held(meeting[n], "completed")
                                             ELSE meeting[n]
    BY <1>6, SaveEffect DEF SaveAttendanceRoster, Writing
  <2>2. op[o].req.meeting \in Meetings /\ owner[op[o].req.meeting] = o
    BY <1>0, <2>1, WriterHolds
  <2>3. CASE op[o].req.meeting = m
    <3>1. o = p
      BY <1>1, <2>2, <2>3
    <3> QED
      BY <1>1, <2>1, <2>3, <3>1
  <2>4. CASE op[o].req.meeting # m
    BY <1>1, <2>1, <2>4
  <2> QED
    BY <2>3, <2>4
<1>7. ASSUME NEW o \in Operators, Begin(o) \/ Lock(o) \/ Work(o),
             ~ (\/ CreateAttendanceSession(o) \/ RescheduleMeeting(o)
                \/ CancelMeeting(o) \/ SaveAttendanceRoster(o))
      PROVE  UNCHANGED meeting
  BY <1>7 DEF Begin, Lock, Work, Confirm, AddRunEnrollment, LeaveRunEnrollment, TransferLearner,
     LeaveSlot, LockRoster, RecordExamResult, Refuse, AbortVictim, tables
<1>8. DeleteExamResult \/ Tick \/ UNCHANGED vars => UNCHANGED meeting
  BY DEF DeleteExamResult, Tick, vars, tables
<1> QED
  BY <1>3, <1>4, <1>5, <1>6, <1>7, <1>8 DEF Next

\* Time does not go back.
LEMMA TimeGoesOn ==
  ASSUME Typed, [Next]_vars
  PROVE  now \in Nat /\ now' \in Nat /\ now <= now'
<1>1. now \in Nat
  BY DEF Typed, Clock, Time
<1>2. ASSUME NEW p \in Operators, Begin(p) \/ Lock(p) \/ Work(p)
      PROVE  now' = now
  BY <1>2 DEF Begin, Lock, Work, Confirm, AddRunEnrollment, LeaveRunEnrollment, TransferLearner,
     CreateAttendanceSession, LeaveSlot, RescheduleMeeting, CancelMeeting, LockRoster,
     SaveAttendanceRoster, RecordExamResult, Refuse, AbortVictim
<1>3. DeleteExamResult \/ UNCHANGED vars => now' = now
  BY DEF DeleteExamResult, vars
<1>4. Tick => now' = now + 1
  BY DEF Tick
<1> QED
  BY <1>1, <1>2, <1>3, <1>4 DEF Next

\* A session with records, or whose roster is about to be written, is not moved
\* or cancelled any more: who does it holds the meeting, and found it planned.
LEMMA StaysRunning ==
  ASSUME Typed, \A p \in Operators : Locking(p) /\ Moving(p), [Next]_vars,
         NEW m \in Meetings, Running(m), Settled(m)
  PROVE  /\ Running(m)'
         /\ meeting'[m].run = meeting[m].run /\ meeting'[m].number = meeting[m].number
         /\ meeting[m].status = "completed" => meeting'[m].status = "completed"
<1>1. meeting[m] \in Meeting /\ meeting[m].at \in Nat /\ meeting \in [Meetings -> Meeting]
  BY DEF Typed, Teaching, Meeting, Time
<1>2. meeting'[m] = meeting[m] \/ meeting'[m] = Held(meeting[m], "completed")
  <2>1. CASE \E p \in Operators : Writes(p) /\ op[p].req.meeting = m
    <3>1. PICK p \in Operators : op[p].step = "write" /\ op[p].req.kind = "save" /\ m = op[p].req.meeting
      BY <2>1 DEF Writes
    <3>2. op[p].req.kind \in {"move", "save"}
      BY <3>1
    <3> QED
      BY <3>1, <3>2, StatusSteps
  <2>2. CASE meeting[m].status = "completed"
    <3>1. ASSUME NEW p \in Operators, RescheduleMeeting(p)
          PROVE  meeting'[m] = meeting[m]
      <4>1. op[p].step = "write" /\ op[p].req.kind = "move"
            /\ meeting' = [meeting EXCEPT ![op[p].req.meeting].at = op[p].req.at]
        BY <3>1 DEF RescheduleMeeting, Writing
      <4>2. op[p].req.meeting # m
        BY <2>2, <4>1 DEF Moving
      <4> QED
        BY <1>1, <4>1, <4>2
    <3>2. ASSUME NEW p \in Operators, CancelMeeting(p)
          PROVE  meeting'[m] = meeting[m]
      <4>1. meeting[op[p].req.meeting].status = "planned"
            /\ meeting' = [meeting EXCEPT ![op[p].req.meeting].status = "cancelled"]
        BY <3>2 DEF CancelMeeting, Changeable
      <4> QED
        BY <1>1, <2>2, <4>1
    <3>3. ASSUME NEW p \in Operators, SaveAttendanceRoster(p)
          PROVE  meeting'[m] = meeting[m] \/ meeting'[m] = Held(meeting[m], "completed")
      BY <3>3, SaveEffect
    <3>4. ASSUME NEW p \in Operators, CreateAttendanceSession(p)
          PROVE  meeting'[m] = meeting[m]
      <4>1. PICK n \in Meetings :
              meeting[n] = NoMeeting /\ \E row : meeting' = [meeting EXCEPT ![n] = row]
        BY <3>4 DEF CreateAttendanceSession
      <4>2. PICK row : meeting' = [meeting EXCEPT ![n] = row]
        BY <4>1
      <4>3. n # m
        BY <2>2, <4>1 DEF NoMeeting
      <4> QED
        BY <1>1, <4>2, <4>3
    <3>5. ASSUME NEW p \in Operators, Begin(p) \/ Lock(p) \/ Work(p),
                 ~ (\/ CreateAttendanceSession(p) \/ RescheduleMeeting(p)
                    \/ CancelMeeting(p) \/ SaveAttendanceRoster(p))
          PROVE  UNCHANGED meeting
      BY <3>5 DEF Begin, Lock, Work, Confirm, AddRunEnrollment, LeaveRunEnrollment, TransferLearner,
         LeaveSlot, LockRoster, RecordExamResult, Refuse, AbortVictim, tables
    <3>6. DeleteExamResult \/ Tick \/ UNCHANGED vars => UNCHANGED meeting
      BY DEF DeleteExamResult, Tick, vars, tables
    <3> QED
      BY <3>1, <3>2, <3>3, <3>4, <3>5, <3>6 DEF Next
  <2> QED
    BY <2>1, <2>2 DEF Settled
<1>3. /\ meeting'[m].at = meeting[m].at
      /\ meeting'[m].run = meeting[m].run /\ meeting'[m].number = meeting[m].number
      /\ meeting'[m].status \in {meeting[m].status, "completed"}
  BY <1>1, <1>2, HeldRow
<1>4. meeting[m].at <= now'
  BY <1>1, TimeGoesOn DEF Running
<1> QED
  BY <1>3, <1>4 DEF Running

\* Nor does an enrollment that began begin anew.
LEMMA StaysEnrolled ==
  ASSUME Typed, [Next]_vars, NEW r \in Runs, NEW e \in Employees, enr[r][e].status # "none"
  PROVE  enr'[r][e].status # "none" /\ enr'[r][e].start = enr[r][e].start
<1>0. Learning
  BY DEF Typed
<1>1. CASE UNCHANGED <<enr, member, override>>
  BY <1>1
<1>2. ASSUME NEW p \in Operators, AddRunEnrollment(p)
      PROVE  enr'[r][e] = enr[r][e]
  BY <1>2, JoinedEnrollment
<1>3. ASSUME NEW p \in Operators, LeaveRunEnrollment(p)
      PROVE  enr'[r][e] \in {enr[r][e], Closed(enr[r][e], "dropped")}
  BY <1>3, LeaveEffect
<1>4. ASSUME NEW p \in Operators, TransferLearner(p)
      PROVE  enr'[r][e] \in {enr[r][e], Closed(enr[r][e], "transferred")}
  BY <1>4, TransferredEnrollment
<1>5. enr[r][e] \in Enrollment
  BY <1>0 DEF Learning
<1> QED
  BY <1>1, <1>2, <1>3, <1>4, <1>5, ClosedRow, LearningChanges

\* Who takes part in a session that has begun goes on doing so.
LEMMA StaysAttending ==
  ASSUME Typed, \A p \in Operators : Locking(p) /\ Moving(p), [Next]_vars,
         NEW m \in Meetings, Running(m), Settled(m), NEW e \in Employees, Attends(m, e)
  PROVE  Attends(m, e)'
<1>1. meeting[m].run \in Runs
  BY DEF Typed, Teaching, Running
<1> QED
  BY <1>1, StaysRunning, StaysEnrolled DEF Attends

\* Only saving a roster changes what is recorded.
LEMMA RecordsChange ==
  ASSUME [Next]_vars
  PROVE  UNCHANGED att \/ \E p \in Operators : SaveAttendanceRoster(p)
<1>1. ASSUME NEW p \in Operators, Begin(p) \/ Lock(p) \/ Work(p), ~ SaveAttendanceRoster(p)
      PROVE  UNCHANGED att
  BY <1>1 DEF Begin, Lock, Work, Confirm, AddRunEnrollment, LeaveRunEnrollment, TransferLearner,
     CreateAttendanceSession, LeaveSlot, RescheduleMeeting, CancelMeeting,
     LockRoster, RecordExamResult, Refuse, AbortVictim, tables
<1>2. DeleteExamResult \/ Tick \/ UNCHANGED vars => UNCHANGED att
  BY DEF DeleteExamResult, Tick, vars, tables
<1> QED
  BY <1>1, <1>2 DEF Next

\* A transaction that is about to write was so before, or has just begun to.
LEMMA WritersCome ==
  ASSUME Transacting, [Next]_vars, NEW o \in Operators, op'[o].step = "write"
  PROVE  \/ op[o].step = "write" /\ op'[o].req = op[o].req
         \/ Confirm(o) \/ LeaveSlot(o) \/ LockRoster(o)
<1>0. DOMAIN op = Operators
  BY DEF Transacting
<1>1. ASSUME NEW p \in Operators, Release(p)
      PROVE  op'[o] = op[o]
  BY <1>0, <1>1 DEF Release, Idle
<1>2. ASSUME NEW p \in Operators, Begin(p)
      PROVE  op'[o] = op[o]
  BY <1>0, <1>2 DEF Begin
<1>3. ASSUME NEW p \in Operators, Lock(p)
      PROVE  op[o].step = "write" /\ op'[o].req = op[o].req
  <2>1. op[p] \in Tx
    BY <1>3, InTx DEF Lock, Waiting
  <2> DEFINE t == [op[p] EXCEPT !.want = Tail(@)]
  <2>2. t.step = op[p].step /\ t.req = op[p].req
    BY <2>1 DEF Tx
  <2>3. op' = [op EXCEPT ![p] = t]
    BY <1>3 DEF Lock
  <2> HIDE DEF t
  <2> QED
    BY <1>0, <2>2, <2>3
<1>4. ASSUME NEW p \in Operators, Confirm(p) \/ LeaveSlot(p) \/ LockRoster(p), p # o
      PROVE  op'[o] = op[o]
  BY <1>0, <1>4 DEF Confirm, LeaveSlot, LockRoster
<1>5. DeleteExamResult \/ Tick \/ UNCHANGED vars => UNCHANGED op
  BY DEF DeleteExamResult, Tick, vars
<1>6. ASSUME NEW p \in Operators, Work(p), ~ (Confirm(p) \/ LeaveSlot(p) \/ LockRoster(p))
      PROVE  Release(p)
  BY <1>6 DEF Work, AddRunEnrollment, LeaveRunEnrollment, TransferLearner, CreateAttendanceSession,
     RescheduleMeeting, CancelMeeting, SaveAttendanceRoster, RecordExamResult, Refuse, AbortVictim
<1> QED
  BY <1>1, <1>2, <1>3, <1>4, <1>5, <1>6 DEF Next

\* What it writes is what it locked for.
LEMMA SameRequest ==
  ASSUME Transacting, NEW o \in Operators, Confirm(o) \/ LeaveSlot(o) \/ LockRoster(o)
  PROVE  op'[o].req = op[o].req
<1>1. op[o] \in Tx /\ DOMAIN op = Operators
  BY InTx DEF Confirm, LeaveSlot, LockRoster, Locked, Transacting
<1>2. PICK w : op' = [op EXCEPT ![o] = [op[o] EXCEPT !.step = "write", !.want = w]]
  <2>1. \E w : op' = [op EXCEPT ![o].step = "write", ![o].want = w]
    BY DEF Confirm, LeaveSlot, LockRoster
  <2> QED
    BY <1>1, <2>1
<1> QED
  BY <1>1, <1>2 DEF Tx

\* Two rosters of one meeting are not written together: both own its row.
LEMMA OneWriter ==
  ASSUME Transacting, \A p \in Operators : Locking(p),
         NEW p \in Operators, Writes(p), NEW o \in Operators, Writes(o),
         op[p].req.meeting = op[o].req.meeting
  PROVE  p = o
  BY WriterHolds DEF Writes

\* A meeting that is about to be moved stays planned until it is.
LEMMA MovingStep ==
  ASSUME Typed, \A p \in Operators : Locking(p) /\ Moving(p), [Next]_vars
  PROVE  \A p \in Operators : Moving(p)'
<1> SUFFICES ASSUME NEW o \in Operators, NEW m, m = op'[o].req.meeting,
                    op'[o].step = "write", op'[o].req.kind = "move"
             PROVE  meeting'[m].status = "planned"
  BY DEF Moving
<1>0. Transacting
  BY DEF Typed
<1>1. CASE op[o].step = "write" /\ op'[o].req = op[o].req
  <2>1. meeting[m].status = "planned" /\ op[o].req.kind = "move"
    BY <1>1 DEF Moving
  <2>2. ~ RescheduleMeeting(o)
    <3> SUFFICES ASSUME RescheduleMeeting(o) PROVE FALSE
      OBVIOUS
    <3>1. op'[o] = Idle
      BY <1>0 DEF RescheduleMeeting, Release, Transacting
    <3> QED
      BY <3>1 DEF Idle
  <2>3. meeting'[m] = meeting[m]
    BY <1>1, <2>1, <2>2, StatusSteps
  <2> QED
    BY <2>1, <2>3
<1>2. CASE Confirm(o) \/ LeaveSlot(o) \/ LockRoster(o)
  <2>1. op[o].req = op'[o].req
    BY <1>0, <1>2, SameRequest
  <2>2. LeaveSlot(o)
    BY <1>2, <2>1 DEF Confirm, LockRoster
  <2> QED
    BY <2>1, <2>2 DEF LeaveSlot, Changeable, tables
<1> QED
  BY <1>0, <1>1, <1>2, WritersCome

\* What is about to be written stays true until it is.
LEMMA SavingStep ==
  ASSUME Typed, \A p \in Operators : Locking(p) /\ Moving(p) /\ Saving(p), [Next]_vars
  PROVE  \A p \in Operators : Saving(p)'
<1> SUFFICES ASSUME NEW o \in Operators, NEW q, q = op'[o].req,
                    op'[o].step = "write", q.kind = "save"
             PROVE  /\ Running(q.meeting)'
                    /\ \A e \in DOMAIN q.marks :
                         Attends(q.meeting, e)' /\ q.token.rows[e] = att'[q.meeting][e]
  BY DEF Saving, Running, Attends
<1>0. Transacting
  BY DEF Typed
<1>1. CASE op[o].step = "write" /\ op'[o].req = op[o].req
  <2>1. /\ q = op[o].req /\ op[o].step = "write" /\ q \in Request
        /\ q.meeting \in Meetings /\ DOMAIN q.marks \subseteq Employees
    BY <1>0, <1>1, InTx, MeetingFields, SaveFields
  <2>2. /\ Running(q.meeting)
        /\ \A e \in DOMAIN q.marks : Attends(q.meeting, e) /\ q.token.rows[e] = att[q.meeting][e]
    BY <2>1 DEF Saving
  <2>3. att'[q.meeting] = att[q.meeting]
    <3>1. ASSUME NEW p \in Operators, SaveAttendanceRoster(p), op[p].req.meeting = q.meeting
          PROVE  FALSE
      <4>1. p = o
        BY <1>0, <2>1, <3>1, OneWriter DEF SaveAttendanceRoster, Writing, Writes
      <4>2. op'[o] = Idle
        BY <1>0, <3>1, <4>1 DEF SaveAttendanceRoster, Release, Transacting
      <4> QED
        BY <4>2 DEF Idle
    <3>2. ASSUME NEW p \in Operators, SaveAttendanceRoster(p)
          PROVE  att'[q.meeting] = att[q.meeting]
      <4>1. op[p].req.meeting # q.meeting
        BY <3>1, <3>2
      <4>2. att \in [Meetings -> [Employees -> Marks]]
        BY DEF Typed, Teaching
      <4> QED
        BY <2>1, <3>2, <4>1, <4>2 DEF SaveAttendanceRoster
    <3> QED
      BY <3>2, RecordsChange
  <2>4. Settled(q.meeting)
    BY <2>1 DEF Settled, Writes
  <2>5. Running(q.meeting)' /\ \A e \in DOMAIN q.marks : Attends(q.meeting, e)'
    BY <2>1, <2>2, <2>4, StaysRunning, StaysAttending
  <2> QED
    BY <2>2, <2>3, <2>5
<1>2. CASE Confirm(o) \/ LeaveSlot(o) \/ LockRoster(o)
  <2>1. q = op[o].req
    BY <1>0, <1>2, SameRequest
  <2>2. LockRoster(o)
    BY <1>2, <2>1 DEF Confirm, LeaveSlot
  <2>3. /\ q \in Request /\ Loaded(q)
        /\ meeting[q.meeting].status # "cancelled" /\ meeting[q.meeting].at <= now
        /\ q.token = RosterToken(q.meeting)
        /\ UNCHANGED <<now, enr, meeting, att>>
    BY <1>0, <2>1, <2>2, InTx DEF LockRoster, Locked, tables
  <2>4. q.meeting \in Meetings /\ DOMAIN q.marks = DOMAIN q.token.rows
    BY <2>3, MeetingFields, SaveFields
  <2>5. Running(q.meeting)
    <3>1. meeting[q.meeting] \in Meeting /\ meeting[q.meeting].status # "free"
      BY <2>3, <2>4 DEF Typed, Teaching, Loaded
    <3> QED
      BY <2>3, <3>1 DEF Running, Meeting
  <2>6. q.token.rows = [e \in Roster(q.meeting) |-> att[q.meeting][e]]
    BY <2>3 DEF RosterToken
  <2>7. \A e \in DOMAIN q.marks : Attends(q.meeting, e) /\ q.token.rows[e] = att[q.meeting][e]
    BY <2>4, <2>6 DEF Roster, Applicable, Attends
  <2> QED
    BY <2>3, <2>5, <2>7 DEF Running, Attends
<1> QED
  BY <1>0, <1>1, <1>2, WritersCome

\* At first nothing is recorded, and nothing about to be.
LEMMA EvidenceInit == Init => EvidenceOfHeldSessions /\ \A p \in Operators : Moving(p) /\ Saving(p)
  BY DEF Init, EvidenceOfHeldSessions, Recorded, Moving, Saving, Idle

\* Records are added by a roster that is true when it is written, and what they
\* say of the meeting and the learner does not change any more.
LEMMA EvidenceStep ==
  ASSUME Typed, \A p \in Operators : Locking(p) /\ Moving(p) /\ Saving(p), EvidenceOfHeldSessions, [Next]_vars
  PROVE  EvidenceOfHeldSessions'
<1> SUFFICES ASSUME NEW m \in Meetings, NEW e \in Employees, att'[m][e] # "none"
             PROVE  meeting'[m].status = "completed" /\ Running(m)' /\ Attends(m, e)'
  BY DEF EvidenceOfHeldSessions, Recorded, Running, Attends
<1>1. CASE att[m][e] # "none"
  <2>1. Running(m) /\ meeting[m].status = "completed" /\ Attends(m, e)
    BY <1>1 DEF EvidenceOfHeldSessions, Recorded, Running, Attends
  <2>2. Settled(m)
    BY <2>1 DEF Settled
  <2> QED
    BY <2>1, <2>2, StaysRunning, StaysAttending
<1>2. CASE att[m][e] = "none"
  <2>1. PICK p \in Operators : SaveAttendanceRoster(p)
    BY <1>2, RecordsChange
  <2> DEFINE q == op[p].req
  <2>2. /\ q.kind = "save" /\ op[p].step = "write" /\ m = q.meeting /\ e \in DOMAIN q.marks
        /\ meeting'[m] = Held(meeting[m], "completed")
    BY <1>2, <2>1, SaveEffect DEF SaveAttendanceRoster, Writing
  <2>3. Running(m) /\ Attends(m, e) /\ Settled(m)
    BY <2>2 DEF Saving, Settled, Writes
  <2>4. meeting'[m].status = "completed"
    BY <2>2, HeldRow DEF Typed, Teaching
  <2> QED
    BY <2>3, <2>4, StaysRunning, StaysAttending
<1> QED
  BY <1>1, <1>2

\* The locks, what is about to be written and what was recorded.
LEMMA Recording ==
  Spec => []((\A p \in Operators : Locking(p) /\ Moving(p) /\ Saving(p)) /\ EvidenceOfHeldSessions)
<1> DEFINE I == (\A p \in Operators : Locking(p) /\ Moving(p) /\ Saving(p)) /\ EvidenceOfHeldSessions
<1>1. Init => I
  BY LockingInit, EvidenceInit
<1>2. Typed /\ I /\ [Next]_vars => I'
  BY LockingStep, MovingStep, SavingStep, EvidenceStep
<1> QED
  BY <1>1, <1>2, Invariance, PTL DEF Spec

\* Records belong to completed sessions that began, and to learners who had
\* joined by their number: no move, cancellation or enrollment slips between the
\* roster's second reading and its writing.
THEOREM Evidence == Spec => []EvidenceOfHeldSessions
  BY Recording, PTL

\* No lost update: a roster is written over what its operator saw.
THEOREM NoLostUpdate == Spec => SavedOverSeen
<1> DEFINE Seen ==
      \A p \in Operators :
         SaveAttendanceRoster(p) =>
           \A e \in Employees :
             att'[op[p].req.meeting][e] # att[op[p].req.meeting][e] =>
               e \in DOMAIN op[p].req.token.rows
                 /\ op[p].req.token.rows[e] = att[op[p].req.meeting][e]
<1>1. ASSUME Typed, \A p \in Operators : Saving(p)
      PROVE  Seen
  <2> SUFFICES ASSUME NEW p \in Operators, SaveAttendanceRoster(p), NEW e \in Employees,
                      att'[op[p].req.meeting][e] # att[op[p].req.meeting][e]
               PROVE  /\ e \in DOMAIN op[p].req.token.rows
                      /\ op[p].req.token.rows[e] = att[op[p].req.meeting][e]
    OBVIOUS
  <2> DEFINE q == op[p].req
  <2>1. /\ q \in Request /\ q.kind = "save" /\ q.meeting \in Meetings /\ e \in DOMAIN q.marks
    BY <1>1, SaveEffect
  <2>2. e \in DOMAIN q.token.rows
    BY <2>1, SaveFields
  <2>3. q.token.rows[e] = att[q.meeting][e]
    BY <1>1, <2>1 DEF Saving, SaveAttendanceRoster, Writing
  <2> QED
    BY <2>2, <2>3
<1>2. Typed /\ (\A p \in Operators : Locking(p) /\ Moving(p) /\ Saving(p)) => [Seen]_vars
  BY <1>1
<1> HIDE DEF Seen
<1>3. Spec => [][Seen]_vars
  BY <1>2, Invariance, Recording, PTL
<1> QED
  BY <1>3 DEF Seen, SavedOverSeen

-----------------------------------------------------------------------------
(* Finite sets in order.                                                   *)

\* R puts the members of S in a line.
StrictOrder(S, R) ==
  /\ \A x \in S : <<x, x>> \notin R
  /\ \A x, y, z \in S : <<x, y>> \in R /\ <<y, z>> \in R => <<x, z>> \in R
  /\ \A x, y \in S : x # y => <<x, y>> \in R \/ <<y, x>> \in R

\* A finite set has a first element: the sets of the earlier ones cannot
\* shrink for ever.
LEMMA FirstExists ==
  ASSUME NEW S, IsFiniteSet(S), S # {}, NEW R, StrictOrder(S, R)
  PROVE  \E x \in S : \A y \in S \ {x} : <<x, y>> \in R
<1> DEFINE Under(x) == {y \in S : <<y, x>> \in R}
           T == {Under(x) : x \in S}
<1>1. T \subseteq FiniteSubsetsOf(S) /\ T # {}
  <2>1. \A m \in S : Under(m) \subseteq S /\ IsFiniteSet(Under(m))
    BY FS_Subset
  <2> QED
    BY <2>1 DEF FiniteSubsetsOf
<1>2. PICK A \in T : \A B \in T : ~ (<<B, A>> \in StrictSubsetOrdering(S))
  <2> HIDE DEF T
  <2> QED
    BY <1>1, FS_StrictSubsetOrderingWellFounded, WFMin
<1>3. PICK x \in S : A = Under(x)
  OBVIOUS
<1>4. ASSUME NEW y \in S, <<y, x>> \in R PROVE FALSE
  <2>1. Under(y) \in T /\ Under(y) \in SUBSET S /\ A \in SUBSET S
    BY <1>3
  <2>2. <<Under(y), A>> \notin StrictSubsetOrdering(S)
    BY <1>2, <2>1
  <2>3. Under(y) \subseteq A
    BY <1>3, <1>4 DEF StrictOrder
  <2>4. y \in A /\ y \notin Under(y)
    BY <1>3, <1>4 DEF StrictOrder
  <2> HIDE DEF Under
  <2> QED
    BY <2>1, <2>2, <2>3, <2>4 DEF StrictSubsetOrdering
<1>5. \A y \in S \ {x} : <<x, y>> \in R
  BY <1>4 DEF StrictOrder
<1> QED
  BY <1>5

\* ... and a last one.
LEMMA LastExists ==
  ASSUME NEW S, IsFiniteSet(S), S # {}, NEW R, StrictOrder(S, R)
  PROVE  \E x \in S : \A y \in S \ {x} : <<y, x>> \in R
<1> DEFINE Q == {p \in S \X S : <<p[2], p[1]>> \in R}
<1>0. \A x, y \in S : <<x, y>> \in Q <=> <<y, x>> \in R
  OBVIOUS
<1> HIDE DEF Q
<1>1. StrictOrder(S, Q)
  BY <1>0 DEF StrictOrder
<1>2. PICK x \in S : \A y \in S \ {x} : <<x, y>> \in Q
  BY <1>1, FirstExists
<1> QED BY <1>0, <1>2

\* A list of the members of S in the order R.
Enumerates(s, S, R) ==
  /\ s \in [1..Cardinality(S) -> S]
  /\ \A i, j \in 1..Cardinality(S) : i < j => <<s[i], s[j]>> \in R

\* A list goes on with the last element.
LEMMA ListGrows ==
  ASSUME NEW S, IsFiniteSet(S), NEW R, NEW x \in S, \A y \in S \ {x} : <<y, x>> \in R,
         NEW s, Enumerates(s, S \ {x}, R)
  PROVE  \E t : Enumerates(t, S, R)
<1> DEFINE n == Cardinality(S)
           t == [i \in 1..n |-> IF i = n THEN x ELSE s[i]]
<1>1. n \in Nat /\ Cardinality(S \ {x}) = n - 1 /\ n - 1 \in Nat
  BY FS_CardinalityType, FS_RemoveElement, FS_EmptySet
<1> HIDE DEF n
<1>2. s \in [1..(n - 1) -> S \ {x}] /\ \A i, j \in 1..(n - 1) : i < j => <<s[i], s[j]>> \in R
  BY <1>1 DEF Enumerates
<1>3. t \in [1..n -> S]
  BY <1>1, <1>2
<1>4. t[n] = x /\ \A i \in 1..n : i # n => i \in 1..(n - 1) /\ t[i] = s[i] /\ t[i] \in S \ {x}
  BY <1>1, <1>2
<1> HIDE DEF t
<1>5. ASSUME NEW i \in 1..n, NEW j \in 1..n, i < j PROVE <<t[i], t[j]>> \in R
  <2>1. i # n
    BY <1>1, <1>5
  <2>2. CASE j = n
    BY <1>4, <2>1, <2>2
  <2>3. CASE j # n
    BY <1>4, <1>2, <2>1, <2>3, <1>5
  <2> QED BY <2>2, <2>3
<1> QED BY <1>3, <1>5 DEF Enumerates, n

\* The members of a finite set can be listed in their order.
LEMMA EnumerationExists ==
  ASSUME NEW S, IsFiniteSet(S), NEW R, StrictOrder(S, R)
  PROVE  \E s : Enumerates(s, S, R)
<1> DEFINE Bad == {T \in SUBSET S : ~ \E s : Enumerates(s, T, R)}
<1> SUFFICES ASSUME Bad # {} PROVE FALSE
  OBVIOUS
<1>1. Bad \subseteq FiniteSubsetsOf(S)
  BY FS_Subset DEF FiniteSubsetsOf
<1>2. PICK T \in Bad : \A U \in Bad : ~ (<<U, T>> \in StrictSubsetOrdering(S))
  <2> HIDE DEF Bad
  <2> QED
    BY <1>1, FS_StrictSubsetOrderingWellFounded, WFMin
<1>3. T \in SUBSET S /\ IsFiniteSet(T) /\ ~ \E s : Enumerates(s, T, R)
  BY FS_Subset
<1>4. T # {}
  <2> SUFFICES ASSUME T = {} PROVE FALSE
    OBVIOUS
  <2> DEFINE s == [i \in 1..0 |-> i]
  <2>1. Cardinality(T) = 0
    BY FS_EmptySet
  <2>2. s \in [1..0 -> T]
    OBVIOUS
  <2>3. \A i \in 1..0 : FALSE
    OBVIOUS
  <2> HIDE DEF s
  <2>4. Enumerates(s, T, R)
    BY <2>1, <2>2, <2>3 DEF Enumerates
  <2> QED BY <2>4, <1>3
<1>5. PICK x \in T : \A y \in T \ {x} : <<y, x>> \in R
  <2>1. StrictOrder(T, R)
    BY <1>3 DEF StrictOrder
  <2> QED BY <1>3, <1>4, <2>1, LastExists
<1>6. T \ {x} \notin Bad
  <2>1. T \ {x} \in SUBSET S /\ T \ {x} # T
    BY <1>3
  <2>2. <<T \ {x}, T>> \in StrictSubsetOrdering(S)
    BY <2>1, <1>3 DEF StrictSubsetOrdering
  <2> QED BY <1>2, <2>2
<1>7. PICK s : Enumerates(s, T \ {x}, R)
  BY <1>3, <1>6
<1>8. \E t : Enumerates(t, T, R)
  <2> HIDE DEF Bad
  <2> QED BY <1>3, <1>5, <1>7, ListGrows
<1> QED BY <1>3, <1>8

\* A list in strict order that has as many places as the set has members is
\* one-to-one and lists them all.
LEMMA EnumerationListsAll ==
  ASSUME NEW S, IsFiniteSet(S), NEW R, StrictOrder(S, R), NEW s, Enumerates(s, S, R)
  PROVE  /\ Cardinality(S) \in Nat
         /\ Len(s) = Cardinality(S)
         /\ DOMAIN s = 1..Cardinality(S)
         /\ \A i, j \in 1..Cardinality(S) : s[i] = s[j] => i = j
         /\ \A x \in S : \E i \in 1..Cardinality(S) : s[i] = x
<1> DEFINE n == Cardinality(S)
<1>1. n \in Nat
  BY FS_CardinalityType
<1>2. s \in [1..n -> S] /\ \A i, j \in 1..n : i < j => <<s[i], s[j]>> \in R
  BY DEF Enumerates
<1>3. Cardinality(1..n) = n /\ IsFiniteSet(1..n)
  BY <1>1, FS_Interval
<1> HIDE DEF n
<1>4. \A i, j \in 1..n : s[i] = s[j] => i = j
  <2> SUFFICES ASSUME NEW i \in 1..n, NEW j \in 1..n, s[i] = s[j], i # j PROVE FALSE
    OBVIOUS
  <2>1. i < j \/ j < i
    BY <1>1
  <2> QED BY <2>1, <1>2 DEF StrictOrder
<1>5. s \in Injection(1..n, S)
  BY <1>2, <1>4 DEF Injection, IsInjective
<1>6. s \in Surjection(1..n, S)
  <2>1. Cardinality(1..n) = Cardinality(S)
    BY <1>3 DEF n
  <2> QED BY <2>1, <1>5, FS_Injection
<1>7. \A x \in S : \E i \in 1..n : s[i] = x
  BY <1>6 DEF Surjection
<1>8. Len(s) = n
  BY <1>1, <1>2
<1>9. DOMAIN s = 1..n
  BY <1>2
<1> QED BY <1>1, <1>4, <1>7, <1>8, <1>9 DEF n

-----------------------------------------------------------------------------
(* Orders of the allocation.                                               *)

\* The first difference of two different lists of numbers of one length
\* decides between them.
LEMMA BeforeDecides ==
  ASSUME NEW n \in Nat, NEW a \in [1..n -> Nat], NEW b \in [1..n -> Nat]
  PROVE  /\ ~ Before(a, a)
         /\ a # b => Before(a, b) \/ Before(b, a)
<1>1. ~ Before(a, a)
  BY DEF Before
<1>2. ASSUME a # b PROVE Before(a, b) \/ Before(b, a)
  <2> DEFINE D == {i \in 1..n : a[i] # b[i]}
  <2>1. D # {} /\ D \in SUBSET Nat
    BY <1>2
  <2>2. PICK i \in D : \A k \in D : i <= k
    BY <2>1, LeastNumber
  <2>3. i \in 1..n /\ a[i] # b[i] /\ a[i] \in Nat /\ b[i] \in Nat
    BY <2>2
  <2>4. \A j \in 1..(i - 1) : a[j] = b[j] /\ b[j] = a[j]
    <3> SUFFICES ASSUME NEW j \in 1..(i - 1) PROVE a[j] = b[j]
      OBVIOUS
    <3>1. j \in 1..n /\ ~ (i <= j)
      BY <2>3
    <3> QED BY <3>1, <2>2
  <2>5. a[i] < b[i] \/ b[i] < a[i]
    BY <2>3
  <2> HIDE DEF D
  <2> QED BY <2>3, <2>4, <2>5 DEF Before
<1> QED BY <1>1, <1>2

\* The order of the first difference is transitive.
LEMMA BeforeTransitive ==
  ASSUME NEW n \in Nat, NEW a \in [1..n -> Nat], NEW b \in [1..n -> Nat],
         NEW c \in [1..n -> Nat], Before(a, b), Before(b, c)
  PROVE  Before(a, c)
<1>1. PICK i \in 1..n : a[i] < b[i] /\ \A j \in 1..(i - 1) : a[j] = b[j]
  BY DEF Before
<1>2. PICK k \in 1..n : b[k] < c[k] /\ \A j \in 1..(k - 1) : b[j] = c[j]
  BY DEF Before
<1>3. /\ a[i] \in Nat /\ b[i] \in Nat /\ c[i] \in Nat
      /\ a[k] \in Nat /\ b[k] \in Nat /\ c[k] \in Nat
  OBVIOUS
<1>4. CASE i <= k
  <2>1. a[i] < c[i]
    <3>1. CASE i = k
      BY <3>1, <1>1, <1>2, <1>3
    <3>2. CASE i # k
      <4>1. i \in 1..(k - 1)
        BY <1>4, <3>2
      <4> QED BY <4>1, <1>1, <1>2
    <3> QED BY <3>1, <3>2
  <2>2. \A j \in 1..(i - 1) : a[j] = c[j]
    <3> SUFFICES ASSUME NEW j \in 1..(i - 1) PROVE a[j] = c[j]
      OBVIOUS
    <3>1. j \in 1..(k - 1)
      BY <1>4
    <3> QED BY <3>1, <1>1, <1>2
  <2> QED BY <2>1, <2>2 DEF Before
<1>5. CASE k < i
  <2>1. k \in 1..(i - 1)
    BY <1>5
  <2>2. a[k] < c[k]
    BY <2>1, <1>1, <1>2
  <2>3. \A j \in 1..(k - 1) : a[j] = c[j]
    <3> SUFFICES ASSUME NEW j \in 1..(k - 1) PROVE a[j] = c[j]
      OBVIOUS
    <3>1. j \in 1..(i - 1)
      BY <1>5
    <3> QED BY <3>1, <1>1, <1>2
  <2> QED BY <2>2, <2>3 DEF Before
<1> QED BY <1>4, <1>5

\* By a cost, and at one cost by a list that tells the members apart.
ByCost(A, cost, sig) ==
  {p \in A \X A : \/ cost[p[1]] < cost[p[2]]
                  \/ cost[p[1]] = cost[p[2]] /\ Before(sig[p[1]], sig[p[2]])}

\* That is a strict order.
LEMMA CostOrders ==
  ASSUME NEW A, NEW n \in Nat, NEW cost \in [A -> Nat], NEW sig \in [A -> [1..n -> Nat]],
         \A x, y \in A : sig[x] = sig[y] => x = y
  PROVE  StrictOrder(A, ByCost(A, cost, sig))
<1> DEFINE R == ByCost(A, cost, sig)
<1>1. \A x, y \in A : <<x, y>> \in R <=> \/ cost[x] < cost[y]
                                         \/ cost[x] = cost[y] /\ Before(sig[x], sig[y])
  BY DEF ByCost
<1>2. \A x \in A : cost[x] \in Nat /\ sig[x] \in [1..n -> Nat]
  OBVIOUS
<1> HIDE DEF R
<1>3. ASSUME NEW x \in A PROVE <<x, x>> \notin R
  <2>1. ~ (cost[x] < cost[x])
    BY <1>2
  <2>2. ~ Before(sig[x], sig[x])
    BY <1>2, BeforeDecides
  <2> QED BY <1>1, <2>1, <2>2
<1>4. ASSUME NEW x \in A, NEW y \in A, NEW z \in A, <<x, y>> \in R, <<y, z>> \in R
      PROVE  <<x, z>> \in R
  <2>1. cost[x] \in Nat /\ cost[y] \in Nat /\ cost[z] \in Nat
    BY <1>2
  <2>2. /\ cost[x] < cost[y] \/ (cost[x] = cost[y] /\ Before(sig[x], sig[y]))
        /\ cost[y] < cost[z] \/ (cost[y] = cost[z] /\ Before(sig[y], sig[z]))
    BY <1>1, <1>4
  <2>3. Before(sig[x], sig[y]) /\ Before(sig[y], sig[z]) => Before(sig[x], sig[z])
    BY <1>2, BeforeTransitive
  <2>4. cost[x] < cost[z] \/ (cost[x] = cost[z] /\ Before(sig[x], sig[z]))
    BY <2>1, <2>2, <2>3
  <2> QED BY <1>1, <2>4
<1>5. ASSUME NEW x \in A, NEW y \in A, x # y PROVE <<x, y>> \in R \/ <<y, x>> \in R
  <2>1. cost[x] \in Nat /\ cost[y] \in Nat
    BY <1>2
  <2>2. Before(sig[x], sig[y]) \/ Before(sig[y], sig[x])
    BY <1>2, <1>5, BeforeDecides
  <2> QED BY <1>1, <2>1, <2>2
<1> QED BY <1>3, <1>4, <1>5 DEF StrictOrder, R

\* Keys are listed in increasing order, each once.
LEMMA SortedLists ==
  ASSUME NEW keys \in SUBSET Nat, IsFiniteSet(keys)
  PROVE  /\ Sorted(keys) \in [1..Cardinality(keys) -> keys]
         /\ Cardinality(keys) \in Nat
         /\ Len(Sorted(keys)) = Cardinality(keys)
         /\ DOMAIN Sorted(keys) = 1..Cardinality(keys)
         /\ \A i, j \in 1..Cardinality(keys) : Sorted(keys)[i] = Sorted(keys)[j] => i = j
         /\ \A k \in keys : \E i \in 1..Cardinality(keys) : Sorted(keys)[i] = k
<1> DEFINE R == {p \in keys \X keys : p[1] < p[2]}
           n == Cardinality(keys)
<1>1. \A x, y \in keys : <<x, y>> \in R <=> x < y
  OBVIOUS
<1> HIDE DEF R
<1>2. StrictOrder(keys, R)
  BY <1>1 DEF StrictOrder
<1>3. PICK s : Enumerates(s, keys, R)
  BY <1>2, EnumerationExists
<1>4. s \in [1..n -> keys] /\ \A i, j \in DOMAIN s : i < j => s[i] < s[j]
  <2>1. s \in [1..n -> keys] /\ \A i, j \in 1..n : i < j => <<s[i], s[j]>> \in R
    BY <1>3 DEF Enumerates
  <2> HIDE DEF n
  <2>2. DOMAIN s = 1..n
    BY <2>1
  <2> QED BY <2>1, <2>2, <1>1
<1> HIDE DEF n
<1>5. Sorted(keys) \in [1..n -> keys] /\ \A i, j \in DOMAIN Sorted(keys) : i < j => Sorted(keys)[i] < Sorted(keys)[j]
  BY <1>4 DEF Sorted, InOrder, n
<1>6. PICK t : t = Sorted(keys)
  OBVIOUS
<1>7. Enumerates(t, keys, R)
  <2>1. t \in [1..n -> keys] /\ \A i, j \in 1..n : i < j => t[i] < t[j]
    BY <1>5, <1>6
  <2>2. \A i, j \in 1..n : i < j => <<t[i], t[j]>> \in R
    BY <2>1, <1>1
  <2> QED BY <2>1, <2>2 DEF Enumerates, n
<1>8. /\ Cardinality(keys) \in Nat
      /\ Len(t) = Cardinality(keys)
      /\ DOMAIN t = 1..Cardinality(keys)
      /\ \A i, j \in 1..Cardinality(keys) : t[i] = t[j] => i = j
      /\ \A x \in keys : \E i \in 1..Cardinality(keys) : t[i] = x
  BY <1>2, <1>7, EnumerationListsAll
<1> QED BY <1>5, <1>6, <1>8 DEF n

-----------------------------------------------------------------------------
(* Costs.                                                                  *)

\* The running sums of a list of numbers.
Sums(t, d, f) ==
  /\ f \in [Nat -> Nat]
  /\ f[0] = 0
  /\ \A n \in 0..(d - 1) : f[n + 1] = f[n] + t[n + 1]

\* They exist and never fall.
LEMMA SumsExist ==
  ASSUME NEW d \in Nat, NEW t \in [1..d -> Nat]
  PROVE  \E f : Sums(t, d, f) /\ \A m, n \in Nat : m <= n => f[m] <= f[n]
<1> DEFINE G == [n \in Nat |-> [x \in Nat |-> IF n + 1 \in 1..d THEN x + t[n + 1] ELSE x]]
<1>2. \A n, x \in Nat : G[n][x] = IF n + 1 \in 1..d THEN x + t[n + 1] ELSE x
  OBVIOUS
<1> HIDE DEF G
<1>3. PICK f \in [Nat -> Nat] : f[0] = 0 /\ \A n \in Nat : f[n + 1] = G[n][f[n]]
  <2>1. \A n, x \in Nat : G[n][x] \in Nat
    <3>1. \A i \in 1..d : t[i] \in Nat
      OBVIOUS
    <3> SUFFICES ASSUME NEW n \in Nat, NEW x \in Nat PROVE G[n][x] \in Nat
      OBVIOUS
    <3>2. CASE n + 1 \in 1..d
      <4>1. x + t[n + 1] \in Nat
        BY <3>1, <3>2
      <4>2. G[n][x] = x + t[n + 1]
        BY <1>2, <3>2
      <4> QED BY <4>1, <4>2
    <3>3. CASE n + 1 \notin 1..d
      <4>1. G[n][x] = x
        BY <1>2, <3>3
      <4> QED BY <4>1
    <3> QED BY <3>2, <3>3
  <2>4. Stays(Nat, G)
    BY <2>1, Zenon DEF Stays
  <2>2. 0 \in Nat
    OBVIOUS
  <2>3. \E f : Reaches(Nat, 0, G, f)
    BY <2>4, <2>2, LoopExists
  <2> QED BY <2>3 DEF Reaches
<1>4. \A n \in Nat : f[n] \in Nat /\ f[n + 1] = IF n + 1 \in 1..d THEN f[n] + t[n + 1] ELSE f[n]
  BY <1>2, <1>3
<1>5. Sums(t, d, f)
  <2>1. \A n \in 0..(d - 1) : n \in Nat /\ n + 1 \in 1..d
    OBVIOUS
  <2> QED BY <2>1, <1>3, <1>4 DEF Sums
<1>6. \A n \in Nat : f[n] <= f[n + 1]
  <2> SUFFICES ASSUME NEW n \in Nat PROVE f[n] <= f[n + 1]
    OBVIOUS
  <2>1. CASE n + 1 \in 1..d
    <3>1. t[n + 1] \in Nat
      BY <2>1
    <3> QED BY <3>1, <2>1, <1>4
  <2>2. CASE n + 1 \notin 1..d
    BY <2>2, <1>4
  <2> QED BY <2>1, <2>2
<1>7. ASSUME NEW m \in Nat PROVE \A n \in Nat : m <= n => f[m] <= f[n]
  <2> DEFINE A == {k \in Nat : f[m] <= f[m + k]}
  <2>1. 0 \in A
    BY <1>4
  <2>2. ASSUME NEW k \in Nat, k \in A PROVE k + 1 \in A
    <3>1. m + k \in Nat /\ (m + k) + 1 = m + (k + 1) /\ f[m] <= f[m + k]
      BY <2>2
    <3>2. f[m + k] <= f[(m + k) + 1] /\ f[m + k] \in Nat /\ f[m] \in Nat /\ f[(m + k) + 1] \in Nat
      BY <3>1, <1>6, <1>4
    <3>3. f[m] <= f[m + (k + 1)]
      BY <3>1, <3>2
    <3> QED BY <3>3
  <2> HIDE DEF A
  <2>3. Nat \subseteq A
    BY <2>1, <2>2, AllNumbers
  <2>4. \A k \in Nat : f[m] <= f[m + k]
    BY <2>3 DEF A
  <2> SUFFICES ASSUME NEW n \in Nat, m <= n PROVE f[m] <= f[n]
    OBVIOUS
  <2>5. n - m \in Nat /\ m + (n - m) = n
    OBVIOUS
  <2> QED BY <2>4, <2>5
<1> QED BY <1>5, <1>7

\* Total adds them up.
LEMMA TotalIs ==
  ASSUME NEW d \in Nat, NEW t \in [1..d -> Nat], NEW f, Sums(t, d, f)
  PROVE  Total(t) = f[d]
<1> DEFINE Sum(g) == g = [i \in 0..d |-> IF i = 0 THEN 0 ELSE g[i - 1] + t[i]]
           h == [i \in 0..d |-> f[i]]
<1>1. Len(t) = d
  OBVIOUS
<1>2. Total(t) = (CHOOSE g : Sum(g))[d]
  BY <1>1 DEF Total
<1>3. Sum(h)
  <2>1. \A i \in 0..d : h[i] = IF i = 0 THEN 0 ELSE h[i - 1] + t[i]
    <3> SUFFICES ASSUME NEW i \in 0..d PROVE h[i] = IF i = 0 THEN 0 ELSE h[i - 1] + t[i]
      OBVIOUS
    <3>1. CASE i = 0
      BY <3>1 DEF Sums
    <3>2. CASE i # 0
      <4>1. i - 1 \in 0..(d - 1) /\ i - 1 \in 0..d /\ (i - 1) + 1 = i
        BY <3>2
      <4>2. f[i] = f[i - 1] + t[i]
        BY <4>1 DEF Sums
      <4> QED BY <4>1, <4>2, <3>2
    <3> QED BY <3>1, <3>2
  <2>2. h = [i \in 0..d |-> h[i]]
    OBVIOUS
  <2> HIDE DEF h
  <2> QED BY <2>1, <2>2
<1>4. PICK g : g = (CHOOSE x : Sum(x)) /\ Sum(g)
  BY <1>3
<1>5. \A i \in 0..d : g[i] = IF i = 0 THEN 0 ELSE g[i - 1] + t[i]
  BY <1>4
<1> HIDE DEF Sum, h
<1> DEFINE A == {i \in Nat : i <= d => g[i] = f[i]}
<1>6. 0 \in A
  BY <1>5 DEF Sums
<1>7. ASSUME NEW i \in Nat, i \in A PROVE i + 1 \in A
  <2>1. CASE i + 1 <= d
    <3>1. i \in 0..(d - 1) /\ i + 1 \in 0..d /\ (i + 1) - 1 = i /\ i + 1 # 0 /\ g[i] = f[i]
      BY <1>7, <2>1
    <3>2. g[i + 1] = g[i] + t[i + 1]
      BY <3>1, <1>5
    <3>3. f[i + 1] = f[i] + t[i + 1]
      BY <3>1 DEF Sums
    <3> QED BY <3>1, <3>2, <3>3
  <2>2. CASE ~ (i + 1 <= d)
    BY <2>2
  <2> QED BY <2>1, <2>2
<1> HIDE DEF A
<1>8. Nat \subseteq A
  BY <1>6, <1>7, AllNumbers
<1>9. g[d] = f[d]
  BY <1>8 DEF A
<1> QED BY <1>2, <1>4, <1>9

\* A total is a number and grows with the list.
LEMMA TotalGrows ==
  ASSUME NEW d \in Nat, NEW e \in Nat, d <= e, NEW t \in [1..d -> Nat], NEW u \in [1..e -> Nat],
         \A i \in 1..d : t[i] = u[i]
  PROVE  Total(t) \in Nat /\ Total(u) \in Nat /\ Total(t) <= Total(u)
<1>1. PICK f : Sums(u, e, f) /\ \A m, n \in Nat : m <= n => f[m] <= f[n]
  BY SumsExist
<1>2. Total(u) = f[e]
  BY <1>1, TotalIs
<1>3. Sums(t, d, f)
  <2>1. \A n \in 0..(d - 1) : n \in 0..(e - 1) /\ n + 1 \in 1..d
    OBVIOUS
  <2>2. \A n \in 0..(d - 1) : f[n + 1] = f[n] + t[n + 1]
    BY <2>1, <1>1 DEF Sums
  <2> QED BY <2>2, <1>1 DEF Sums
<1>4. Total(t) = f[d]
  BY <1>3, TotalIs
<1>5. f[d] \in Nat /\ f[e] \in Nat
  BY <1>1 DEF Sums
<1> QED BY <1>1, <1>2, <1>4, <1>5

\* A slot costs a number.
LEMMA SlotCostNat ==
  ASSUME NEW t \in Int, NEW i \in DOMAIN Slots
  PROVE  SlotCost(t, i) \in Nat
<1>1. Slots[i] \in Int /\ t % 24 \in Int
  BY SlotsAssumption
<1> QED BY <1>1 DEF SlotCost, Distance

\* A way costs a number, and no more than what it is a part of.
LEMMA WayCosts ==
  ASSUME NEW n \in Nat, NEW ordered, NEW clock, \A i \in 1..n : clock[ordered[i]] \in Int,
         NEW d \in 0..n, NEW c \in Ways(d), NEW e \in d..n, NEW w \in Ways(e),
         \A i \in 1..d : c[i] = w[i]
  PROVE  /\ WayCost(clock, ordered, c) \in Nat
         /\ WayCost(clock, ordered, w) \in Nat
         /\ WayCost(clock, ordered, c) <= WayCost(clock, ordered, w)
<1>1. d \in Nat /\ e \in Nat /\ d <= e /\ e <= n
  OBVIOUS
<1>2. c \in [1..d -> DOMAIN Slots] /\ w \in [1..e -> DOMAIN Slots]
  BY DEF Ways
<1>3. Len(c) = d /\ Len(w) = e
  BY <1>1, <1>2
<1> DEFINE t == [i \in 1..d |-> SlotCost(clock[ordered[i]], c[i])]
           u == [i \in 1..e |-> SlotCost(clock[ordered[i]], w[i])]
<1>4. t \in [1..d -> Nat]
  <2>1. \A i \in 1..d : clock[ordered[i]] \in Int /\ c[i] \in DOMAIN Slots
    BY <1>1, <1>2
  <2> QED BY <2>1, SlotCostNat
<1>5. u \in [1..e -> Nat]
  <2>1. \A i \in 1..e : clock[ordered[i]] \in Int /\ w[i] \in DOMAIN Slots
    BY <1>1, <1>2
  <2> QED BY <2>1, SlotCostNat
<1>6. \A i \in 1..d : t[i] = u[i]
  BY <1>1
<1>7. WayCost(clock, ordered, c) = Total(t) /\ WayCost(clock, ordered, w) = Total(u)
  BY <1>3 DEF WayCost
<1> HIDE DEF t, u
<1>8. Total(t) \in Nat /\ Total(u) \in Nat /\ Total(t) <= Total(u)
  BY <1>1, <1>4, <1>5, <1>6, TotalGrows
<1> QED BY <1>7, <1>8

-----------------------------------------------------------------------------
(* The search.                                                             *)

\* The first members of A in the order R: at most one.
FirstOf(A, R) == {x \in A : \A y \in A \ {x} : <<x, y>> \in R}

\* A finite set that is not empty has exactly one first member.
LEMMA FirstOfIs ==
  ASSUME NEW W, IsFiniteSet(W), NEW R, StrictOrder(W, R), NEW A \in SUBSET W
  PROVE  /\ FirstOf(A, R) \subseteq A
         /\ \A x, y \in FirstOf(A, R) : x = y
         /\ A # {} => FirstOf(A, R) # {}
<1>1. FirstOf(A, R) \subseteq A
  BY DEF FirstOf
<1>2. \A x, y \in FirstOf(A, R) : x = y
  BY DEF FirstOf, StrictOrder
<1>3. A # {} => FirstOf(A, R) # {}
  <2>1. IsFiniteSet(A) /\ StrictOrder(A, R)
    BY FS_Subset DEF StrictOrder
  <2> QED BY <2>1, FirstExists DEF FirstOf
<1> QED BY <1>1, <1>2, <1>3

\* Members that come after one of those that stay can be left out.
LEMMA FirstOfPart ==
  ASSUME NEW W, NEW R, StrictOrder(W, R), NEW U \in SUBSET W, NEW V \in SUBSET U,
         \A z \in U \ V : \E v \in V : <<v, z>> \in R
  PROVE  FirstOf(U, R) = FirstOf(V, R)
<1>1. ASSUME NEW z, z \in FirstOf(U, R) PROVE z \in FirstOf(V, R)
  <2>1. z \in U /\ \A y \in U \ {z} : <<z, y>> \in R
    BY <1>1 DEF FirstOf
  <2>2. z \in V
    <3> SUFFICES ASSUME z \notin V PROVE FALSE
      OBVIOUS
    <3>1. PICK v \in V : <<v, z>> \in R
      BY <2>1
    <3>2. <<z, v>> \in R
      BY <2>1
    <3> QED BY <2>1, <3>1, <3>2 DEF StrictOrder
  <2> QED BY <2>1, <2>2 DEF FirstOf
<1>2. ASSUME NEW z, z \in FirstOf(V, R) PROVE z \in FirstOf(U, R)
  <2>1. z \in V /\ \A y \in V \ {z} : <<z, y>> \in R
    BY <1>2 DEF FirstOf
  <2>2. ASSUME NEW y \in U \ {z} PROVE <<z, y>> \in R
    <3>1. CASE y \in V
      BY <2>1, <3>1
    <3>2. CASE y \notin V
      <4>1. PICK v \in V : <<v, y>> \in R
        BY <3>2
      <4>2. z = v \/ <<z, v>> \in R
        BY <2>1
      <4> QED BY <4>1, <4>2, <2>1 DEF StrictOrder
    <3> QED BY <3>1, <3>2
  <2> QED BY <2>1, <2>2 DEF FirstOf
<1> QED BY <1>1, <1>2

-----------------------------------------------------------------------------
\* There are finitely many ways.
LEMMA WaysFinite ==
  ASSUME NEW n \in Nat
  PROVE  IsFiniteSet(Ways(n))
<1> DEFINE P == (1..n) \X DOMAIN Slots
           graph == [w \in Ways(n) |-> {p \in P : w[p[1]] = p[2]}]
<1>1. DOMAIN Slots = 1..Len(Slots) /\ Len(Slots) \in Nat
  BY SlotsAssumption
<1>2. IsFiniteSet(SUBSET P)
  <2>1. IsFiniteSet(1..n) /\ IsFiniteSet(DOMAIN Slots)
    BY <1>1, FS_Interval
  <2>2. IsFiniteSet(P)
    BY <2>1, FS_Product
  <2> HIDE DEF P
  <2> QED BY <2>2, FS_SUBSET
<1>3. graph \in [Ways(n) -> SUBSET P]
  OBVIOUS
<1>4. ASSUME NEW v \in Ways(n), NEW w \in Ways(n), graph[v] = graph[w] PROVE v = w
  <2>1. v \in [1..n -> DOMAIN Slots] /\ w \in [1..n -> DOMAIN Slots]
    BY DEF Ways
  <2>2. \A i \in 1..n : <<i, v[i]>> \in graph[v] /\ \A x : <<i, x>> \in graph[w] => x = w[i]
    BY <2>1
  <2>3. \A i \in 1..n : v[i] = w[i]
    BY <2>2, <1>4
  <2> QED BY <2>1, <2>3
<1> HIDE DEF graph, P
<1>5. graph \in Injection(Ways(n), SUBSET P)
  BY <1>3, <1>4 DEF Injection, IsInjective
<1> QED BY <1>2, <1>5, FS_Injection

\* The order of the ways.
CheaperWays(clock, ordered, n) ==
  ByCost(Ways(n), [w \in Ways(n) |-> WayCost(clock, ordered, w)], [w \in Ways(n) |-> w])

\* It is strict, and the order of the search.
LEMMA CheaperOrders ==
  ASSUME NEW n \in Nat, NEW ordered, NEW clock, \A i \in 1..n : clock[ordered[i]] \in Int
  PROVE  /\ StrictOrder(Ways(n), CheaperWays(clock, ordered, n))
         /\ \A v, w \in Ways(n) :
              <<v, w>> \in CheaperWays(clock, ordered, n) <=> Cheaper(clock, ordered, v, w)
<1> DEFINE W == Ways(n)
           cost == [w \in W |-> WayCost(clock, ordered, w)]
           sig == [w \in W |-> w]
<1>1. cost \in [W -> Nat]
  <2> SUFFICES ASSUME NEW w \in Ways(n) PROVE WayCost(clock, ordered, w) \in Nat
    OBVIOUS
  <2>1. n \in 0..n /\ n \in n..n
    OBVIOUS
  <2> QED BY <2>1, WayCosts
<1>2. sig \in [W -> [1..n -> Nat]]
  <2>1. DOMAIN Slots \subseteq Nat
    BY SlotsAssumption
  <2>2. Ways(n) \subseteq [1..n -> Nat]
    BY <2>1 DEF Ways
  <2> QED BY <2>2
<1>3. \A x, y \in W : sig[x] = sig[y] => x = y
  OBVIOUS
<1>4. CheaperWays(clock, ordered, n) = ByCost(W, cost, sig)
  BY DEF CheaperWays
<1>5. \A v, w \in W : <<v, w>> \in ByCost(W, cost, sig) <=> Cheaper(clock, ordered, v, w)
  BY DEF ByCost, Cheaper
<1> HIDE DEF cost, sig
<1>6. StrictOrder(W, ByCost(W, cost, sig))
  <2> HIDE DEF W
  <2> QED BY <1>1, <1>2, <1>3, CostOrders
<1> QED BY <1>4, <1>5, <1>6

-----------------------------------------------------------------------------
\* The complete ways a node stands for: those that go on from its slots with
\* its next slot or a later one.
Extending(n, c, j) ==
  {w \in Ways(n) : /\ \A i \in 1..Len(c) : w[i] = c[i]
                   /\ Len(c) < n => w[Len(c) + 1] >= j}

\* Those that go on with the next slot itself.
With(n, c, j) == {w \in Extending(n, c, j) : w[Len(c) + 1] = j}

\* What the search makes of a node: the cheapest of its best way and the ways
\* it stands for.
FoundAt(clock, ordered, n, s) ==
  FirstOf(s.best \cup Extending(n, s.chosen, s.slot), CheaperWays(clock, ordered, n))

Bests(n) == {b \in SUBSET Ways(n) : \A v, w \in b : v = w}

\* The number of slots, and what a way of some length is.
LEMMA WaysAre ==
  /\ Len(Slots) \in Nat
  /\ DOMAIN Slots = 1..Len(Slots)
  /\ \A d \in Nat : \A c \in Ways(d) :
       /\ c \in [1..d -> 1..Len(Slots)]
       /\ Len(c) = d /\ DOMAIN c = 1..d
       /\ \A i, j \in 1..d : c[i] = c[j] => i = j
<1>1. Len(Slots) \in Nat /\ DOMAIN Slots = 1..Len(Slots)
  BY SlotsAssumption
<1>2. ASSUME NEW d \in Nat, NEW c \in Ways(d)
      PROVE  /\ c \in [1..d -> 1..Len(Slots)]
             /\ Len(c) = d /\ DOMAIN c = 1..d
             /\ \A i, j \in 1..d : c[i] = c[j] => i = j
  <2>1. c \in [1..d -> 1..Len(Slots)] /\ IsInjective(c)
    BY <1>1 DEF Ways
  <2>2. Len(c) = d /\ DOMAIN c = 1..d
    BY <2>1
  <2> QED BY <2>1, <2>2 DEF IsInjective
<1> QED BY <1>1, <1>2

\* A node in its parts.
LEMMA NodesAre ==
  ASSUME NEW n \in Nat
  PROVE  /\ \A s \in Nodes(n) :
              /\ \E d \in 0..n : s.chosen \in Ways(d) /\ Len(s.chosen) = d
              /\ s.slot \in 1..(Len(Slots) + 1)
              /\ s.best \in Bests(n)
              /\ s = [chosen |-> s.chosen, slot |-> s.slot, best |-> s.best]
         /\ \A d \in 0..n : \A c \in Ways(d), j \in 1..(Len(Slots) + 1), b \in Bests(n) :
              [chosen |-> c, slot |-> j, best |-> b] \in Nodes(n)
<1>1. Nodes(n) = [chosen : Partial(n), slot : 1..(Len(Slots) + 1), best : Bests(n)]
  BY DEF Nodes, Bests
<1>2. \A c \in Partial(n) : \E d \in 0..n : c \in Ways(d)
  BY DEF Partial
<1>3. \A d \in 0..n : \A c \in Ways(d) : c \in Partial(n) /\ Len(c) = d
  <2>1. \A d \in 0..n : d \in Nat
    OBVIOUS
  <2> QED BY <2>1, WaysAre DEF Partial
<1> QED BY <1>1, <1>2, <1>3

\* A complete way stands for itself.
LEMMA ExtendingComplete ==
  ASSUME NEW n \in Nat, NEW c \in Ways(n), NEW j
  PROVE  Extending(n, c, j) = {c}
<1>1. Len(c) = n /\ c \in [1..n -> 1..Len(Slots)]
  BY WaysAre
<1>2. ~ (Len(c) < n)
  BY <1>1
<1>3. ASSUME NEW w \in Ways(n), \A i \in 1..n : w[i] = c[i] PROVE w = c
  BY <1>1, <1>3, WaysAre
<1> QED BY <1>1, <1>2, <1>3 DEF Extending

\* After the last slot nothing goes on.
LEMMA ExtendingExhausted ==
  ASSUME NEW n \in Nat, NEW d \in 0..n, d < n, NEW c \in Ways(d)
  PROVE  Extending(n, c, Len(Slots) + 1) = {}
<1>1. Len(c) = d /\ d + 1 \in 1..n /\ d \in Nat
  BY WaysAre
<1>2. \A w \in Ways(n) : w[d + 1] \in 1..Len(Slots)
  BY <1>1, WaysAre
<1>3. \A w \in Ways(n) : ~ (w[d + 1] >= Len(Slots) + 1)
  BY <1>2, WaysAre
<1> QED BY <1>1, <1>3 DEF Extending

\* The ways of a node go on with its slot or with a later one.
LEMMA ExtendingSplits ==
  ASSUME NEW n \in Nat, NEW d \in 0..n, d < n, NEW c \in Ways(d), NEW j \in 1..Len(Slots)
  PROVE  Extending(n, c, j) = With(n, c, j) \cup Extending(n, c, j + 1)
<1>1. Len(c) = d /\ d + 1 \in 1..n /\ d \in Nat
  BY WaysAre
<1>2. \A w \in Ways(n) : w[d + 1] \in Nat
  BY <1>1, WaysAre
<1>3. \A w \in Ways(n) : w[d + 1] >= j <=> (w[d + 1] = j \/ w[d + 1] >= j + 1)
  <2>1. j \in Nat
    BY WaysAre
  <2> QED BY <1>2, <2>1
<1>4. \A w \in Ways(n) : w \in Extending(n, c, j) <=> (\A i \in 1..d : w[i] = c[i]) /\ w[d + 1] >= j
  BY <1>1 DEF Extending
<1>5. \A w \in Ways(n) : w \in Extending(n, c, j + 1) <=> (\A i \in 1..d : w[i] = c[i]) /\ w[d + 1] >= j + 1
  BY <1>1 DEF Extending
<1>6. \A w : w \in With(n, c, j) <=> w \in Extending(n, c, j) /\ w[d + 1] = j
  BY <1>1 DEF With
<1>7. Extending(n, c, j) \subseteq Ways(n) /\ Extending(n, c, j + 1) \subseteq Ways(n)
  BY DEF Extending
<1> QED BY <1>3, <1>4, <1>5, <1>6, <1>7

\* No way goes on with a slot that is taken.
LEMMA WithTaken ==
  ASSUME NEW n \in Nat, NEW d \in 0..n, d < n, NEW c \in Ways(d), NEW j, j \in Range(c)
  PROVE  With(n, c, j) = {}
<1>1. Len(c) = d /\ DOMAIN c = 1..d /\ d \in Nat
  BY WaysAre
<1>2. PICK i \in 1..d : c[i] = j
  BY <1>1 DEF Range
<1>3. i \in 1..n /\ d + 1 \in 1..n /\ i # d + 1
  OBVIOUS
<1>4. \A w \in Ways(n) : w[i] = j => w[d + 1] # j
  BY <1>3, WaysAre
<1> QED BY <1>1, <1>2, <1>4 DEF With, Extending

\* The ways that go on with a free slot are those of the child.
LEMMA WithFree ==
  ASSUME NEW n \in Nat, NEW d \in 0..n, d < n, NEW c \in Ways(d), NEW j \in 1..Len(Slots),
         j \notin Range(c)
  PROVE  /\ d + 1 \in 0..n
         /\ Append(c, j) \in Ways(d + 1)
         /\ With(n, c, j) = Extending(n, Append(c, j), 1)
<1>1. /\ Len(c) = d /\ DOMAIN c = 1..d /\ d \in Nat /\ d + 1 \in Nat /\ d + 1 \in 1..n
      /\ c \in [1..d -> 1..Len(Slots)]
      /\ \A i, k \in 1..d : c[i] = c[k] => i = k
  BY WaysAre
<1>2. PICK a : a = Append(c, j)
  OBVIOUS
<1>3. /\ a \in [1..(d + 1) -> 1..Len(Slots)]
      /\ \A i \in 1..d : a[i] = c[i]
      /\ a[d + 1] = j
  <2>1. c \in Seq(1..Len(Slots))
    BY <1>1
  <2>2. a \in Seq(1..Len(Slots)) /\ Len(a) = d + 1
    BY <1>1, <1>2, <2>1
  <2>3. a \in [1..(d + 1) -> 1..Len(Slots)]
    BY <2>2
  <2>4. \A i \in 1..d : a[i] = c[i]
    BY <1>1, <1>2, <2>1
  <2>5. a[d + 1] = j
    BY <1>1, <1>2, <2>1
  <2> QED BY <2>3, <2>4, <2>5
<1>4. \A i \in 1..d : c[i] # j
  BY <1>1 DEF Range
<1>5. \A i, k \in 1..(d + 1) : a[i] = a[k] => i = k
  <2>1. \A i \in 1..(d + 1) : i \in 1..d \/ i = d + 1
    BY <1>1
  <2> QED BY <2>1, <1>1, <1>3, <1>4
<1>6. a \in Ways(d + 1) /\ Len(a) = d + 1
  <2>1. DOMAIN a = 1..(d + 1)
    BY <1>3
  <2>2. IsInjective(a)
    BY <1>5, <2>1 DEF IsInjective
  <2> QED BY <1>3, <2>2, WaysAre, <1>1 DEF Ways
<1>7. ASSUME NEW w \in Ways(n) PROVE w \in With(n, c, j) <=> w \in Extending(n, a, 1)
  <2>1. \A i \in 1..n : w[i] \in 1..Len(Slots)
    BY WaysAre
  <2>2. w \in With(n, c, j) <=> (\A i \in 1..d : w[i] = c[i]) /\ w[d + 1] = j
    <3>1. w[d + 1] = j => w[d + 1] >= j
      BY WaysAre
    <3> QED BY <1>1, <3>1 DEF With, Extending
  <2>3. (d + 1 < n) => w[(d + 1) + 1] >= 1
    <3>1. (d + 1 < n) => (d + 1) + 1 \in 1..n
      BY <1>1
    <3> QED BY <3>1, <2>1, WaysAre
  <2>4. w \in Extending(n, a, 1) <=> \A i \in 1..(d + 1) : w[i] = a[i]
    BY <1>6, <2>3 DEF Extending
  <2>5. (\A i \in 1..(d + 1) : w[i] = a[i]) <=> (\A i \in 1..d : w[i] = c[i]) /\ w[d + 1] = j
    <3>1. \A i \in 1..(d + 1) : i \in 1..d \/ i = d + 1
      BY <1>1
    <3>2. d + 1 \in 1..(d + 1) /\ \A i \in 1..d : i \in 1..(d + 1)
      BY <1>1
    <3> QED BY <3>1, <3>2, <1>3
  <2> QED BY <2>2, <2>4, <2>5
<1>8. With(n, c, j) \subseteq Ways(n) /\ Extending(n, a, 1) \subseteq Ways(n)
  BY DEF With, Extending
<1> QED BY <1>1, <1>2, <1>6, <1>7, <1>8

-----------------------------------------------------------------------------
\* A branch that is cut holds nothing cheaper than the best way so far.
LEMMA CutLosesNothing ==
  ASSUME NEW n \in Nat, NEW ordered, NEW clock, \A i \in 1..n : clock[ordered[i]] \in Int,
         NEW d \in 0..n, d < n, NEW c \in Ways(d), NEW j \in 1..Len(Slots), j \notin Range(c),
         NEW v \in Ways(n), WayCost(clock, ordered, Append(c, j)) > WayCost(clock, ordered, v),
         NEW w \in With(n, c, j)
  PROVE  Cheaper(clock, ordered, v, w)
<1> DEFINE a == Append(c, j)
<1>1. d + 1 \in 0..n /\ a \in Ways(d + 1) /\ w \in Extending(n, a, 1)
  BY WithFree
<1>2. w \in Ways(n) /\ Len(a) = d + 1 /\ \A i \in 1..(d + 1) : a[i] = w[i]
  <2>1. d + 1 \in Nat
    BY <1>1
  <2>2. Len(a) = d + 1
    BY <1>1, <2>1, WaysAre
  <2>3. w \in Ways(n) /\ \A i \in 1..Len(a) : w[i] = a[i]
    BY <1>1 DEF Extending
  <2> QED BY <2>2, <2>3
<1> HIDE DEF a
<1>3. n \in (d + 1)..n /\ n \in 0..n /\ n \in n..n
  BY <1>1
<1>4. WayCost(clock, ordered, a) \in Nat /\ WayCost(clock, ordered, w) \in Nat
      /\ WayCost(clock, ordered, a) <= WayCost(clock, ordered, w)
  BY <1>1, <1>2, <1>3, WayCosts
<1>5. WayCost(clock, ordered, v) \in Nat
  BY <1>3, WayCosts
<1>6. WayCost(clock, ordered, a) > WayCost(clock, ordered, v)
  BY DEF a
<1>7. WayCost(clock, ordered, v) < WayCost(clock, ordered, w)
  BY <1>4, <1>5, <1>6
<1> QED BY <1>7 DEF Cheaper

\* If the nodes after a node are worth the cheapest of the ways they stand
\* for, so is the node itself.
LEMMA VisitAgrees ==
  ASSUME NEW n \in Nat, NEW ordered, NEW clock, Len(ordered) = n,
         \A i \in 1..n : clock[ordered[i]] \in Int,
         NEW s \in Nodes(n), NEW f,
         \A t \in Nodes(n) :
           \/ Len(t.chosen) = Len(s.chosen) + 1
           \/ t.chosen = s.chosen /\ t.slot = s.slot + 1
           => f[t] = FoundAt(clock, ordered, n, t)
  PROVE  Visit(clock, ordered, f, s) = FoundAt(clock, ordered, n, s)
<1>1. PICK c, j, b : c = s.chosen /\ j = s.slot /\ b = s.best
  OBVIOUS
<1>2. PICK R : R = CheaperWays(clock, ordered, n)
  OBVIOUS
<1>3. PICK d \in 0..n : c \in Ways(d) /\ Len(c) = d
  BY <1>1, NodesAre
<1>4. /\ j \in 1..(Len(Slots) + 1) /\ b \in Bests(n)
      /\ s = [chosen |-> c, slot |-> j, best |-> b]
  BY <1>1, NodesAre
<1>5. StrictOrder(Ways(n), R) /\ \A v, w \in Ways(n) : <<v, w>> \in R <=> Cheaper(clock, ordered, v, w)
  BY <1>2, CheaperOrders
<1>6. b \in SUBSET Ways(n) /\ \A v, w \in b : v = w
  BY <1>4 DEF Bests
<1>7. FoundAt(clock, ordered, n, s) = FirstOf(b \cup Extending(n, c, j), R)
  BY <1>1, <1>2 DEF FoundAt
<1>8. IsFiniteSet(Ways(n))
  BY WaysFinite
<1>9. FirstOf(b, R) = b
  BY <1>6 DEF FirstOf
<1>10. CASE d = n
  <2>1. Extending(n, c, j) = {c} /\ c \in Ways(n)
    BY <1>10, <1>3, ExtendingComplete
  <2>2. Visit(clock, ordered, f, s) = IF Improves(clock, ordered, c, b) THEN {c} ELSE b
    BY <1>10, <1>1, <1>3 DEF Visit
  <2>3. Improves(clock, ordered, c, b) <=> \A v \in b : <<c, v>> \in R
    BY <1>5, <1>6, <2>1 DEF Improves
  <2>4. CASE \A v \in b : <<c, v>> \in R
    <3>1. c \notin b
      BY <2>4, <2>1, <1>5 DEF StrictOrder
    <3>2. c \in FirstOf(b \cup {c}, R)
      BY <2>4 DEF FirstOf
    <3>3. b \cup {c} \in SUBSET Ways(n)
      BY <2>1, <1>6
    <3>4. FirstOf(b \cup {c}, R) = {c}
      BY <3>2, <3>3, <1>5, <1>8, FirstOfIs
    <3> QED BY <2>1, <2>2, <2>3, <2>4, <3>4, <1>7
  <2>5. CASE ~ \A v \in b : <<c, v>> \in R
    <3>1. PICK v \in b : <<c, v>> \notin R
      BY <2>5
    <3>2. b = {v} /\ v \in Ways(n)
      BY <1>6
    <3>3. c = v \/ <<v, c>> \in R
      BY <3>1, <3>2, <2>1, <1>5 DEF StrictOrder
    <3>4. v \in FirstOf(b \cup {c}, R)
      BY <3>2, <3>3 DEF FirstOf
    <3>5. b \cup {c} \in SUBSET Ways(n)
      BY <2>1, <1>6
    <3>6. FirstOf(b \cup {c}, R) = {v}
      BY <3>4, <3>5, <1>5, <1>8, FirstOfIs
    <3> QED BY <2>1, <2>2, <2>3, <2>5, <3>2, <3>6, <1>7
  <2> QED BY <2>4, <2>5
<1>11. CASE d # n /\ j > Len(Slots)
  <2>1. j = Len(Slots) + 1 /\ d < n
    BY <1>11, <1>4, WaysAre
  <2>2. Extending(n, c, j) = {}
    BY <2>1, <1>3, ExtendingExhausted
  <2>3. Visit(clock, ordered, f, s) = b
    BY <1>11, <1>1, <1>3 DEF Visit
  <2> QED BY <2>2, <2>3, <1>7, <1>9
<1>12. CASE d # n /\ ~ (j > Len(Slots))
  <2>1. d < n /\ j \in 1..Len(Slots) /\ j + 1 \in 1..(Len(Slots) + 1) /\ 1 \in 1..(Len(Slots) + 1)
    BY <1>12, <1>4, WaysAre
  <2> DEFINE child == [chosen |-> Append(c, j), slot |-> 1, best |-> b]
             found == IF Cut(clock, ordered, s) THEN b ELSE f[child]
             next  == [chosen |-> c, slot |-> j + 1, best |-> found]
  <2>2. Visit(clock, ordered, f, s) = f[next]
    BY <1>12, <1>1, <1>3 DEF Visit
  <2>3. Extending(n, c, j) = With(n, c, j) \cup Extending(n, c, j + 1)
    BY <2>1, <1>3, ExtendingSplits
  <2>4. PICK A, B : A = With(n, c, j) /\ B = Extending(n, c, j + 1)
    OBVIOUS
  <2>10. A \in SUBSET Ways(n) /\ B \in SUBSET Ways(n)
    BY <2>4 DEF With, Extending
  <2>5. found \in Bests(n) /\ FirstOf(found \cup B, R) = FirstOf(b \cup (A \cup B), R)
    <3>1. CASE Cut(clock, ordered, s)
      <4>1. A = {} \/ \E v \in b : \A w \in A : <<v, w>> \in R
        <5>1. CASE j \in Range(c)
          BY <5>1, <2>1, <2>4, <1>3, WithTaken
        <5>2. CASE j \notin Range(c)
          <6>1. PICK v \in b : WayCost(clock, ordered, Append(c, j)) > WayCost(clock, ordered, v)
            BY <3>1, <5>2, <1>1 DEF Cut
          <6>2. v \in Ways(n)
            BY <1>6
          <6>3. \A w \in With(n, c, j) : Cheaper(clock, ordered, v, w)
            BY <6>1, <6>2, <5>2, <2>1, <1>3, CutLosesNothing
          <6> QED BY <6>2, <6>3, <2>4, <2>10, <1>5
        <5> QED BY <5>1, <5>2
      <4>2. PICK U, V : U = b \cup (A \cup B) /\ V = b \cup B
        OBVIOUS
      <4>3. U \in SUBSET Ways(n) /\ V \in SUBSET U /\ \A z \in U \ V : \E v \in V : <<v, z>> \in R
        BY <4>1, <4>2, <2>10, <1>6
      <4>4. FirstOf(U, R) = FirstOf(V, R)
        BY <4>3, <1>5, FirstOfPart
      <4> QED BY <3>1, <4>2, <4>4, <1>4
    <3>2. CASE ~ Cut(clock, ordered, s)
      <4>1. j \notin Range(c)
        BY <3>2, <1>1 DEF Cut
      <4>2. d + 1 \in 0..n /\ Append(c, j) \in Ways(d + 1) /\ With(n, c, j) = Extending(n, Append(c, j), 1)
        BY <4>1, <2>1, <1>3, WithFree
      <4>3. child \in Nodes(n)
        BY <4>2, <2>1, <1>4, NodesAre
      <4>4. child.chosen = Append(c, j) /\ child.slot = 1 /\ child.best = b
        OBVIOUS
      <4>5. Len(child.chosen) = Len(s.chosen) + 1
        <5>1. d + 1 \in Nat
          BY <4>2
        <5> QED BY <5>1, <4>2, <4>4, <1>1, <1>3, WaysAre
      <4> HIDE DEF child
      <4>6. f[child] = FirstOf(b \cup A, R)
        BY <4>2, <4>3, <4>4, <4>5, <1>2, <2>4 DEF FoundAt
      <4>7. PICK U : U = b \cup A
        OBVIOUS
      <4>8. U \in SUBSET Ways(n)
        BY <4>7, <2>10, <1>6
      <4>9. FirstOf(U, R) \in SUBSET U /\ (\A x, y \in FirstOf(U, R) : x = y) /\ (U # {} => FirstOf(U, R) # {})
        BY <4>8, <1>5, <1>8, FirstOfIs
      <4>10. PICK X, Y : X = U \cup B /\ Y = FirstOf(U, R) \cup B
        OBVIOUS
      <4>11. X \in SUBSET Ways(n) /\ Y \in SUBSET X
        BY <4>8, <4>9, <4>10, <2>10
      <4>12. ASSUME NEW z \in X \ Y PROVE \E v \in Y : <<v, z>> \in R
        <5>1. z \in U
          BY <4>10
        <5>2. PICK v : v \in FirstOf(U, R)
          BY <5>1, <4>9
        <5>3. v \in Y /\ v # z /\ <<v, z>> \in R
          BY <5>1, <5>2, <4>10 DEF FirstOf
        <5> QED BY <5>3
      <4>13. FirstOf(X, R) = FirstOf(Y, R)
        BY <4>11, <4>12, <1>5, FirstOfPart
      <4>14. X = b \cup (A \cup B)
        BY <4>7, <4>10
      <4>15. found = FirstOf(U, R)
        BY <3>2, <4>6, <4>7
      <4> HIDE DEF found
      <4>16. found \in Bests(n)
        BY <4>8, <4>9, <4>15 DEF Bests
      <4> QED BY <4>10, <4>13, <4>14, <4>15, <4>16
    <3> QED BY <3>1, <3>2
  <2>6. next \in Nodes(n)
    <3> HIDE DEF found
    <3> QED BY <2>1, <2>5, <1>3, NodesAre
  <2>7. next.chosen = c /\ next.slot = j + 1 /\ next.best = found
    OBVIOUS
  <2> HIDE DEF next, found
  <2>8. f[next] = FirstOf(found \cup Extending(n, c, j + 1), R)
    BY <2>6, <2>7, <1>1, <1>2 DEF FoundAt
  <2> QED BY <2>2, <2>3, <2>4, <2>5, <2>8, <1>7
<1> QED BY <1>10, <1>11, <1>12

-----------------------------------------------------------------------------
\* Whatever satisfies the equation of the search is worth, at every node, the
\* cheapest way of the node: the nodes after a node are longer or try a later
\* slot.
LEMMA SolutionsAgree ==
  ASSUME NEW n \in Nat, NEW ordered, NEW clock, Len(ordered) = n,
         \A i \in 1..n : clock[ordered[i]] \in Int,
         NEW f, \A s \in Nodes(n) : f[s] = Visit(clock, ordered, f, s)
  PROVE  \A s \in Nodes(n) : f[s] = FoundAt(clock, ordered, n, s)
<1> DEFINE Right(s) == f[s] = FoundAt(clock, ordered, n, s)
           A == {k \in Nat : \A s \in Nodes(n) : n - Len(s.chosen) < k => Right(s)}
<1>0. \A s \in Nodes(n) : Len(s.chosen) \in 0..n /\ s.slot \in 1..(Len(Slots) + 1)
  BY NodesAre
<1>1. \A s \in Nodes(n) :
        (\A t \in Nodes(n) : (\/ Len(t.chosen) = Len(s.chosen) + 1
                              \/ t.chosen = s.chosen /\ t.slot = s.slot + 1) => Right(t))
        => Right(s)
  <2> SUFFICES ASSUME NEW s \in Nodes(n),
                      \A t \in Nodes(n) : (\/ Len(t.chosen) = Len(s.chosen) + 1
                                           \/ t.chosen = s.chosen /\ t.slot = s.slot + 1) => Right(t)
               PROVE  Right(s)
    OBVIOUS
  <2>1. Visit(clock, ordered, f, s) = FoundAt(clock, ordered, n, s)
    BY VisitAgrees
  <2> QED BY <2>1
<1> HIDE DEF Right
<1>2. 0 \in A
  BY <1>0
<1>3. ASSUME NEW k \in Nat, k \in A PROVE k + 1 \in A
  <2> DEFINE B == {m \in Nat : \A s \in Nodes(n) :
                     n - Len(s.chosen) < k + 1 /\ (Len(Slots) + 1) - s.slot < m => Right(s)}
  <2>0. \A s \in Nodes(n) : n - Len(s.chosen) < k => Right(s)
    BY <1>3
  <2> HIDE DEF A
  <2>1. 0 \in B
    BY <1>0, WaysAre
  <2>2. ASSUME NEW m \in Nat, m \in B PROVE m + 1 \in B
    <3> SUFFICES ASSUME NEW s \in Nodes(n), n - Len(s.chosen) < k + 1,
                        (Len(Slots) + 1) - s.slot < m + 1
                 PROVE  Right(s)
      OBVIOUS
    <3>0. \A t \in Nodes(n) : n - Len(t.chosen) < k + 1 /\ (Len(Slots) + 1) - t.slot < m => Right(t)
      BY <2>2
    <3> HIDE DEF B
    <3>1. Len(s.chosen) \in Nat /\ s.slot \in Nat /\ Len(Slots) \in Nat
      BY <1>0, WaysAre
    <3>2. ASSUME NEW t \in Nodes(n), Len(t.chosen) = Len(s.chosen) + 1 PROVE Right(t)
      <4>1. n - Len(t.chosen) < k
        BY <3>1, <3>2
      <4> QED BY <4>1, <2>0
    <3>3. ASSUME NEW t \in Nodes(n), t.chosen = s.chosen, t.slot = s.slot + 1 PROVE Right(t)
      <4>1. n - Len(t.chosen) < k + 1 /\ (Len(Slots) + 1) - t.slot < m
        BY <3>1, <3>3
      <4> QED BY <4>1, <3>0
    <3> QED BY <3>2, <3>3, <1>1
  <2> HIDE DEF B
  <2>3. Nat \subseteq B
    BY <2>1, <2>2, AllNumbers
  <2>4. ASSUME NEW s \in Nodes(n), n - Len(s.chosen) < k + 1 PROVE Right(s)
    <3>1. (Len(Slots) + 1) - s.slot \in Nat /\ ((Len(Slots) + 1) - s.slot) + 1 \in Nat
          /\ (Len(Slots) + 1) - s.slot < ((Len(Slots) + 1) - s.slot) + 1
      BY <1>0, WaysAre
    <3> QED BY <3>1, <2>3, <2>4 DEF B
  <2> QED BY <2>4 DEF A
<1> HIDE DEF A
<1>4. Nat \subseteq A
  BY <1>2, <1>3, AllNumbers
<1>5. ASSUME NEW s \in Nodes(n) PROVE Right(s)
  <2>1. n - Len(s.chosen) < n + 1 /\ n + 1 \in Nat
    BY <1>0
  <2> QED BY <2>1, <1>4 DEF A
<1> QED BY <1>5 DEF Right

\* The search is worth at every node the cheapest way of the node.
LEMMA SearchIs ==
  ASSUME NEW n \in Nat, NEW ordered, NEW clock, Len(ordered) = n,
         \A i \in 1..n : clock[ordered[i]] \in Int
  PROVE  \A s \in Nodes(n) : Search(clock, ordered)[s] = FoundAt(clock, ordered, n, s)
<1> DEFINE Solves(g) == g = [s \in Nodes(n) |-> Visit(clock, ordered, g, s)]
           h == [s \in Nodes(n) |-> FoundAt(clock, ordered, n, s)]
<1>1. Search(clock, ordered) = CHOOSE g : Solves(g)
  BY DEF Search
<1>2. Solves(h)
  <2>1. \A t \in Nodes(n) : h[t] = FoundAt(clock, ordered, n, t)
    OBVIOUS
  <2>2. h = [s \in Nodes(n) |-> h[s]]
    OBVIOUS
  <2> HIDE DEF h
  <2>3. \A s \in Nodes(n) : Visit(clock, ordered, h, s) = FoundAt(clock, ordered, n, s)
    BY <2>1, VisitAgrees
  <2> QED BY <2>1, <2>2, <2>3
<1>3. PICK g : g = Search(clock, ordered) /\ Solves(g)
  BY <1>1, <1>2
<1>4. \A s \in Nodes(n) : g[s] = Visit(clock, ordered, g, s)
  BY <1>3
<1> HIDE DEF Solves, h
<1>5. \A s \in Nodes(n) : g[s] = FoundAt(clock, ordered, n, s)
  BY <1>4, SolutionsAgree
<1> QED BY <1>3, <1>5

\* The slots bestSlotAssignment gives to sessions that fit are a way to give
\* each its own slot, and the first of the cheapest ways.
LEMMA BestIsCheapest ==
  ASSUME NEW keys \in SUBSET Nat, IsFiniteSet(keys), Cardinality(keys) <= Len(Slots),
         NEW clock, \A k \in keys : clock[k] \in Int
  PROVE  /\ BestSlotAssignment(clock, keys) \in Ways(Cardinality(keys))
         /\ \A w \in Ways(Cardinality(keys)) \ {BestSlotAssignment(clock, keys)} :
              Cheaper(clock, Sorted(keys), BestSlotAssignment(clock, keys), w)
<1> DEFINE n == Cardinality(keys)
<1>1. PICK ordered : ordered = Sorted(keys)
  OBVIOUS
<1>2. n \in Nat /\ Len(ordered) = n /\ n <= Len(Slots) /\ \A i \in 1..n : clock[ordered[i]] \in Int
  BY <1>1, SortedLists
<1> HIDE DEF n
<1>3. PICK R : R = CheaperWays(clock, ordered, n)
  OBVIOUS
<1>4. StrictOrder(Ways(n), R) /\ \A v, w \in Ways(n) : <<v, w>> \in R <=> Cheaper(clock, ordered, v, w)
  BY <1>2, <1>3, CheaperOrders
<1> DEFINE c == <<>>
           root == [chosen |-> c, slot |-> 1, best |-> {}]
<1>5. c \in Ways(0) /\ Len(c) = 0
  <2>1. c \in [1..0 -> DOMAIN Slots] /\ DOMAIN c = 1..0
    OBVIOUS
  <2>2. \A i, j \in DOMAIN c : c[i] = c[j] => i = j
    BY <2>1
  <2> QED BY <2>1, <2>2 DEF Ways, IsInjective
<1>6. {} \in Bests(n)
  BY DEF Bests
<1>7. root \in Nodes(n)
  <2>1. 0 \in 0..n /\ 1 \in 1..(Len(Slots) + 1)
    BY <1>2, WaysAre
  <2> HIDE DEF c
  <2> QED BY <2>1, <1>2, <1>5, <1>6, NodesAre
<1>8. Extending(n, c, 1) = Ways(n)
  <2>1. \A w \in Ways(n) : 0 < n => w[0 + 1] >= 1
    <3>1. 0 < n => 0 + 1 \in 1..n
      BY <1>2
    <3> QED BY <3>1, <1>2, WaysAre
  <2>2. \A i \in 1..0 : FALSE
    OBVIOUS
  <2> HIDE DEF c
  <2> QED BY <2>1, <2>2, <1>5 DEF Extending
<1>9. root.chosen = c /\ root.slot = 1 /\ root.best = {}
  OBVIOUS
<1> HIDE DEF root, c
<1>10. Search(clock, ordered)[root] = FirstOf(Ways(n), R)
  <2>1. Search(clock, ordered)[root] = FoundAt(clock, ordered, n, root)
    BY <1>2, <1>7, SearchIs
  <2> QED BY <2>1, <1>3, <1>8, <1>9 DEF FoundAt
<1>11. Ways(n) # {}
  <2> DEFINE w == [i \in 1..n |-> i]
  <2>1. w \in [1..n -> DOMAIN Slots]
    BY <1>2, WaysAre
  <2>2. IsInjective(w)
    BY DEF IsInjective
  <2> QED BY <2>1, <2>2 DEF Ways
<1>12. PICK W : W = Ways(n)
  OBVIOUS
<1>13. /\ FirstOf(W, R) \subseteq W
       /\ \A x, y \in FirstOf(W, R) : x = y
       /\ FirstOf(W, R) # {}
  <2>1. IsFiniteSet(W) /\ W \in SUBSET W /\ StrictOrder(W, R) /\ W # {}
    BY <1>2, <1>4, <1>11, <1>12, WaysFinite
  <2> QED BY <2>1, FirstOfIs
<1>14. BestSlotAssignment(clock, keys) = CHOOSE w \in FirstOf(W, R) : TRUE
  BY <1>1, <1>10, <1>12 DEF BestSlotAssignment, root, c
<1>15. PICK best : best = BestSlotAssignment(clock, keys)
  OBVIOUS
<1>16. best \in FirstOf(W, R)
  BY <1>13, <1>14, <1>15
<1>17. best \in W /\ \A w \in W \ {best} : Cheaper(clock, ordered, best, w)
  <2>1. best \in W /\ \A w \in W \ {best} : <<best, w>> \in R
    BY <1>16 DEF FirstOf
  <2> QED BY <2>1, <1>4, <1>12
<1> QED BY <1>1, <1>12, <1>15, <1>17 DEF n

-----------------------------------------------------------------------------
(* The sessions that keep their date.                                      *)

\* The first n classes of a set of sessions can each be given a session.
LEMMA OneOfEach ==
  ASSUME NEW keys \in SUBSET Key, IsFiniteSet(keys), NEW n \in Nat, n <= Cardinality(Classes(keys))
  PROVE  \E c \in SUBSET keys : Cardinality(c) = n /\ OneEachClass(c)
<1> DEFINE C == Classes(keys)
           m == Cardinality(C)
<1>1. IsFiniteSet(C)
  <2> DEFINE f == [k \in keys |-> ClassOf[k]]
  <2>1. f \in Surjection(keys, C)
    BY DEF Surjection, Classes
  <2> HIDE DEF f, C
  <2> QED BY <2>1, FS_Surjection
<1>2. \A x \in C : \E k \in keys : ClassOf[k] = x
  BY DEF Classes
<1> HIDE DEF C
<1>3. m \in Nat /\ \E b : b \in Bijection(1..m, C)
  BY <1>1, FS_CardinalityType DEF ExistsBijection
<1> HIDE DEF m
<1>4. PICK b : b \in Bijection(1..m, C)
  BY <1>3
<1>5. b \in [1..m -> C] /\ \A i, j \in 1..m : b[i] = b[j] => i = j
  BY <1>4 DEF Bijection, Injection, IsInjective
<1>6. n <= m /\ \A i \in 1..n : i \in 1..m
  BY <1>3 DEF m, C
<1> DEFINE r == [i \in 1..n |-> CHOOSE k \in keys : ClassOf[k] = b[i]]
           c == {r[i] : i \in 1..n}
<1>7. \A i \in 1..n : r[i] \in keys /\ ClassOf[r[i]] = b[i]
  BY <1>2, <1>5, <1>6
<1>8. DOMAIN r = 1..n
  OBVIOUS
<1> HIDE DEF r
<1>9. c \in SUBSET keys
  BY <1>7
<1>10. IsFiniteSet(1..n) /\ Cardinality(1..n) = n
  BY FS_Interval
<1>11. Cardinality(c) = n
  <2> DEFINE f == [i \in 1..n |-> r[i]]
  <2>1. \A i, j \in 1..n : f[i] = f[j] => i = j
    BY <1>5, <1>6, <1>7
  <2>2. f \in Bijection(1..n, c)
    BY <2>1 DEF Bijection, Injection, Surjection, IsInjective
  <2> HIDE DEF f, c
  <2> QED BY <2>2, <1>10, FS_Bijection DEF ExistsBijection
<1>12. Cardinality(Classes(c)) = n
  <2> DEFINE f == [i \in 1..n |-> b[i]]
  <2>1. \A x : x \in Classes(c) <=> \E i \in 1..n : x = b[i]
    BY <1>7 DEF Classes
  <2>2. f \in Bijection(1..n, Classes(c))
    BY <2>1, <1>5, <1>6 DEF Bijection, Injection, Surjection, IsInjective
  <2> HIDE DEF f, c
  <2> QED BY <2>2, <1>10, FS_Bijection DEF ExistsBijection
<1> QED BY <1>9, <1>11, <1>12 DEF OneEachClass

\* How many sessions keep their date.
KeptSize(keys) ==
  IF Len(Slots) < Cardinality(Classes(keys)) THEN Len(Slots) ELSE Cardinality(Classes(keys))

\* The classes of finitely many sessions are at most as many.
LEMMA ClassesFinite ==
  ASSUME NEW keys, IsFiniteSet(keys)
  PROVE  /\ IsFiniteSet(Classes(keys))
         /\ Cardinality(keys) \in Nat /\ Cardinality(Classes(keys)) \in Nat
<1> DEFINE C == Classes(keys)
           f == [k \in keys |-> ClassOf[k]]
<1>1. f \in Surjection(keys, C)
  BY DEF Surjection, Classes
<1> HIDE DEF f
<1>2. IsFiniteSet(C)
  <2> HIDE DEF C
  <2> QED BY <1>1, FS_Surjection
<1> QED BY <1>2, FS_CardinalityType

\* The sets of sessions that may keep their date: one exists.
LEMMA KeepableIs ==
  ASSUME NEW keys \in SUBSET Key
  PROVE  /\ IsFiniteSet(keys)
         /\ KeptSize(keys) \in Nat /\ KeptSize(keys) <= Len(Slots)
         /\ KeptSize(keys) <= Cardinality(Classes(keys))
         /\ IsFiniteSet(Keepable(keys)) /\ Keepable(keys) # {}
         /\ \A c \in Keepable(keys) : /\ c \in SUBSET keys /\ c \in SUBSET Nat /\ IsFiniteSet(c)
                                      /\ Cardinality(c) = KeptSize(keys)
                                      /\ OneEachClass(c)
<1>1. IsFiniteSet(keys) /\ keys \in SUBSET Nat
  BY KeysAssumption, FS_Subset
<1>2. Cardinality(Classes(keys)) \in Nat /\ Len(Slots) \in Nat
  BY <1>1, ClassesFinite, WaysAre
<1>3. KeptSize(keys) \in Nat /\ KeptSize(keys) <= Len(Slots) /\ KeptSize(keys) <= Cardinality(Classes(keys))
  BY <1>2 DEF KeptSize
<1>4. \A c : c \in Keepable(keys) <=> c \in SUBSET keys /\ Cardinality(c) = KeptSize(keys) /\ OneEachClass(c)
  BY DEF Keepable, KeptSize, kSubset
<1>5. Keepable(keys) # {}
  BY <1>1, <1>3, <1>4, OneOfEach
<1>6. IsFiniteSet(Keepable(keys))
  <2>1. Keepable(keys) \in SUBSET (SUBSET keys)
    BY <1>4
  <2>2. IsFiniteSet(SUBSET keys)
    BY <1>1, FS_SUBSET
  <2> QED BY <2>1, <2>2, FS_Subset
<1>7. \A c \in Keepable(keys) : c \in SUBSET keys /\ IsFiniteSet(c)
  BY <1>1, <1>4, FS_Subset
<1>8. \A c \in Keepable(keys) : c \in SUBSET Nat
  BY <1>1, <1>7
<1>9. \A c \in Keepable(keys) : Cardinality(c) = KeptSize(keys) /\ OneEachClass(c)
  BY <1>4
<1> QED BY <1>1, <1>3, <1>5, <1>6, <1>7, <1>8, <1>9

\* What sessions that fit cost at best is a number.
LEMMA BestCostNat ==
  ASSUME NEW keys \in SUBSET Nat, IsFiniteSet(keys), Cardinality(keys) <= Len(Slots),
         NEW clock, \A k \in keys : clock[k] \in Int
  PROVE  BestCost(clock, keys) \in Nat
<1>1. PICK n, ordered, w : /\ n = Cardinality(keys) /\ ordered = Sorted(keys)
                           /\ w = BestSlotAssignment(clock, keys)
  OBVIOUS
<1>2. n \in Nat /\ \A i \in 1..n : clock[ordered[i]] \in Int
  BY <1>1, SortedLists
<1>3. w \in Ways(n) /\ n \in 0..n /\ n \in n..n
  BY <1>1, <1>2, BestIsCheapest
<1>4. WayCost(clock, ordered, w) \in Nat
  BY <1>2, <1>3, WayCosts
<1> QED BY <1>1, <1>4 DEF BestCost

\* The sessions kept are one of these sets: there is a cheapest one.
LEMMA KeptAreKeepable ==
  ASSUME NEW keys \in SUBSET Key, NEW clock, \A k \in keys : clock[k] \in Int
  PROVE  ChooseSessionsToKeep(clock, keys) \in Keepable(keys)
<1> DEFINE A == Keepable(keys)
           n == KeptSize(keys)
           cost == [c \in A |-> BestCost(clock, c)]
           sig == [c \in A |-> Sorted(c)]
<1>1. n \in Nat /\ IsFiniteSet(A) /\ A # {}
  BY KeepableIs
<1>2. \A c \in A : /\ c \in SUBSET keys /\ c \in SUBSET Nat /\ IsFiniteSet(c)
                   /\ Cardinality(c) = n /\ n <= Len(Slots)
  BY KeepableIs
<1> HIDE DEF A, n
<1>3. \A c \in A : BestCost(clock, c) \in Nat
  <2> SUFFICES ASSUME NEW c \in A PROVE BestCost(clock, c) \in Nat
    OBVIOUS
  <2>1. c \in SUBSET Nat /\ IsFiniteSet(c) /\ Cardinality(c) <= Len(Slots) /\ \A k \in c : clock[k] \in Int
    BY <1>2
  <2> QED BY <2>1, BestCostNat
<1>4. \A c \in A : Sorted(c) \in [1..n -> Nat] /\ \A k \in Nat : k \in c <=> \E i \in 1..n : Sorted(c)[i] = k
  <2> SUFFICES ASSUME NEW c \in A
               PROVE  Sorted(c) \in [1..n -> Nat] /\ \A k \in Nat : k \in c <=> \E i \in 1..n : Sorted(c)[i] = k
    OBVIOUS
  <2>1. c \in SUBSET Nat /\ IsFiniteSet(c) /\ Cardinality(c) = n
    BY <1>2
  <2>2. PICK s : s = Sorted(c)
    OBVIOUS
  <2>3. s \in [1..n -> c] /\ \A k \in c : \E i \in 1..n : s[i] = k
    BY <2>1, <2>2, SortedLists
  <2> QED BY <2>1, <2>2, <2>3
<1>5. cost \in [A -> Nat] /\ sig \in [A -> [1..n -> Nat]]
  BY <1>3, <1>4
<1>6. \A x, y \in A : sig[x] = sig[y] => x = y
  <2> SUFFICES ASSUME NEW x \in A, NEW y \in A, Sorted(x) = Sorted(y) PROVE x = y
    OBVIOUS
  <2>1. x \in SUBSET Nat /\ y \in SUBSET Nat
    BY <1>2
  <2>2. \A k \in Nat : k \in x <=> k \in y
    BY <1>4
  <2> QED BY <2>1, <2>2
<1>7. \A x, y \in A : <<x, y>> \in ByCost(A, cost, sig) <=>
        \/ BestCost(clock, x) < BestCost(clock, y)
        \/ BestCost(clock, x) = BestCost(clock, y) /\ Before(Sorted(x), Sorted(y))
  BY DEF ByCost
<1> HIDE DEF cost, sig
<1>8. StrictOrder(A, ByCost(A, cost, sig))
  BY <1>1, <1>5, <1>6, CostOrders
<1>9. PICK x \in A : \A y \in A \ {x} : <<x, y>> \in ByCost(A, cost, sig)
  BY <1>1, <1>8, FirstExists
<1>10. \A d \in A \ {x} : \/ BestCost(clock, x) < BestCost(clock, d)
                          \/ BestCost(clock, x) = BestCost(clock, d) /\ Before(Sorted(x), Sorted(d))
  BY <1>7, <1>9
<1> QED BY <1>10 DEF ChooseSessionsToKeep, A

-----------------------------------------------------------------------------
(* The calendar.                                                           *)

\* A clock of known sessions.
IsClock(clock) == DOMAIN clock \in SUBSET Key /\ \A k \in DOMAIN clock : clock[k] \in Int

From(clock, d) == {k \in DOMAIN clock : SourceDate(clock[k]) = d}

\* A calendar of sessions of a clock: every session once.
IsCalendar(clock, calendar) ==
  /\ \A p \in calendar : p = Place(p.key, p.date) /\ p.key \in DOMAIN clock /\ p.date \in Int
  /\ \A p, q \in calendar : p.key = q.key => p = q

\* No date has more sessions than slots, nor a class twice.
DatesHold(calendar) ==
  \A d \in Int : /\ Cardinality(On(calendar, d)) <= Len(Slots)
                 /\ OneEachClass(On(calendar, d))

\* A session away from its date has no room nearer to it.
Nearest(clock, calendar) ==
  \A p \in calendar :
    LET origin == SourceDate(clock[p.key])
    IN  p.date # origin =>
          /\ IsWeekday(p.date)
          /\ ~ RoomFor(p.key, On(calendar, origin))
          /\ \A e \in (origin - Horizon)..(origin + Horizon) :
               (IsWeekday(e) /\ RoomFor(p.key, On(calendar, e))) => Rank(origin, p.date) < Rank(origin, e)

\* A session not yet placed finds no room on its own date.
NoRoomAtHome(clock, calendar) ==
  \A k \in DOMAIN clock \ Placed(calendar) : ~ RoomFor(k, On(calendar, SourceDate(clock[k])))

CalendarInv(clock, calendar) ==
  /\ IsCalendar(clock, calendar)
  /\ DatesHold(calendar)
  /\ Nearest(clock, calendar)
  /\ NoRoomAtHome(clock, calendar)

\* The sessions on a date are finitely many known ones.
LEMMA OnIsFinite ==
  ASSUME NEW clock, IsClock(clock), NEW calendar, IsCalendar(clock, calendar), NEW d
  PROVE  /\ On(calendar, d) \in SUBSET DOMAIN clock
         /\ On(calendar, d) \in SUBSET Key
         /\ On(calendar, d) \in SUBSET Nat
         /\ IsFiniteSet(On(calendar, d))
         /\ Cardinality(On(calendar, d)) \in Nat
<1>1. On(calendar, d) \in SUBSET DOMAIN clock
  BY DEF On, IsCalendar
<1>2. DOMAIN clock \in SUBSET Key /\ Key \subseteq Nat /\ IsFiniteSet(Key)
  BY KeysAssumption DEF IsClock
<1>3. On(calendar, d) \in SUBSET Key
  BY <1>1, <1>2
<1>4. IsFiniteSet(On(calendar, d))
  BY <1>2, <1>3, FS_Subset
<1> QED BY <1>1, <1>2, <1>3, <1>4, FS_CardinalityType

\* Room on a fuller date was there before.
LEMMA RoomShrinks ==
  ASSUME NEW more, IsFiniteSet(more), NEW fewer \in SUBSET more, NEW k, RoomFor(k, more)
  PROVE  RoomFor(k, fewer)
<1>1. Cardinality(fewer) <= Cardinality(more) /\ IsFiniteSet(fewer)
  BY FS_Subset
<1>2. Cardinality(fewer) \in Nat /\ Cardinality(more) \in Nat /\ Len(Slots) \in Nat
  BY <1>1, FS_CardinalityType, WaysAre
<1>3. Classes(fewer) \subseteq Classes(more)
  BY DEF Classes
<1> QED BY <1>1, <1>2, <1>3 DEF RoomFor

\* A session that comes to a date with room keeps the date within its bounds.
LEMMA RoomIsEnough ==
  ASSUME NEW held, IsFiniteSet(held), OneEachClass(held), NEW k, RoomFor(k, held)
  PROVE  /\ Cardinality(held \cup {k}) <= Len(Slots)
         /\ OneEachClass(held \cup {k})
<1>1. k \notin held
  BY DEF RoomFor, Classes
<1>2. Cardinality(held \cup {k}) = Cardinality(held) + 1 /\ Cardinality(held) \in Nat
  BY <1>1, FS_AddElement, FS_CardinalityType
<1>3. Classes(held \cup {k}) = Classes(held) \cup {ClassOf[k]}
  BY DEF Classes
<1>4. Cardinality(Classes(held) \cup {ClassOf[k]}) = Cardinality(Classes(held)) + 1
  BY ClassesFinite, FS_AddElement DEF RoomFor
<1>5. Cardinality(held) < Len(Slots) /\ Len(Slots) \in Nat
  BY WaysAre DEF RoomFor
<1>6. Cardinality(Classes(held)) = Cardinality(held)
  BY DEF OneEachClass
<1>7. Cardinality(held \cup {k}) <= Len(Slots)
  BY <1>2, <1>5
<1>8. Cardinality(Classes(held \cup {k})) = Cardinality(held \cup {k})
  BY <1>2, <1>3, <1>4, <1>6
<1> QED BY <1>7, <1>8 DEF OneEachClass

\* Who does not keep the date found no room there: it is full or the class is
\* there already.
LEMMA KeptLeaveNoRoom ==
  ASSUME NEW keys \in SUBSET Key, NEW c \in Keepable(keys), NEW k \in keys, k \notin c
  PROVE  ~ RoomFor(k, c)
<1>1. c \in SUBSET keys /\ IsFiniteSet(c) /\ Cardinality(c) = KeptSize(keys) /\ OneEachClass(c) /\ IsFiniteSet(keys)
  BY KeepableIs
<1>2. CASE KeptSize(keys) = Len(Slots)
  BY <1>1, <1>2, WaysAre DEF RoomFor
<1>3. CASE KeptSize(keys) = Cardinality(Classes(keys))
  <2>1. Classes(c) \in SUBSET Classes(keys) /\ IsFiniteSet(Classes(keys))
    BY <1>1, ClassesFinite DEF Classes
  <2>2. Cardinality(Classes(c)) = Cardinality(Classes(keys))
    BY <1>1, <1>3 DEF OneEachClass
  <2>3. Classes(c) = Classes(keys)
    BY <2>1, <2>2, FS_Subset
  <2>4. ClassOf[k] \in Classes(keys)
    BY DEF Classes
  <2> QED BY <2>3, <2>4 DEF RoomFor
<1> QED BY <1>2, <1>3 DEF KeptSize

\* The calendar of the sessions that keep their dates.
LEMMA KeptPlacesAre ==
  ASSUME NEW clock, IsClock(clock)
  PROVE  /\ CalendarInv(clock, KeptPlaces(clock))
         /\ \A d \in Int : On(KeptPlaces(clock), d) \in SUBSET From(clock, d)
<1> DEFINE Days == {SourceDate(clock[k]) : k \in DOMAIN clock}
           keep == [d \in Days |-> ChooseSessionsToKeep(clock, From(clock, d))]
<1>1. PICK calendar : calendar = KeptPlaces(clock)
  OBVIOUS
<1>2. calendar = UNION {{Place(k, d) : k \in ChooseSessionsToKeep(clock, From(clock, d))} : d \in Days}
  BY <1>1 DEF KeptPlaces, From
<1>16. \A p : p \in calendar <=> \E d \in Days : \E k \in ChooseSessionsToKeep(clock, From(clock, d)) : p = Place(k, d)
  BY <1>2
<1>17. \A d \in Days : keep[d] = ChooseSessionsToKeep(clock, From(clock, d))
  OBVIOUS
<1>3. \A d \in Days : d \in Int /\ From(clock, d) \in SUBSET Key
  BY DEF IsClock, From, SourceDate
<1>4. \A d \in Days : keep[d] \in Keepable(From(clock, d))
  <2> SUFFICES ASSUME NEW d \in Days PROVE ChooseSessionsToKeep(clock, From(clock, d)) \in Keepable(From(clock, d))
    OBVIOUS
  <2>1. From(clock, d) \in SUBSET Key /\ \A k \in From(clock, d) : clock[k] \in Int
    BY <1>3 DEF From, IsClock
  <2> QED BY <2>1, KeptAreKeepable
<1>5. \A k \in DOMAIN clock : SourceDate(clock[k]) \in Days
  OBVIOUS
<1> HIDE DEF keep, Days
<1>6. \A d \in Days : /\ keep[d] \in SUBSET From(clock, d)
                       /\ Cardinality(keep[d]) = KeptSize(From(clock, d))
                       /\ KeptSize(From(clock, d)) <= Len(Slots)
                       /\ OneEachClass(keep[d])
  <2> SUFFICES ASSUME NEW d \in Days
               PROVE  /\ keep[d] \in SUBSET From(clock, d)
                      /\ Cardinality(keep[d]) = KeptSize(From(clock, d))
                      /\ KeptSize(From(clock, d)) <= Len(Slots)
                      /\ OneEachClass(keep[d])
    OBVIOUS
  <2>1. PICK F, c : F = From(clock, d) /\ c = keep[d]
    OBVIOUS
  <2>2. F \in SUBSET Key /\ c \in Keepable(F)
    BY <1>3, <1>4, <2>1
  <2>3. c \in SUBSET F /\ Cardinality(c) = KeptSize(F) /\ OneEachClass(c) /\ KeptSize(F) <= Len(Slots)
    BY <2>2, KeepableIs
  <2> QED BY <2>1, <2>3
<1>7. \A p : p \in calendar <=> \E d \in Days : \E k \in keep[d] : p = [key |-> k, date |-> d]
  BY <1>16, <1>17 DEF Place
<1>8. \A p \in calendar : /\ p = [key |-> p.key, date |-> p.date]
                          /\ p.date \in Days /\ p.key \in keep[p.date]
                          /\ p.key \in DOMAIN clock /\ SourceDate(clock[p.key]) = p.date
  <2> SUFFICES ASSUME NEW p \in calendar
               PROVE  /\ p = [key |-> p.key, date |-> p.date]
                      /\ p.date \in Days /\ p.key \in keep[p.date]
                      /\ p.key \in DOMAIN clock /\ SourceDate(clock[p.key]) = p.date
    OBVIOUS
  <2>1. PICK d \in Days : \E k \in keep[d] : p = [key |-> k, date |-> d]
    BY <1>7
  <2>5. PICK k \in keep[d] : p = [key |-> k, date |-> d]
    BY <2>1
  <2>2. p.key = k /\ p.date = d
    BY <2>5
  <2>3. k \in From(clock, d)
    BY <1>6, <2>5
  <2>4. k \in DOMAIN clock /\ SourceDate(clock[k]) = d
    BY <2>3 DEF From
  <2> QED BY <2>5, <2>2, <2>4
<1>9. IsCalendar(clock, calendar)
  <2>1. \A p \in calendar : p = Place(p.key, p.date) /\ p.key \in DOMAIN clock /\ p.date \in Int
    BY <1>3, <1>8 DEF Place
  <2>2. \A p, q \in calendar : p.key = q.key => p = q
    BY <1>8
  <2> QED BY <2>1, <2>2 DEF IsCalendar
<1>10. \A d \in Days : On(calendar, d) = keep[d]
  <2> SUFFICES ASSUME NEW d \in Days PROVE On(calendar, d) = keep[d]
    OBVIOUS
  <2>1. ASSUME NEW k, k \in On(calendar, d) PROVE k \in keep[d]
    BY <1>8, <2>1 DEF On
  <2>2. ASSUME NEW k \in keep[d] PROVE k \in On(calendar, d)
    <3>1. [key |-> k, date |-> d] \in calendar
      BY <1>7, <2>2
    <3> QED BY <3>1 DEF On
  <2> QED BY <2>1, <2>2
<1>11. \A d : d \notin Days => On(calendar, d) = {}
  BY <1>8 DEF On
<1>12. DatesHold(calendar)
  <2>1. Cardinality({}) = 0 /\ Classes({}) = {} /\ Len(Slots) \in Nat
    BY FS_EmptySet, WaysAre DEF Classes
  <2>2. \A d \in Days : Cardinality(On(calendar, d)) <= Len(Slots) /\ OneEachClass(On(calendar, d))
    BY <1>6, <1>10
  <2>3. \A d : d \notin Days => Cardinality(On(calendar, d)) <= Len(Slots) /\ OneEachClass(On(calendar, d))
    <3>1. OneEachClass({})
      BY <2>1 DEF OneEachClass
    <3>2. Cardinality({}) <= Len(Slots)
      BY <2>1
    <3> QED BY <1>11, <3>1, <3>2
  <2> QED BY <2>2, <2>3 DEF DatesHold
<1>13. Nearest(clock, calendar)
  BY <1>8 DEF Nearest
<1>14. NoRoomAtHome(clock, calendar)
  <2> SUFFICES ASSUME NEW k \in DOMAIN clock \ Placed(calendar)
               PROVE  ~ RoomFor(k, On(calendar, SourceDate(clock[k])))
    BY DEF NoRoomAtHome
  <2>1. PICK d, F, c : d = SourceDate(clock[k]) /\ F = From(clock, d) /\ c = On(calendar, d)
    OBVIOUS
  <2>2. d \in Days /\ F \in SUBSET Key /\ c \in Keepable(F) /\ k \in F
    BY <2>1, <1>3, <1>4, <1>5, <1>10 DEF From
  <2>3. k \notin c
    BY <2>1 DEF Placed, On
  <2>4. ~ RoomFor(k, c)
    BY <2>2, <2>3, KeptLeaveNoRoom
  <2> QED BY <2>1, <2>4
<1>15. \A d : On(calendar, d) \in SUBSET From(clock, d)
  BY <1>6, <1>10, <1>11
<1> QED BY <1>1, <1>9, <1>12, <1>13, <1>14, <1>15 DEF CalendarInv

-----------------------------------------------------------------------------
\* The date found is the nearest one with room, and the only such date.
LEMMA DateFound ==
  ASSUME NEW clock, IsClock(clock), NEW calendar, NEW k \in DOMAIN clock,
         NEW origin, origin = SourceDate(clock[k])
  PROVE  /\ \A d, e \in NearestAvailableDate(clock, k, calendar) : d = e
         /\ \A d \in NearestAvailableDate(clock, k, calendar) :
              /\ d \in Int /\ d # origin
              /\ IsWeekday(d) /\ RoomFor(k, On(calendar, d))
              /\ \A e \in (origin - Horizon)..(origin + Horizon) :
                   (IsWeekday(e) /\ RoomFor(k, On(calendar, e)) /\ e # d /\ e # origin)
                     => Rank(origin, d) < Rank(origin, e)
<1>1. origin \in Int /\ Horizon \in Int
  BY HorizonAssumption DEF IsClock, SourceDate
<1>2. PICK free : free = FreeDates(clock, k, calendar)
  OBVIOUS
<1>3. NearestAvailableDate(clock, k, calendar) = {d \in free : \A e \in free \ {d} : Rank(origin, d) < Rank(origin, e)}
  BY <1>2 DEF NearestAvailableDate
<1>4. \A d : d \in free <=> /\ d \in (origin - Horizon)..(origin + Horizon) /\ d # origin
                            /\ IsWeekday(d) /\ RoomFor(k, On(calendar, d))
  BY <1>2 DEF FreeDates
<1>5. \A d \in free : d \in Int
  BY <1>1, <1>4
<1>6. ASSUME NEW d \in NearestAvailableDate(clock, k, calendar),
             NEW e \in NearestAvailableDate(clock, k, calendar), d # e
      PROVE  FALSE
  <2>1. d \in Int /\ e \in Int /\ Rank(origin, d) < Rank(origin, e) /\ Rank(origin, e) < Rank(origin, d)
    BY <1>3, <1>5, <1>6
  <2>2. Rank(origin, d) \in Int /\ Rank(origin, e) \in Int
    BY <1>1, <2>1 DEF Rank, Distance
  <2> QED BY <2>1, <2>2
<1>7. ASSUME NEW d \in NearestAvailableDate(clock, k, calendar)
      PROVE  /\ d \in Int /\ d # origin
             /\ IsWeekday(d) /\ RoomFor(k, On(calendar, d))
             /\ \A e \in (origin - Horizon)..(origin + Horizon) :
                  (IsWeekday(e) /\ RoomFor(k, On(calendar, e)) /\ e # d /\ e # origin)
                    => Rank(origin, d) < Rank(origin, e)
  BY <1>3, <1>4, <1>5
<1> QED BY <1>6, <1>7

\* A session put on such a date leaves the calendar in order.
LEMMA PlacingKeeps ==
  ASSUME NEW clock, IsClock(clock), NEW calendar, CalendarInv(clock, calendar),
         NEW k \in DOMAIN clock, k \notin Placed(calendar),
         NEW d \in NearestAvailableDate(clock, k, calendar),
         NEW more, more = calendar \cup {Place(k, d)}
  PROVE  CalendarInv(clock, more)
<1>1. PICK home : home = SourceDate(clock[k])
  OBVIOUS
<1>2. /\ d \in Int /\ d # home
      /\ IsWeekday(d) /\ RoomFor(k, On(calendar, d))
      /\ \A e \in (home - Horizon)..(home + Horizon) :
           (IsWeekday(e) /\ RoomFor(k, On(calendar, e)) /\ e # d /\ e # home)
             => Rank(home, d) < Rank(home, e)
  BY <1>1, DateFound
<1>3. IsCalendar(clock, calendar) /\ DatesHold(calendar) /\ Nearest(clock, calendar) /\ NoRoomAtHome(clock, calendar)
  BY DEF CalendarInv
<1>4. PICK new : new = Place(k, d)
  OBVIOUS
<1>5. new.key = k /\ new.date = d /\ new = [key |-> k, date |-> d] /\ more = calendar \cup {new}
  BY <1>4 DEF Place
<1>6. \A p \in calendar : p.key # k
  BY DEF Placed
<1>7. IsCalendar(clock, more)
  <2>1. \A p \in more : p = Place(p.key, p.date) /\ p.key \in DOMAIN clock /\ p.date \in Int
    BY <1>2, <1>3, <1>4, <1>5 DEF IsCalendar
  <2>2. \A p, q \in more : p.key = q.key => p = q
    BY <1>3, <1>5, <1>6 DEF IsCalendar
  <2> QED BY <2>1, <2>2 DEF IsCalendar
<1>8. \A e : On(more, e) = IF e = d THEN On(calendar, e) \cup {k} ELSE On(calendar, e)
  BY <1>5 DEF On
<1>9. \A e : /\ IsFiniteSet(On(more, e)) /\ On(calendar, e) \in SUBSET On(more, e)
             /\ IsFiniteSet(On(calendar, e))
  <2>1. \A e : IsFiniteSet(On(more, e))
    BY <1>7, OnIsFinite
  <2>2. \A e : IsFiniteSet(On(calendar, e))
    BY <1>3, OnIsFinite
  <2>3. \A e : On(calendar, e) \subseteq On(more, e)
    BY <1>8
  <2> QED BY <2>1, <2>2, <2>3
<1>10. DatesHold(more)
  <2> SUFFICES ASSUME NEW e \in Int
               PROVE  Cardinality(On(more, e)) <= Len(Slots) /\ OneEachClass(On(more, e))
    BY DEF DatesHold
  <2>1. CASE e # d
    <3>1. On(more, e) = On(calendar, e)
      BY <1>8, <2>1
    <3>2. Cardinality(On(calendar, e)) <= Len(Slots) /\ OneEachClass(On(calendar, e))
      BY <1>3 DEF DatesHold
    <3> QED BY <3>1, <3>2
  <2>2. CASE e = d
    <3>1. PICK held : held = On(calendar, d)
      OBVIOUS
    <3>2. IsFiniteSet(held) /\ OneEachClass(held) /\ RoomFor(k, held)
      BY <1>2, <1>3, <1>9, <3>1 DEF DatesHold
    <3>3. Cardinality(held \cup {k}) <= Len(Slots) /\ OneEachClass(held \cup {k})
      BY <3>2, RoomIsEnough
    <3> QED BY <2>2, <3>1, <3>3, <1>8
  <2> QED BY <2>1, <2>2
<1>11. \A l, e : RoomFor(l, On(more, e)) => RoomFor(l, On(calendar, e))
  BY <1>9, RoomShrinks
<1>12. NoRoomAtHome(clock, more)
  <2>1. Placed(calendar) \subseteq Placed(more)
    BY <1>5 DEF Placed
  <2> QED BY <1>3, <1>11, <2>1 DEF NoRoomAtHome
<1>13. ~ RoomFor(k, On(more, d))
  <2>1. k \in On(more, d)
    BY <1>8
  <2> QED BY <2>1 DEF RoomFor, Classes
<1>14. ~ RoomFor(k, On(more, home))
  BY <1>1, <1>3, <1>11 DEF NoRoomAtHome
<1>15. Nearest(clock, more)
  <2> SUFFICES ASSUME NEW p \in more, NEW origin, origin = SourceDate(clock[p.key]), p.date # origin
               PROVE  /\ IsWeekday(p.date)
                      /\ ~ RoomFor(p.key, On(more, origin))
                      /\ \A e \in (origin - Horizon)..(origin + Horizon) :
                           (IsWeekday(e) /\ RoomFor(p.key, On(more, e))) => Rank(origin, p.date) < Rank(origin, e)
    BY DEF Nearest
  <2>1. CASE p \in calendar
    <3>1. /\ IsWeekday(p.date)
          /\ ~ RoomFor(p.key, On(calendar, origin))
          /\ \A e \in (origin - Horizon)..(origin + Horizon) :
               (IsWeekday(e) /\ RoomFor(p.key, On(calendar, e))) => Rank(origin, p.date) < Rank(origin, e)
      BY <1>3, <2>1 DEF Nearest
    <3> QED BY <3>1, <1>11
  <2>2. CASE p = new
    <3>1. p.key = k /\ p.date = d /\ origin = home
      BY <2>2, <1>1, <1>5
    <3>2. \A e \in (home - Horizon)..(home + Horizon) :
            (IsWeekday(e) /\ RoomFor(k, On(more, e))) => Rank(home, d) < Rank(home, e)
      BY <1>2, <1>11, <1>13, <1>14
    <3> QED BY <3>1, <3>2, <1>2, <1>14
  <2> QED BY <2>1, <2>2, <1>5
<1> QED BY <1>7, <1>10, <1>12, <1>15 DEF CalendarInv

\* The calendar after a session's turn.
Filled(clock, calendar, k) ==
  calendar \cup {Place(k, d) : d \in NearestAvailableDate(clock, k, calendar)}

\* A session's turn adds a place for it at most, and keeps all that the loop knows.
LEMMA FilledKeeps ==
  ASSUME NEW clock, IsClock(clock), NEW calendar, CalendarInv(clock, calendar),
         NEW k \in DOMAIN clock, k \notin Placed(calendar)
  PROVE  /\ CalendarInv(clock, Filled(clock, calendar, k))
         /\ Placed(Filled(clock, calendar, k)) \subseteq Placed(calendar) \cup {k}
<1>1. PICK more : more = Filled(clock, calendar, k)
  OBVIOUS
<1>2. PICK found : found = NearestAvailableDate(clock, k, calendar)
  OBVIOUS
<1>3. more = calendar \cup {Place(k, d) : d \in found}
  BY <1>1, <1>2 DEF Filled
<1>4. Placed(more) \subseteq Placed(calendar) \cup {k}
  <2>1. \A d : Place(k, d).key = k
    BY DEF Place
  <2> QED BY <1>3, <2>1 DEF Placed
<1>5. CASE found = {}
  <2>1. more = calendar
    BY <1>3, <1>5
  <2> QED BY <1>1, <1>4, <2>1
<1>6. CASE found # {}
  <2>1. PICK d : d \in found
    BY <1>6
  <2>2. found = {d}
    BY <1>2, <2>1, DateFound
  <2>3. more = calendar \cup {Place(k, d)}
    BY <1>3, <2>2
  <2>4. CalendarInv(clock, more)
    BY <1>2, <2>1, <2>3, PlacingKeeps
  <2> QED BY <1>1, <1>4, <2>4
<1> QED BY <1>5, <1>6

-----------------------------------------------------------------------------
\* The sessions to move are listed once each, none of them placed yet.
LEMMA OverflowLists ==
  ASSUME NEW clock, IsClock(clock)
  PROVE  \E m \in Nat :
           /\ Overflow(clock) \in [1..m -> DOMAIN clock \ Placed(KeptPlaces(clock))]
           /\ \A i, j \in 1..m : Overflow(clock)[i] = Overflow(clock)[j] => i = j
<1> DEFINE earlier(k, l) == \/ SourceDate(clock[k]) < SourceDate(clock[l])
                            \/ SourceDate(clock[k]) = SourceDate(clock[l]) /\ k < l
           S == DOMAIN clock \ Placed(KeptPlaces(clock))
           m == Cardinality(S)
           R == {p \in S \X S : earlier(p[1], p[2])}
<1>1. S \in SUBSET Nat /\ IsFiniteSet(S)
  <2>1. DOMAIN clock \in SUBSET Key /\ Key \subseteq Nat /\ IsFiniteSet(Key)
    BY KeysAssumption DEF IsClock
  <2> QED BY <2>1, FS_Subset
<1>2. \A k \in S : SourceDate(clock[k]) \in Int
  BY DEF IsClock, SourceDate
<1>3. \A x, y \in S : <<x, y>> \in R <=> earlier(x, y)
  OBVIOUS
<1>4. Overflow(clock) = CHOOSE s \in [1..m -> S] : \A i, j \in DOMAIN s : i < j => earlier(s[i], s[j])
  BY DEF Overflow, InOrder
<1> HIDE DEF R, S
<1>5. StrictOrder(S, R)
  <2>1. \A x \in S : <<x, x>> \notin R
    BY <1>1, <1>2, <1>3
  <2>2. \A x, y, z \in S : <<x, y>> \in R /\ <<y, z>> \in R => <<x, z>> \in R
    <3> SUFFICES ASSUME NEW x \in S, NEW y \in S, NEW z \in S, earlier(x, y), earlier(y, z) PROVE earlier(x, z)
      BY <1>3
    <3>1. x \in Nat /\ y \in Nat /\ z \in Nat
      BY <1>1
    <3> QED BY <3>1, <1>2
  <2>3. \A x, y \in S : x # y => <<x, y>> \in R \/ <<y, x>> \in R
    <3> SUFFICES ASSUME NEW x \in S, NEW y \in S, x # y PROVE earlier(x, y) \/ earlier(y, x)
      BY <1>3
    <3>1. x \in Nat /\ y \in Nat
      BY <1>1
    <3> QED BY <3>1, <1>2
  <2> QED BY <2>1, <2>2, <2>3 DEF StrictOrder
<1>6. PICK s : Enumerates(s, S, R)
  BY <1>1, <1>5, EnumerationExists
<1>7. m \in Nat
  BY <1>1, FS_CardinalityType
<1>8. s \in [1..m -> S] /\ \A i, j \in DOMAIN s : i < j => earlier(s[i], s[j])
  <2>1. s \in [1..m -> S] /\ \A i, j \in 1..m : i < j => <<s[i], s[j]>> \in R
    BY <1>6 DEF Enumerates
  <2> HIDE DEF m
  <2>2. DOMAIN s = 1..m
    BY <2>1
  <2> HIDE DEF earlier
  <2> QED BY <2>1, <2>2, <1>3
<1> HIDE DEF m, earlier
<1>9. PICK t : t = Overflow(clock)
  OBVIOUS
<1>10. t \in [1..m -> S] /\ \A i, j \in DOMAIN t : i < j => earlier(t[i], t[j])
  BY <1>4, <1>8, <1>9
<1>11. Enumerates(t, S, R)
  <2>1. DOMAIN t = 1..m
    BY <1>10
  <2>2. \A i, j \in 1..m : i < j => <<t[i], t[j]>> \in R
    BY <1>3, <1>10, <2>1
  <2> QED BY <1>10, <2>2 DEF Enumerates, m
<1>12. \A i, j \in 1..m : t[i] = t[j] => i = j
  BY <1>1, <1>5, <1>11, EnumerationListsAll DEF m
<1> QED BY <1>7, <1>9, <1>10, <1>12 DEF S

\* The calendar filled session by session.
Fills(clock, moved, m, g) ==
  g = [i \in 0..m |-> IF i = 0 THEN KeptPlaces(clock) ELSE Filled(clock, g[i - 1], moved[i])]

\* It exists.
LEMMA FillingExists ==
  ASSUME NEW clock, IsClock(clock), NEW m \in Nat, NEW moved \in [1..m -> DOMAIN clock]
  PROVE  \E g : Fills(clock, moved, m, g)
<1> DEFINE X == SUBSET [key : Key, date : Int]
           a == KeptPlaces(clock)
           G == [n \in Nat |-> [x \in X |-> IF n + 1 \in 1..m THEN Filled(clock, x, moved[n + 1]) ELSE x]]
<1>1. a \in X
  <2>1. \A p \in KeptPlaces(clock) : p = Place(p.key, p.date) /\ p.key \in DOMAIN clock /\ p.date \in Int
    BY KeptPlacesAre DEF CalendarInv, IsCalendar
  <2>2. \A p \in KeptPlaces(clock) : p = [key |-> p.key, date |-> p.date] /\ p.key \in Key /\ p.date \in Int
    BY <2>1 DEF Place, IsClock
  <2> QED BY <2>2
<1>2. ASSUME NEW x \in X, NEW k \in DOMAIN clock PROVE Filled(clock, x, k) \in X
  <2>1. \A d \in NearestAvailableDate(clock, k, x) : d \in Int
    BY DateFound
  <2>2. k \in Key
    BY DEF IsClock
  <2>3. \A d \in NearestAvailableDate(clock, k, x) : Place(k, d) \in [key : Key, date : Int]
    BY <2>1, <2>2 DEF Place
  <2> QED BY <2>3 DEF Filled
<1>3. \A n \in Nat, x \in X : G[n][x] = IF n + 1 \in 1..m THEN Filled(clock, x, moved[n + 1]) ELSE x
  OBVIOUS
<1> HIDE DEF X, G, a
<1>4. Stays(X, G)
  <2> SUFFICES ASSUME NEW n \in Nat, NEW x \in X PROVE G[n][x] \in X
    BY DEF Stays
  <2>1. CASE n + 1 \in 1..m
    <3>1. moved[n + 1] \in DOMAIN clock
      BY <2>1
    <3> QED BY <3>1, <2>1, <1>2, <1>3
  <2>2. CASE n + 1 \notin 1..m
    BY <2>2, <1>3
  <2> QED BY <2>1, <2>2
<1>5. PICK f : Reaches(X, a, G, f)
  BY <1>1, <1>4, LoopExists
<1>6. f \in [Nat -> X] /\ f[0] = a /\ \A n \in Nat : f[n + 1] = G[n][f[n]]
  BY <1>5 DEF Reaches
<1> DEFINE g == [i \in 0..m |-> f[i]]
<1>7. ASSUME NEW i \in 0..m PROVE g[i] = IF i = 0 THEN a ELSE Filled(clock, g[i - 1], moved[i])
  <2>1. CASE i = 0
    BY <2>1, <1>6
  <2>2. CASE i # 0
    <3>1. i - 1 \in Nat /\ i - 1 \in 0..m /\ (i - 1) + 1 = i /\ i \in 1..m
      BY <2>2
    <3>2. f[i] = G[i - 1][f[i - 1]] /\ f[i - 1] \in X
      BY <3>1, <1>6
    <3>3. G[i - 1][f[i - 1]] = Filled(clock, f[i - 1], moved[i])
      BY <3>1, <3>2, <1>3
    <3> QED BY <2>2, <3>1, <3>2, <3>3
  <2> QED BY <2>1, <2>2
<1>8. g = [i \in 0..m |-> g[i]]
  OBVIOUS
<1> HIDE DEF g
<1>9. Fills(clock, moved, m, g)
  BY <1>7, <1>8 DEF Fills, a
<1> QED BY <1>9

\* The calendar the allocation ends with is in order.
LEMMA PlacementIs ==
  ASSUME NEW clock, IsClock(clock)
  PROVE  CalendarInv(clock, Placement(clock))
<1>1. PICK moved : moved = Overflow(clock)
  OBVIOUS
<1>2. PICK m \in Nat : /\ moved \in [1..m -> DOMAIN clock \ Placed(KeptPlaces(clock))]
                       /\ \A i, j \in 1..m : moved[i] = moved[j] => i = j
  BY <1>1, OverflowLists
<1>3. Len(moved) = m /\ moved \in [1..m -> DOMAIN clock]
  BY <1>2
<1>4. Placement(clock) = (CHOOSE g : Fills(clock, moved, m, g))[m]
  BY <1>1, <1>3 DEF Placement, Fill, Fills, Filled
<1>5. PICK g : g = (CHOOSE h : Fills(clock, moved, m, h)) /\ Fills(clock, moved, m, g)
  BY <1>3, FillingExists
<1>6. \A i \in 0..m : g[i] = IF i = 0 THEN KeptPlaces(clock) ELSE Filled(clock, g[i - 1], moved[i])
  BY <1>5 DEF Fills
<1> DEFINE Done(i) == /\ CalendarInv(clock, g[i])
                      /\ \A j \in (i + 1)..m : moved[j] \notin Placed(g[i])
           A == {i \in Nat : i <= m => Done(i)}
<1>7. 0 \in A
  <2>1. g[0] = KeptPlaces(clock)
    BY <1>6
  <2>2. \A j \in (0 + 1)..m : moved[j] \notin Placed(KeptPlaces(clock))
    BY <1>2
  <2> QED BY <2>1, <2>2, KeptPlacesAre
<1>8. ASSUME NEW i \in Nat, i \in A PROVE i + 1 \in A
  <2> SUFFICES ASSUME i + 1 <= m PROVE Done(i + 1)
    OBVIOUS
  <2>1. i + 1 \in 0..m /\ i + 1 # 0 /\ (i + 1) - 1 = i /\ i + 1 \in 1..m /\ i <= m
    OBVIOUS
  <2>2. Done(i)
    BY <1>8, <2>1
  <2>3. PICK calendar, k : calendar = g[i] /\ k = moved[i + 1]
    OBVIOUS
  <2>4. g[i + 1] = Filled(clock, calendar, k)
    BY <1>6, <2>1, <2>3
  <2>5. CalendarInv(clock, calendar) /\ k \in DOMAIN clock /\ k \notin Placed(calendar)
    BY <1>3, <2>1, <2>2, <2>3
  <2>6. /\ CalendarInv(clock, Filled(clock, calendar, k))
        /\ Placed(Filled(clock, calendar, k)) \subseteq Placed(calendar) \cup {k}
    BY <2>5, FilledKeeps
  <2>7. ASSUME NEW j \in ((i + 1) + 1)..m PROVE moved[j] \notin Placed(g[i + 1])
    <3>1. j \in (i + 1)..m /\ j \in 1..m /\ j # i + 1
      OBVIOUS
    <3>2. moved[j] \notin Placed(calendar)
      BY <2>2, <2>3, <3>1
    <3>3. moved[j] # k
      BY <1>2, <2>1, <2>3, <3>1
    <3> QED BY <2>4, <2>6, <3>2, <3>3
  <2> QED BY <2>4, <2>6, <2>7
<1> HIDE DEF A
<1>9. Nat \subseteq A
  BY <1>7, <1>8, AllNumbers
<1>10. CalendarInv(clock, g[m])
  BY <1>9 DEF A
<1> QED BY <1>4, <1>5, <1>10

-----------------------------------------------------------------------------
\* Every session placed starts at the slot the cheapest way of its date gives it.
LEMMA AllocatedAt ==
  ASSUME NEW clock, IsClock(clock), NEW calendar, calendar = Placement(clock)
  PROVE  /\ DOMAIN Allocate(clock) = Placed(calendar)
         /\ \A k \in Placed(calendar) : \E p \in calendar :
              /\ p.key = k /\ p.date \in Int
              /\ \E i \in 1..Cardinality(On(calendar, p.date)) :
                   /\ Sorted(On(calendar, p.date))[i] = k
                   /\ BestSlotAssignment(clock, On(calendar, p.date))[i] \in 1..Len(Slots)
                   /\ Allocate(clock)[k] = StartAt(p.date, BestSlotAssignment(clock, On(calendar, p.date))[i])
<1>2. IsCalendar(clock, calendar) /\ DatesHold(calendar)
  BY PlacementIs DEF CalendarInv
<1>3. DOMAIN Allocate(clock) = Placed(calendar)
  BY DEF Allocate, Times
<1>5. ASSUME NEW k \in Placed(calendar)
      PROVE  \E p \in calendar :
               /\ p.key = k /\ p.date \in Int
               /\ \E i \in 1..Cardinality(On(calendar, p.date)) :
                    /\ Sorted(On(calendar, p.date))[i] = k
                    /\ BestSlotAssignment(clock, On(calendar, p.date))[i] \in 1..Len(Slots)
                    /\ Allocate(clock)[k] = StartAt(p.date, BestSlotAssignment(clock, On(calendar, p.date))[i])
  <2> DEFINE p0 == CHOOSE p \in calendar : p.key = k
  <2>1. p0 \in calendar /\ p0.key = k
    BY DEF Placed
  <2>2. PICK date : date = p0.date
    OBVIOUS
  <2>3. date \in Int
    BY <2>1, <2>2, <1>2 DEF IsCalendar
  <2>4. PICK held, ordered, best : /\ held = On(calendar, date)
                                   /\ ordered = Sorted(held)
                                   /\ best = BestSlotAssignment(clock, held)
    OBVIOUS
  <2> DEFINE i == CHOOSE j \in DOMAIN ordered : ordered[j] = k
  <2>5. Allocate(clock)[k] = StartAt(date, best[i])
    BY <2>2, <2>4 DEF Allocate, Times
  <2>6. k \in held
    BY <2>1, <2>2, <2>4 DEF On
  <2>7. /\ held \in SUBSET Nat /\ IsFiniteSet(held) /\ held \in SUBSET DOMAIN clock
        /\ Cardinality(held) \in Nat
    BY <1>2, <2>4, OnIsFinite
  <2>8. Cardinality(held) <= Len(Slots)
    BY <1>2, <2>3, <2>4 DEF DatesHold
  <2>9. \A l \in held : clock[l] \in Int
    BY <2>7 DEF IsClock
  <2>10. i \in 1..Cardinality(held) /\ ordered[i] = k
    <3>1. DOMAIN ordered = 1..Cardinality(held) /\ \E j \in 1..Cardinality(held) : ordered[j] = k
      BY <2>4, <2>6, <2>7, SortedLists
    <3> QED BY <3>1
  <2>11. PICK p, n : p = p0 /\ n = i
    OBVIOUS
  <2> HIDE DEF p0, i
  <2>12. best \in Ways(Cardinality(held))
    BY <2>4, <2>7, <2>8, <2>9, BestIsCheapest
  <2>13. best[n] \in 1..Len(Slots)
    BY <2>7, <2>10, <2>11, <2>12, WaysAre
  <2> QED BY <2>1, <2>2, <2>3, <2>4, <2>5, <2>10, <2>11, <2>13
<1> QED BY <1>3, <1>5

\* What the allocation plans are times of sessions of the clock.
LEMMA AllocateIs ==
  ASSUME NEW clock, IsClock(clock)
  PROVE  /\ DOMAIN Allocate(clock) \in SUBSET DOMAIN clock
         /\ \A k \in DOMAIN Allocate(clock) : Allocate(clock)[k] \in Int
<1>1. PICK calendar : calendar = Placement(clock)
  OBVIOUS
<1>2. IsCalendar(clock, calendar)
  BY <1>1, PlacementIs DEF CalendarInv
<1>3. DOMAIN Allocate(clock) = Placed(calendar)
  BY <1>1, AllocatedAt
<1>4. Placed(calendar) \in SUBSET DOMAIN clock
  BY <1>2 DEF Placed, IsCalendar
<1>5. ASSUME NEW k \in Placed(calendar) PROVE Allocate(clock)[k] \in Int
  <2>1. PICK d \in Int, w \in 1..Len(Slots) : Allocate(clock)[k] = StartAt(d, w)
    BY <1>1, AllocatedAt
  <2>2. Slots[w] \in Int
    BY SlotsAssumption
  <2> QED BY <2>1, <2>2 DEF StartAt
<1> QED BY <1>3, <1>4, <1>5

\* The slots of a day lie on that day, each at another hour.
LEMMA SlotsOfADay ==
  ASSUME NEW d \in Int, NEW e \in Int, NEW v \in 1..Len(Slots), NEW w \in 1..Len(Slots)
  PROVE  /\ SourceDate(StartAt(d, v)) = d
         /\ StartAt(d, v) = StartAt(e, w) => d = e /\ v = w
<1>1. /\ Slots[v] \in 0..23 /\ Slots[w] \in 0..23
      /\ v < w => Slots[v] < Slots[w]
      /\ w < v => Slots[w] < Slots[v]
  BY SlotsAssumption
<1>2. PICK x \in 0..23, y \in 0..23 : x = Slots[v] /\ y = Slots[w]
  BY <1>1
<1>3. (24 * d + x) \div 24 = d
  OBVIOUS
<1>4. 24 * d + x = 24 * e + y => d = e /\ x = y
  OBVIOUS
<1>5. Slots[v] = Slots[w] => v = w
  <2>1. v \in Int /\ w \in Int
    BY WaysAre
  <2> QED BY <2>1, <1>1
<1> QED BY <1>2, <1>3, <1>4, <1>5 DEF SourceDate, StartAt

\* The classes of a date that holds each once tell its sessions apart.
LEMMA ClassesTellApart ==
  ASSUME NEW held, IsFiniteSet(held), OneEachClass(held),
         NEW k \in held, NEW l \in held, ClassOf[k] = ClassOf[l]
  PROVE  k = l
<1> DEFINE C == Classes(held)
           f == [x \in held |-> ClassOf[x]]
<1>1. f \in Surjection(held, C) /\ f[k] = f[l]
  BY DEF Surjection, Classes
<1>2. Cardinality(C) = Cardinality(held)
  BY DEF OneEachClass
<1> HIDE DEF f, C
<1>3. f \in Injection(held, C)
  BY <1>1, <1>2, FS_Surjection
<1> QED BY <1>1, <1>3 DEF Injection, IsInjective

\* No two sessions of a plan share a start and no class has two of them on a
\* date: when validateArchiveSessionAllocation refuses a plan, it is for the
\* order of a run or for a session without a date.
THEOREM PlansKeepSlots ==
  ASSUME NEW clock, IsClock(clock)
  PROVE  SlotsKept(Allocate(clock))
<1>1. PICK calendar : calendar = Placement(clock)
  OBVIOUS
<1>2. IsCalendar(clock, calendar) /\ DatesHold(calendar)
  BY <1>1, PlacementIs DEF CalendarInv
<1>3. PICK starts : starts = Allocate(clock)
  OBVIOUS
<1>4. DOMAIN starts = Placed(calendar)
  BY <1>1, <1>3, AllocatedAt
<1> SUFFICES ASSUME NEW k \in Placed(calendar), NEW l \in Placed(calendar), k # l
             PROVE  /\ starts[k] # starts[l]
                    /\ ClassOf[k] = ClassOf[l] => SourceDate(starts[k]) # SourceDate(starts[l])
  BY <1>3, <1>4 DEF SlotsKept
<1>5. PICK p \in calendar : /\ p.key = k /\ p.date \in Int
                            /\ \E i \in 1..Cardinality(On(calendar, p.date)) :
                                 /\ Sorted(On(calendar, p.date))[i] = k
                                 /\ BestSlotAssignment(clock, On(calendar, p.date))[i] \in 1..Len(Slots)
                                 /\ starts[k] = StartAt(p.date, BestSlotAssignment(clock, On(calendar, p.date))[i])
  BY <1>1, <1>3, AllocatedAt
<1>6. PICK q \in calendar : /\ q.key = l /\ q.date \in Int
                            /\ \E i \in 1..Cardinality(On(calendar, q.date)) :
                                 /\ Sorted(On(calendar, q.date))[i] = l
                                 /\ BestSlotAssignment(clock, On(calendar, q.date))[i] \in 1..Len(Slots)
                                 /\ starts[l] = StartAt(q.date, BestSlotAssignment(clock, On(calendar, q.date))[i])
  BY <1>1, <1>3, AllocatedAt
<1>7. PICK held : held = On(calendar, p.date)
  OBVIOUS
<1>8. PICK i \in 1..Cardinality(held) :
        /\ Sorted(held)[i] = k
        /\ BestSlotAssignment(clock, held)[i] \in 1..Len(Slots)
        /\ starts[k] = StartAt(p.date, BestSlotAssignment(clock, held)[i])
  BY <1>5, <1>7
<1>9. PICK v, w \in 1..Len(Slots) : v = BestSlotAssignment(clock, held)[i] /\ starts[l] = StartAt(q.date, w)
  BY <1>6, <1>8
<1>10. starts[k] = StartAt(p.date, v)
  BY <1>8, <1>9
<1>11. /\ SourceDate(starts[k]) = p.date /\ SourceDate(starts[l]) = q.date
       /\ starts[k] = starts[l] => p.date = q.date /\ v = w
  BY <1>5, <1>6, <1>9, <1>10, SlotsOfADay
<1>12. CASE p.date # q.date
  BY <1>11, <1>12
<1>13. CASE p.date = q.date
  <2>1. k \in held /\ l \in held
    BY <1>5, <1>6, <1>7, <1>13 DEF On
  <2>2. held \in SUBSET Nat /\ IsFiniteSet(held) /\ held \in SUBSET DOMAIN clock /\ Cardinality(held) \in Nat
    BY <1>2, <1>7, OnIsFinite
  <2>3. Cardinality(held) <= Len(Slots) /\ OneEachClass(held)
    BY <1>2, <1>5, <1>7 DEF DatesHold
  <2>4. ClassOf[k] # ClassOf[l]
    BY <2>1, <2>2, <2>3, ClassesTellApart
  <2>5. PICK best : best = BestSlotAssignment(clock, held)
    OBVIOUS
  <2>6. PICK j \in 1..Cardinality(held) : Sorted(held)[j] = l /\ starts[l] = StartAt(q.date, best[j]) /\ best[j] \in 1..Len(Slots)
    BY <1>6, <1>7, <1>13, <2>5
  <2>7. i # j
    BY <1>8, <2>6
  <2>8. best \in Ways(Cardinality(held))
    <3>1. \A x \in held : clock[x] \in Int
      BY <2>2 DEF IsClock
    <3> QED BY <2>2, <2>3, <2>5, <3>1, BestIsCheapest
  <2>9. v # best[j]
    BY <2>2, <2>5, <2>6, <2>7, <2>8, <1>8, <1>9, WaysAre
  <2>10. starts[k] # starts[l]
    BY <1>5, <1>6, <1>9, <1>10, <2>6, <2>9, SlotsOfADay
  <2> QED BY <2>4, <2>10
<1> QED BY <1>12, <1>13

-----------------------------------------------------------------------------
(* The archive.                                                            *)

\* The rows are times of known sessions.
RowsTyped ==
  /\ DOMAIN unit \in SUBSET Key
  /\ \A k \in DOMAIN unit : unit[k].held \in Int
  /\ \A k \in DOMAIN overlay : overlay[k].original \in Int /\ overlay[k].corrected \in Int

\* The overlay is what the last import that planned found and planned.
OverlayIsPlanned ==
  boot.book # NoRows =>
    /\ DOMAIN boot.plan = DOMAIN boot.book
    /\ overlay = [k \in {l \in DOMAIN boot.plan : boot.plan[l] # boot.book[l]} |->
                    [original |-> boot.book[k], corrected |-> boot.plan[k]]]

ArchiveInv == RowsTyped /\ OverlayIsPlanned /\ ImportAligns /\ Reproducible

\* Units that move keep their sessions; those moved take the time given.
LEMMA MovedToIs ==
  ASSUME NEW units, NEW times
  PROVE  /\ DOMAIN MovedTo(units, times) = DOMAIN units
         /\ \A k \in DOMAIN units :
              MovedTo(units, times)[k].held = IF k \in DOMAIN times THEN times[k] ELSE units[k].held
<1>1. MovedTo(units, times) = [k \in DOMAIN units |->
        IF k \in DOMAIN times
        THEN [held |-> times[k], status |-> UnitStatus(times[k], instant)] ELSE units[k]]
  BY DEF MovedTo
<1>2. ASSUME NEW k \in DOMAIN units
      PROVE  MovedTo(units, times)[k].held = IF k \in DOMAIN times THEN times[k] ELSE units[k].held
  <2>1. CASE k \in DOMAIN times
    <3>1. MovedTo(units, times)[k] = [held |-> times[k], status |-> UnitStatus(times[k], instant)]
      BY <1>1, <2>1
    <3> QED BY <2>1, <3>1
  <2>2. CASE k \notin DOMAIN times
    BY <1>1, <2>2
  <2> QED BY <2>1, <2>2
<1> QED BY <1>1, <1>2

\* The rows a plan leaves in the overlay are typed as the plan is.
LEMMA SavedTyped ==
  ASSUME NEW clock, NEW plan, DOMAIN plan \in SUBSET DOMAIN clock,
         \A k \in DOMAIN clock : clock[k] \in Int, \A k \in DOMAIN plan : plan[k] \in Int,
         \A k \in DOMAIN overlay : overlay[k].original \in Int /\ overlay[k].corrected \in Int
  PROVE  \A k \in DOMAIN Saved(clock, plan) :
           Saved(clock, plan)[k].original \in Int /\ Saved(clock, plan)[k].corrected \in Int
<1> SUFFICES ASSUME NEW k \in DOMAIN Saved(clock, plan)
             PROVE  Saved(clock, plan)[k].original \in Int /\ Saved(clock, plan)[k].corrected \in Int
  OBVIOUS
<1>0. PICK s : s = Saved(clock, plan)
  OBVIOUS
<1>3. /\ DOMAIN s = DOMAIN overlay \cup {l \in DOMAIN plan : plan[l] # clock[l]}
      /\ \A l \in DOMAIN s : s[l] = IF l \in DOMAIN plan /\ plan[l] # clock[l]
                                  THEN [original |-> clock[l], corrected |-> plan[l]] ELSE overlay[l]
  BY <1>0 DEF Saved
<1>4. k \in DOMAIN s
  BY <1>0
<1>1. CASE k \in DOMAIN plan /\ plan[k] # clock[k]
  <2>1. Saved(clock, plan)[k] = [original |-> clock[k], corrected |-> plan[k]]
    BY <1>0, <1>1, <1>3, <1>4
  <2>2. k \in DOMAIN clock /\ clock[k] \in Int /\ plan[k] \in Int
    BY <1>1
  <2> QED BY <2>1, <2>2
<1>2. CASE ~ (k \in DOMAIN plan /\ plan[k] # clock[k])
  <2>1. k \in DOMAIN overlay
    BY <1>0, <1>2, <1>3, <1>4
  <2>2. Saved(clock, plan)[k] = overlay[k]
    BY <1>0, <1>2, <1>3, <1>4
  <2> QED BY <2>1, <2>2
<1> QED BY <1>1, <1>2

\* The clock a repair plans from.
LEMMA PlanningClockIs ==
  ASSUME RowsTyped
  PROVE  IsClock(PlanningClock(unit)) /\ DOMAIN PlanningClock(unit) = DOMAIN unit
<1>1. DOMAIN PlanningClock(unit) = DOMAIN unit
  BY DEF PlanningClock
<1>2. \A k \in DOMAIN unit : PlanningClock(unit)[k] = IF k \in DOMAIN overlay THEN overlay[k].original ELSE unit[k].held
  BY DEF PlanningClock
<1>3. \A k \in DOMAIN unit : PlanningClock(unit)[k] \in Int
  BY <1>2 DEF RowsTyped
<1> QED BY <1>1, <1>3 DEF IsClock, RowsTyped

\* Books are clocks.
LEMMA BooksAreClocks ==
  ASSUME NEW b \in Books
  PROVE  IsClock(b)
BY BooksAssumption DEF IsClock

-----------------------------------------------------------------------------
\* The rows of units.
AreUnits(units) ==
  \A k \in DOMAIN units : units[k] = [held |-> units[k].held, status |-> units[k].status]

\* A meeting opened at the time of its unit, or handed to the live schedule.
LEMMA OpenedIs ==
  ASSUME NEW units, NEW k \in DOMAIN units,
         NEW live, live = Adopted(FinalizeImportedMeetings(units))
  PROVE  /\ live[k].adopted \in BOOLEAN
         /\ live[k].starts = IF live[k].adopted THEN units[k].held - Shift ELSE units[k].held
         /\ live[k].status = IF units[k].status = "held" THEN "completed" ELSE "planned"
         /\ live[k].adopted => live[k].status = "planned" /\ k \notin Attended
<1>1. PICK opened : opened = FinalizeImportedMeetings(units)
  OBVIOUS
<1>2. PICK t, st : t = units[k].held /\ st = IF units[k].status = "held" THEN "completed" ELSE "planned"
  OBVIOUS
<1>3. opened[k] = [starts |-> t, status |-> st, adopted |-> FALSE] /\ DOMAIN opened = DOMAIN units
  BY <1>1, <1>2 DEF FinalizeImportedMeetings
<1>4. CASE k \in Adoptable(opened)
  <2>1. st = "planned" /\ k \notin Attended
    BY <1>3, <1>4 DEF Adoptable
  <2>2. live[k] = [opened[k] EXCEPT !.starts = @ - Shift, !.adopted = TRUE]
    BY <1>1, <1>3, <1>4 DEF Adopted
  <2>3. live[k].starts = t - Shift /\ live[k].adopted = TRUE /\ live[k].status = st
    BY <1>3, <2>2
  <2> QED BY <1>2, <2>1, <2>3
<1>5. CASE k \notin Adoptable(opened)
  <2>1. live[k] = opened[k]
    BY <1>1, <1>3, <1>5 DEF Adopted
  <2>2. live[k].starts = t /\ live[k].adopted = FALSE /\ live[k].status = st
    BY <1>3, <2>1
  <2> QED BY <1>2, <2>2
<1> QED BY <1>4, <1>5

\* The units go with their meetings.
LEMMA UnitsFollow ==
  ASSUME NEW units, AreUnits(units), \A k \in DOMAIN units : units[k].held \in Int,
         NEW live, live = Adopted(FinalizeImportedMeetings(units)),
         NEW rows, rows = FollowMeetings(units, live)
  PROVE  /\ DOMAIN live = DOMAIN units /\ DOMAIN rows = DOMAIN units
         /\ \A k \in DOMAIN units :
              /\ live[k].starts = rows[k].held
              /\ live[k].status = "completed" <=> rows[k].status = "held"
              /\ live[k].adopted => live[k].status = "planned" /\ k \notin Attended
              /\ rows[k].held = units[k].held - (IF live[k].adopted THEN Shift ELSE 0)
              /\ rows[k].held \in Int
<1>1. DOMAIN live = DOMAIN units /\ DOMAIN rows = DOMAIN units
  BY DEF Adopted, FinalizeImportedMeetings, FollowMeetings
<1>2. ASSUME NEW k \in DOMAIN units
      PROVE  /\ live[k].starts = rows[k].held
             /\ live[k].status = "completed" <=> rows[k].status = "held"
             /\ live[k].adopted => live[k].status = "planned" /\ k \notin Attended
             /\ rows[k].held = units[k].held - (IF live[k].adopted THEN Shift ELSE 0)
             /\ rows[k].held \in Int
  <2>1. /\ live[k].adopted \in BOOLEAN
        /\ live[k].starts = IF live[k].adopted THEN units[k].held - Shift ELSE units[k].held
        /\ live[k].status = IF units[k].status = "held" THEN "completed" ELSE "planned"
        /\ live[k].adopted => live[k].status = "planned" /\ k \notin Attended
    BY OpenedIs
  <2>2. PICK h, st, t : h = units[k].held /\ st = units[k].status /\ t = live[k].starts
    OBVIOUS
  <2>3. units[k] = [held |-> h, status |-> st] /\ h \in Int
    BY <2>2 DEF AreUnits
  <2>4. CASE live[k].adopted
    <3>1. rows[k] = [units[k] EXCEPT !.held = t]
      BY <2>2, <2>4 DEF FollowMeetings
    <3>2. rows[k].held = t /\ rows[k].status = st
      BY <2>3, <3>1
    <3>3. t = h - Shift
      BY <2>1, <2>2, <2>4
    <3>4. live[k].status = "completed" <=> rows[k].status = "held"
      BY <2>1, <2>2, <3>2
    <3>5. rows[k].held = units[k].held - (IF live[k].adopted THEN Shift ELSE 0) /\ rows[k].held \in Int
      BY <2>2, <2>3, <2>4, <3>2, <3>3 DEF Shift
    <3> QED BY <2>1, <2>2, <3>2, <3>4, <3>5
  <2>5. CASE ~ live[k].adopted
    <3>1. rows[k] = units[k]
      BY <2>5 DEF FollowMeetings
    <3>2. rows[k].held = h /\ rows[k].status = st /\ live[k].starts = h
      BY <2>1, <2>2, <2>3, <2>5, <3>1
    <3>3. live[k].status = "completed" <=> rows[k].status = "held"
      BY <2>1, <2>2, <3>2
    <3>4. rows[k].held = units[k].held - (IF live[k].adopted THEN Shift ELSE 0) /\ rows[k].held \in Int
      BY <2>2, <2>3, <2>5, <3>2
    <3> QED BY <2>1, <3>2, <3>3, <3>4
  <2> QED BY <2>1, <2>4, <2>5
<1> QED BY <1>1, <1>2

\* Two rows that would end at one start are a knot of their own.
LEMMA NoKnotNoShare ==
  ASSUME NEW old, NEW new, DOMAIN new \in SUBSET Key, Knots(old, new, AllRows) = {},
         NEW k \in DOMAIN new, NEW l \in DOMAIN new, k # l
  PROVE  new[k] # new[l]
<1> SUFFICES ASSUME new[k] = new[l] PROVE FALSE
  OBVIOUS
<1>1. <<k, l>> \in AllRows
  BY DEF AllRows
<1>2. k \in Collisions(old, new, AllRows)
  BY <1>1 DEF Collisions
<1>3. PICK C : C = Collisions(old, new, AllRows)
  OBVIOUS
<1>4. {k} \in (SUBSET C) \ {{}}
  BY <1>2, <1>3
<1>5. \A x \in {k} : \E y \in DOMAIN new : <<x, y>> \in AllRows /\ (new[x] = new[y] \/ (y \in {k} /\ new[x] = old[y]))
  BY <1>1
<1>6. {k} \in Knots(old, new, AllRows)
  BY <1>3, <1>4, <1>5 DEF Knots
<1> QED BY <1>6

\* The units an import moves to the times it plans or finds in the overlay.
LEMMA CorrectedIs ==
  ASSUME RowsTyped, NEW b \in Books, NEW readAt,
         NEW times, times = IF Plans THEN Allocate(b) ELSE Corrections,
         NEW units, units = Corrected(b, readAt)
  PROVE  /\ DOMAIN units = DOMAIN b /\ AreUnits(units)
         /\ \A k \in DOMAIN b : /\ units[k].held = IF k \in DOMAIN times THEN times[k] ELSE b[k]
                                /\ units[k].held \in Int
<1>1. \A k \in DOMAIN times : times[k] \in Int
  <2>1. CASE Plans
    BY <2>1, BooksAreClocks, AllocateIs
  <2>2. CASE ~ Plans
    <3>1. times = [k \in DOMAIN overlay |-> overlay[k].corrected]
      BY <2>2 DEF Corrections
    <3> QED BY <3>1 DEF RowsTyped
  <2> QED BY <2>1, <2>2
<1>2. units = [k \in DOMAIN b |->
        IF k \in DOMAIN times
        THEN [held |-> times[k], status |-> UnitStatus(times[k], instant)]
        ELSE [held |-> b[k], status |-> UnitStatus(b[k], readAt)]]
  <2>1. PICK rows : rows = Transformed(b, readAt)
    OBVIOUS
  <2>2. rows = [k \in DOMAIN b |-> [held |-> b[k], status |-> UnitStatus(b[k], readAt)]]
    BY <2>1 DEF Transformed
  <2>3. units = MovedTo(rows, times)
    BY <2>1 DEF Corrected
  <2> QED BY <2>2, <2>3 DEF MovedTo
<1>3. ASSUME NEW k \in DOMAIN b
      PROVE  /\ units[k] = [held |-> units[k].held, status |-> units[k].status]
             /\ units[k].held = IF k \in DOMAIN times THEN times[k] ELSE b[k]
             /\ units[k].held \in Int
  <2>1. CASE k \in DOMAIN times
    <3>1. units[k] = [held |-> times[k], status |-> UnitStatus(times[k], instant)]
      BY <1>2, <2>1
    <3> QED BY <1>1, <2>1, <3>1
  <2>2. CASE k \notin DOMAIN times
    <3>1. units[k] = [held |-> b[k], status |-> UnitStatus(b[k], readAt)]
      BY <1>2, <2>2
    <3>2. b[k] \in Int
      BY BooksAssumption
    <3> QED BY <2>2, <3>1, <3>2
  <2> QED BY <2>1, <2>2
<1>4. DOMAIN units = DOMAIN b
  BY <1>2
<1> QED BY <1>3, <1>4 DEF AreUnits

-----------------------------------------------------------------------------
\* An import leaves rows that satisfy the invariant.
LEMMA ImportKeeps ==
  ASSUME ArchiveInv, NEW b \in Books, NEW reset, NEW readAt, Import(b, reset, readAt)
  PROVE  ArchiveInv'
<1>1. PICK times : times = IF Plans THEN Allocate(b) ELSE Corrections
  OBVIOUS
<1>2. PICK units : units = Corrected(b, readAt)
  OBVIOUS
<1>3. PICK live : live = Adopted(FinalizeImportedMeetings(units))
  OBVIOUS
<1>4. PICK rows : rows = FollowMeetings(units, live)
  OBVIOUS
<1>5. PICK before, after : before = Starts(FinalizeImportedMeetings(units)) /\ after = Starts(live)
  OBVIOUS
<1>6. schedule' = live /\ unit' = rows /\ Knots(before, after, AllRows) = {}
  BY <1>2, <1>3, <1>4, <1>5 DEF Import
<1>7. book' = b /\ last' = "import" /\ Loadable(b, reset)
  BY DEF Import
<1>8. RowsTyped /\ OverlayIsPlanned
  BY DEF ArchiveInv
<1>9. /\ DOMAIN units = DOMAIN b /\ AreUnits(units)
      /\ \A k \in DOMAIN b : units[k].held = (IF k \in DOMAIN times THEN times[k] ELSE b[k]) /\ units[k].held \in Int
  BY <1>1, <1>2, <1>8, CorrectedIs
<1>10. /\ DOMAIN live = DOMAIN b /\ DOMAIN rows = DOMAIN b
       /\ \A k \in DOMAIN b :
            /\ live[k].starts = rows[k].held
            /\ live[k].status = "completed" <=> rows[k].status = "held"
            /\ live[k].adopted => live[k].status = "planned" /\ k \notin Attended
            /\ rows[k].held = units[k].held - (IF live[k].adopted THEN Shift ELSE 0)
            /\ rows[k].held \in Int
  BY <1>3, <1>4, <1>9, UnitsFollow
<1>11. DOMAIN b \in SUBSET Key /\ IsClock(b) /\ \A k \in DOMAIN b : b[k] \in Int
  BY BooksAreClocks DEF IsClock
<1>12. ASSUME NEW k \in DOMAIN b, NEW l \in DOMAIN b, k # l PROVE live[k].starts # live[l].starts
  <2>1. DOMAIN after = DOMAIN b /\ \A x \in DOMAIN b : after[x] = live[x].starts
    BY <1>5, <1>10 DEF Starts
  <2>2. after[k] # after[l]
    BY <2>1, <1>6, <1>11, <1>12, NoKnotNoShare
  <2> QED BY <2>1, <2>2
<1>13. ImportAligns'
  <2>1. /\ DOMAIN schedule' = DOMAIN unit'
        /\ \A k \in DOMAIN unit' :
             /\ schedule'[k].starts = unit'[k].held
             /\ schedule'[k].status = "completed" <=> unit'[k].status = "held"
             /\ schedule'[k].adopted => schedule'[k].status = "planned" /\ k \notin Attended
        /\ \A k, l \in DOMAIN schedule' : k # l => schedule'[k].starts # schedule'[l].starts
    BY <1>6, <1>10, <1>12
  <2> QED BY <2>1 DEF ImportAligns
<1>14. CASE Plans
  <2>1. PICK plan : plan = Allocate(b)
    OBVIOUS
  <2>2. overlay' = Saved(b, plan) /\ boot' = [book |-> b, plan |-> plan]
    BY <1>14, <2>1 DEF Import
  <2>3. DOMAIN plan = DOMAIN b /\ \A k \in DOMAIN plan : plan[k] \in Int
    <3>1. DOMAIN plan = DOMAIN b
      BY <1>7, <1>14, <2>1 DEF Loadable, ValidAllocation
    <3> QED BY <3>1, <2>1, <1>11, AllocateIs
  <2>4. times = plan
    BY <1>1, <1>14, <2>1
  <2>5. PICK s : s = Saved(b, plan)
    OBVIOUS
  <2>6. s = [k \in {l \in DOMAIN plan : plan[l] # b[l]} |-> [original |-> b[k], corrected |-> plan[k]]]
    <3>1. DOMAIN overlay = {}
      BY <1>14 DEF Plans, NoRows
    <3> QED BY <2>5, <3>1 DEF Saved
  <2>7. \A k \in DOMAIN s : s[k].original \in Int /\ s[k].corrected \in Int
    <3>1. \A k \in DOMAIN s : s[k] = [original |-> b[k], corrected |-> plan[k]] /\ b[k] \in Int /\ plan[k] \in Int
      BY <2>3, <2>6, <1>11
    <3> QED BY <3>1
  <2>8. RowsTyped'
    BY <1>6, <1>10, <1>11, <2>2, <2>5, <2>7 DEF RowsTyped
  <2>9. boot'.book = b /\ boot'.plan = plan
    BY <2>2
  <2>10. OverlayIsPlanned'
    BY <2>2, <2>3, <2>5, <2>6, <2>9 DEF OverlayIsPlanned
  <2>11. Reproducible'
    <3>1. \A k \in DOMAIN b : rows[k].held = plan[k] - (IF live[k].adopted THEN Shift ELSE 0)
      BY <1>9, <1>10, <2>3, <2>4
    <3> QED BY <1>6, <1>10, <2>9, <3>1 DEF Reproducible
  <2> QED BY <1>13, <2>8, <2>10, <2>11 DEF ArchiveInv
<1>15. CASE ~ Plans
  <2>1. overlay' = overlay /\ boot' = boot
    BY <1>15 DEF Import
  <2>2. times = [k \in DOMAIN overlay |-> overlay[k].corrected]
    BY <1>1, <1>15 DEF Corrections
  <2>3. RowsTyped'
    BY <1>6, <1>8, <1>10, <1>11, <2>1 DEF RowsTyped
  <2>4. OverlayIsPlanned'
    BY <1>8, <2>1 DEF OverlayIsPlanned
  <2>5. ASSUME boot.book = b, NEW k \in DOMAIN b PROVE units[k].held = boot.plan[k]
    <3>1. b # NoRows
      BY DEF NoRows
    <3>2. PICK plan : plan = boot.plan
      OBVIOUS
    <3>3. /\ DOMAIN plan = DOMAIN b
          /\ overlay = [l \in {x \in DOMAIN plan : plan[x] # b[x]} |-> [original |-> b[l], corrected |-> plan[l]]]
      BY <1>8, <2>5, <3>1, <3>2 DEF OverlayIsPlanned
    <3>4. CASE plan[k] # b[k]
      <4>1. k \in DOMAIN overlay /\ overlay[k] = [original |-> b[k], corrected |-> plan[k]]
        BY <3>3, <3>4
      <4>2. k \in DOMAIN times /\ times[k] = plan[k]
        BY <4>1, <2>2
      <4> QED BY <4>2, <1>9, <3>2
    <3>5. CASE plan[k] = b[k]
      <4>1. k \notin DOMAIN times
        BY <3>3, <3>5, <2>2
      <4> QED BY <4>1, <1>9, <3>2, <3>5
    <3> QED BY <3>4, <3>5
  <2>6. Reproducible'
    <3>1. boot.book = b => \A k \in DOMAIN b : rows[k].held = boot.plan[k] - (IF live[k].adopted THEN Shift ELSE 0)
      BY <1>10, <2>5
    <3> QED BY <1>6, <1>7, <1>10, <2>1, <3>1 DEF Reproducible
  <2> QED BY <1>13, <2>3, <2>4, <2>6 DEF ArchiveInv
<1> QED BY <1>14, <1>15

\* So does a repair: it forgets the last import's plan.
LEMMA ApplyKeeps ==
  ASSUME ArchiveInv, Apply
  PROVE  ArchiveInv'
<1>1. RowsTyped
  BY DEF ArchiveInv
<1>2. PICK clock : clock = PlanningClock(unit)
  OBVIOUS
<1>3. PICK plan : plan = Allocate(clock)
  OBVIOUS
<1>4. overlay' = Saved(clock, plan) /\ unit' = MovedTo(unit, plan) /\ boot' = [book |-> NoRows, plan |-> NoRows] /\ last' = "apply"
  BY <1>2, <1>3 DEF Apply
<1>5. IsClock(clock) /\ DOMAIN clock = DOMAIN unit
  BY <1>1, <1>2, PlanningClockIs
<1>6. DOMAIN plan \in SUBSET DOMAIN clock /\ \A k \in DOMAIN plan : plan[k] \in Int
  BY <1>3, <1>5, AllocateIs
<1>7. PICK s, units : s = Saved(clock, plan) /\ units = MovedTo(unit, plan)
  OBVIOUS
<1>8. \A k \in DOMAIN s : s[k].original \in Int /\ s[k].corrected \in Int
  BY <1>1, <1>5, <1>6, <1>7, SavedTyped DEF IsClock, RowsTyped
<1>9. DOMAIN units = DOMAIN unit /\ \A k \in DOMAIN unit : units[k].held \in Int
  <2>1. PICK u : u = unit
    OBVIOUS
  <2>2. DOMAIN units = DOMAIN u /\ \A k \in DOMAIN u : units[k].held = IF k \in DOMAIN plan THEN plan[k] ELSE u[k].held
    BY <1>7, <2>1, MovedToIs
  <2> QED BY <2>1, <2>2, <1>1, <1>6 DEF RowsTyped
<1>10. RowsTyped'
  BY <1>1, <1>4, <1>7, <1>8, <1>9 DEF RowsTyped
<1>11. boot'.book = NoRows
  BY <1>4
<1> QED BY <1>4, <1>10, <1>11 DEF ArchiveInv, OverlayIsPlanned, ImportAligns, Reproducible

\* The archive: an import leaves meetings and units aligned, and what it
\* planned can be had again from the overlay.
THEOREM ArchiveInvariant == ArchiveSpec => []ArchiveInv
<1>1. ArchiveInit => ArchiveInv
  <2> SUFFICES ASSUME ArchiveInit PROVE ArchiveInv
    OBVIOUS
  <2>1. DOMAIN NoRows = {} /\ boot.book = NoRows /\ last = "none"
    BY DEF ArchiveInit, NoRows
  <2>2. unit = NoRows /\ overlay = NoRows
    BY DEF ArchiveInit
  <2>3. RowsTyped
    BY <2>1, <2>2 DEF RowsTyped
  <2> QED BY <2>1, <2>3 DEF ArchiveInv, OverlayIsPlanned, ImportAligns, Reproducible
<1>2. ArchiveInv /\ [ArchiveNext]_archiveVars => ArchiveInv'
  <2> SUFFICES ASSUME ArchiveInv, [ArchiveNext]_archiveVars PROVE ArchiveInv'
    OBVIOUS
  <2>1. ASSUME NEW b \in Books, NEW reset \in BOOLEAN, NEW readAt \in {t \in Clocks : t <= instant},
               Import(b, reset, readAt)
        PROVE  ArchiveInv'
    BY <2>1, ImportKeeps
  <2>2. ASSUME UNCHANGED archiveVars PROVE ArchiveInv'
    BY <2>2 DEF archiveVars, ArchiveInv, RowsTyped, OverlayIsPlanned, ImportAligns, Reproducible
  <2>3. ASSUME NEW b \in Books, NEW reset \in BOOLEAN, NEW readAt \in {t \in Clocks : t <= instant},
               ImportFails(b, reset, readAt)
        PROVE  ArchiveInv'
    BY <2>2, <2>3 DEF ImportFails
  <2>4. CASE Apply
    BY <2>4, ApplyKeeps
  <2>5. CASE ClockMoves
    BY <2>5 DEF ClockMoves, ArchiveInv, RowsTyped, OverlayIsPlanned, ImportAligns, Reproducible
  <2> QED BY <2>1, <2>2, <2>3, <2>4, <2>5 DEF ArchiveNext
<1> QED BY <1>1, <1>2, PTL DEF ArchiveSpec

\* After every import meetings and units agree, no two meetings share a start,
\* and only planned ones without attendance went live.
THEOREM ImportsAlign == ArchiveSpec => []ImportAligns
<1>1. ArchiveInv => ImportAligns
  BY DEF ArchiveInv
<1> QED BY <1>1, ArchiveInvariant, PTL

\* A book imported again gets the times its first import planned.
THEOREM ImportsReproduce == ArchiveSpec => []Reproducible
<1>1. ArchiveInv => Reproducible
  BY DEF ArchiveInv
<1> QED BY <1>1, ArchiveInvariant, PTL

\* The clocks the next plan may start from.
LEMMA PlansFromClocks ==
  ASSUME RowsTyped
  PROVE  \A clock \in PlansFrom : IsClock(clock)
BY BooksAreClocks, PlanningClockIs DEF PlansFrom

\* Whatever was imported and repaired, the slots of every date are the first
\* of the cheapest ways to give its sessions one each: the pruned search of
\* bestSlotAssignment loses nothing.
THEOREM PlansAreCheapest == ArchiveSpec => []SlotPlanIsCheapest
<1>1. ArchiveInv => SlotPlanIsCheapest
  <2> SUFFICES ASSUME RowsTyped, NEW clock \in PlansFrom, NEW calendar, calendar = Placement(clock),
                      NEW d \in DatesOf(calendar)
               PROVE  LET held == On(calendar, d)
                          ways == Ways(Cardinality(held))
                          best == BestSlotAssignment(clock, held)
                      IN  /\ best \in ways
                          /\ \A w \in ways \ {best} : Cheaper(clock, Sorted(held), best, w)
    BY DEF ArchiveInv, SlotPlanIsCheapest
  <2>1. IsClock(clock)
    BY PlansFromClocks
  <2>2. IsCalendar(clock, calendar) /\ DatesHold(calendar)
    BY <2>1, PlacementIs DEF CalendarInv
  <2>3. PICK held : held = On(calendar, d)
    OBVIOUS
  <2>4. d \in Int
    BY <2>2 DEF DatesOf, IsCalendar
  <2>5. held \in SUBSET Nat /\ IsFiniteSet(held) /\ held \in SUBSET DOMAIN clock
    BY <2>1, <2>2, <2>3, OnIsFinite
  <2>6. Cardinality(held) <= Len(Slots)
    BY <2>2, <2>3, <2>4 DEF DatesHold
  <2>7. \A k \in held : clock[k] \in Int
    BY <2>1, <2>5 DEF IsClock
  <2> QED BY <2>3, <2>5, <2>6, <2>7, BestIsCheapest
<1> QED BY <1>1, ArchiveInvariant, PTL

\* And no session was moved past a date with room for it: what was nearest when
\* its turn came (nearestAvailableDate) is still nearest in the final calendar.
THEOREM PlacesAreNearest == ArchiveSpec => []PlacedNearest
<1>1. ArchiveInv => PlacedNearest
  <2> SUFFICES ASSUME RowsTyped, NEW clock \in PlansFrom, NEW calendar, calendar = Placement(clock),
                      NEW d \in DatesOf(calendar)
               PROVE  /\ Cardinality(On(calendar, d)) <= Len(Slots) /\ OneEachClass(On(calendar, d))
                      /\ \A k \in On(calendar, d) :
                           LET origin == SourceDate(clock[k])
                           IN  d # origin =>
                                 /\ IsWeekday(d)
                                 /\ ~ RoomFor(k, On(calendar, origin))
                                 /\ \A e \in (origin - Horizon)..(origin + Horizon) :
                                      (IsWeekday(e) /\ RoomFor(k, On(calendar, e)))
                                        => Rank(origin, d) < Rank(origin, e)
    BY DEF ArchiveInv, PlacedNearest
  <2>1. IsClock(clock)
    BY PlansFromClocks
  <2>2. IsCalendar(clock, calendar) /\ DatesHold(calendar) /\ Nearest(clock, calendar)
    BY <2>1, PlacementIs DEF CalendarInv
  <2>3. d \in Int
    BY <2>2 DEF DatesOf, IsCalendar
  <2>4. Cardinality(On(calendar, d)) <= Len(Slots) /\ OneEachClass(On(calendar, d))
    BY <2>2, <2>3 DEF DatesHold
  <2>5. ASSUME NEW k \in On(calendar, d), NEW origin, origin = SourceDate(clock[k]), d # origin
        PROVE  /\ IsWeekday(d)
               /\ ~ RoomFor(k, On(calendar, origin))
               /\ \A e \in (origin - Horizon)..(origin + Horizon) :
                    (IsWeekday(e) /\ RoomFor(k, On(calendar, e))) => Rank(origin, d) < Rank(origin, e)
    <3>1. PICK p \in calendar : p.key = k /\ p.date = d
      BY <2>5 DEF On
    <3> QED BY <2>2, <2>5, <3>1 DEF Nearest
  <2> QED BY <2>4, <2>5
<1> QED BY <1>1, ArchiveInvariant, PTL

=============================================================================
