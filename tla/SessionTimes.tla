---------------------------- MODULE SessionTimes ----------------------------
(* The pure allocation behind the time repair of imported English sessions  *)
(* (src/server/domains/english-training/session-time-allocation.js).        *)
(*                                                                          *)
(* A session is a number: its place in the order of the natural keys        *)
(* (class|course|run|number), by which the code breaks every tie.  A time   *)
(* is a number of hours, a date its quotient by 24 (date 0 is a Sunday).    *)
(* A "clock" is a function from sessions to the times they start from.      *)
EXTENDS Integers, FiniteSets, Sequences, FiniteSetsExt, Functions

CONSTANTS ClassOf,    \* the class of each session
          RunOf,      \* its course run
          NumberOf,   \* its number in the run
          Slots,      \* the start hours of the approved slots, in order
          Horizon     \* bound on the days a session may be moved (3660)

Key == DOMAIN ClassOf

ASSUME SlotsAssumption ==
  /\ Slots \in Seq(0..23)
  /\ \A i, j \in DOMAIN Slots : i < j => Slots[i] < Slots[j]
ASSUME KeysAssumption ==
  /\ Key \subseteq Nat /\ IsFiniteSet(Key)
  /\ DOMAIN RunOf = Key /\ DOMAIN NumberOf = Key
  /\ \A k, l \in Key : RunOf[k] = RunOf[l] =>
        /\ ClassOf[k] = ClassOf[l]
        /\ NumberOf[k] = NumberOf[l] => k = l
ASSUME HorizonAssumption == Horizon \in Nat

SourceDate(t)    == t \div 24
StartAt(date, i) == 24 * date + Slots[i]
IsWeekday(date)  == date % 7 \in 1..5
Distance(a, b)   == IF a < b THEN b - a ELSE a - b
Classes(keys)    == {ClassOf[k] : k \in keys}
OneEachClass(keys) == Cardinality(Classes(keys)) = Cardinality(keys)

\* The members of a finite set in their order.
InOrder(S, precedes(_, _)) ==
  CHOOSE s \in [1..Cardinality(S) -> S] :
    \A i, j \in DOMAIN s : i < j => precedes(s[i], s[j])

Sorted(keys) == InOrder(keys, <)

\* Order of the signatures: of two sequences, the first difference decides.
Before(a, b) == \E i \in DOMAIN a : /\ a[i] < b[i]
                                    /\ \A j \in 1..(i - 1) : a[j] = b[j]

-----------------------------------------------------------------------------
\* A way gives the first sessions of an order a slot each, no slot twice.
Ways(n)    == {w \in [1..n -> DOMAIN Slots] : IsInjective(w)}
Partial(n) == UNION {Ways(d) : d \in 0..n}

\* What one session costs in slot i: the distance of the hours.
SlotCost(t, i) == Distance(t % 24, Slots[i])

Total(costs) ==
  LET sum[i \in 0..Len(costs)] == IF i = 0 THEN 0 ELSE sum[i - 1] + costs[i]
  IN  sum[Len(costs)]

WayCost(clock, ordered, w) ==
  Total([i \in 1..Len(w) |-> SlotCost(clock[ordered[i]], w[i])])

Cheaper(clock, ordered, v, w) ==
  \/ WayCost(clock, ordered, v) < WayCost(clock, ordered, w)
  \/ WayCost(clock, ordered, v) = WayCost(clock, ordered, w) /\ Before(v, w)

\* Mutant: the first complete assignment is kept.
ImprovesNothing(clock, ordered, way, best) == best = {}

Improves(clock, ordered, way, best) == \A b \in best : Cheaper(clock, ordered, way, b)

\* A node of the search: the slots of the first sessions, the slot to try next
\* and the best complete way so far, or none.
Nodes(n) == [chosen : Partial(n),
             slot   : 1..(Len(Slots) + 1),
             best   : {b \in SUBSET Ways(n) : \A v, w \in b : v = w}]

\* A branch is cut when its slot is taken or it is dearer than the best way.
Cut(clock, ordered, s) ==
  \/ s.slot \in Range(s.chosen)
  \/ \E b \in s.best : WayCost(clock, ordered, Append(s.chosen, s.slot)) > WayCost(clock, ordered, b)

\* The depth-first search of bestSlotAssignment: what a node makes of the best
\* way, by what the nodes after it make of theirs.
Visit(clock, ordered, visit, s) ==
  IF Len(s.chosen) = Len(ordered)
  THEN IF Improves(clock, ordered, s.chosen, s.best) THEN {s.chosen} ELSE s.best
  ELSE IF s.slot > Len(Slots) THEN s.best
  ELSE LET child == [chosen |-> Append(s.chosen, s.slot), slot |-> 1, best |-> s.best]
           found == IF Cut(clock, ordered, s) THEN s.best ELSE visit[child]
       IN  visit[[chosen |-> s.chosen, slot |-> s.slot + 1, best |-> found]]

Search(clock, ordered) ==
  LET visit[s \in Nodes(Len(ordered))] == Visit(clock, ordered, visit, s)
  IN  visit

BestSlotAssignment(clock, keys) ==
  CHOOSE w \in Search(clock, Sorted(keys))[[chosen |-> <<>>, slot |-> 1, best |-> {}]] : TRUE

-----------------------------------------------------------------------------
BestCost(clock, keys) == WayCost(clock, Sorted(keys), BestSlotAssignment(clock, keys))

\* As many sessions as there are slots, or classes, of distinct classes.
Keepable(keys) ==
  LET classes == Cardinality(Classes(keys))
      size    == IF Len(Slots) < classes THEN Len(Slots) ELSE classes
  IN  {c \in kSubset(size, keys) : OneEachClass(c)}

\* The cheapest of these subsets, of equally cheap ones the first by its keys.
ChooseSessionsToKeep(clock, keys) ==
  CHOOSE c \in Keepable(keys) : \A d \in Keepable(keys) \ {c} :
    \/ BestCost(clock, c) < BestCost(clock, d)
    \/ BestCost(clock, c) = BestCost(clock, d) /\ Before(Sorted(c), Sorted(d))

\* A calendar is a set of places: which session on which date.
Place(k, date)     == [key |-> k, date |-> date]
On(calendar, date) == {p.key : p \in {q \in calendar : q.date = date}}
Placed(calendar)   == {p.key : p \in calendar}

RoomFor(k, held) ==
  Cardinality(held) < Len(Slots) /\ ClassOf[k] \notin Classes(held)

\* Nearest first; of two equally near dates, the later one.
Rank(origin, date) ==
  2 * Distance(origin, date) - (IF date > origin THEN 1 ELSE 0)

FreeDates(clock, k, calendar) ==
  LET origin == SourceDate(clock[k])
  IN  {d \in ((origin - Horizon)..(origin + Horizon)) \ {origin} :
         IsWeekday(d) /\ RoomFor(k, On(calendar, d))}

\* Mutant: the earlier of two equally near dates.
NearestEarlierDate(clock, k, calendar) ==
  LET origin == SourceDate(clock[k])
      free   == FreeDates(clock, k, calendar)
  IN  {d \in free : \A e \in free \ {d} :
         \/ Distance(origin, d) < Distance(origin, e)
         \/ Distance(origin, d) = Distance(origin, e) /\ d < e}

\* The date found, if any.
NearestAvailableDate(clock, k, calendar) ==
  LET origin == SourceDate(clock[k])
      free   == FreeDates(clock, k, calendar)
  IN  {d \in free : \A e \in free \ {d} : Rank(origin, d) < Rank(origin, e)}

\* The sessions that keep their dates.
KeptPlaces(clock) ==
  LET from(d) == {k \in DOMAIN clock : SourceDate(clock[k]) = d}
  IN  UNION {{Place(k, d) : k \in ChooseSessionsToKeep(clock, from(d))} :
               d \in {SourceDate(clock[k]) : k \in DOMAIN clock}}

\* The others, by date and key.
Overflow(clock) ==
  LET earlier(k, l) == \/ SourceDate(clock[k]) < SourceDate(clock[l])
                       \/ SourceDate(clock[k]) = SourceDate(clock[l]) /\ k < l
  IN  InOrder(DOMAIN clock \ Placed(KeptPlaces(clock)), earlier)

\* The sessions moved, one by one, each on the nearest date with room when its
\* turn comes.
Fill(clock, kept, moved) ==
  LET filled[i \in 0..Len(moved)] ==
        IF i = 0 THEN kept
        ELSE filled[i - 1] \cup
             {Place(moved[i], d) : d \in NearestAvailableDate(clock, moved[i], filled[i - 1])}
  IN  filled[Len(moved)]

\* The calendar: the sessions kept, then the others.
Placement(clock) == Fill(clock, KeptPlaces(clock), Overflow(clock))

\* The start of every session placed: each date assigns its slots once more.
\* A session without a place ends the allocation (ValidAllocation).
Times(clock, calendar) ==
  [k \in Placed(calendar) |->
     LET date    == (CHOOSE p \in calendar : p.key = k).date
         ordered == Sorted(On(calendar, date))
         i       == CHOOSE j \in DOMAIN ordered : ordered[j] = k
     IN  StartAt(date, BestSlotAssignment(clock, On(calendar, date))[i])]

Allocate(clock) == Times(clock, Placement(clock))

InRunOrder(starts) ==
  \A k, l \in DOMAIN starts :
    (RunOf[k] = RunOf[l] /\ NumberOf[k] < NumberOf[l]) => starts[k] < starts[l]

\* One session at a time, and no class twice on a date.
SlotsKept(starts) ==
  \A k, l \in DOMAIN starts : k # l =>
    /\ starts[k] # starts[l]
    /\ ClassOf[k] = ClassOf[l] => SourceDate(starts[k]) # SourceDate(starts[l])

\* The allocation finds a date for every session and what it plans passes
\* validateArchiveSessionAllocation.
ValidAllocation(clock, starts) ==
  DOMAIN starts = DOMAIN clock /\ SlotsKept(starts) /\ InRunOrder(starts)

=============================================================================
