--------------------------- MODULE EnglishArchive ---------------------------
(* Import of the English workbook and repair of its session times           *)
(* (src/server/domains/english-training/import/pipeline.js and              *)
(* session-time-corrections.js, run by scripts/eng-import.js and            *)
(* scripts/eng-reallocate-session-times.js).                                *)
(*                                                                          *)
(* An import loads every session as a staged meeting and a unit, moves the  *)
(* units to their corrected times, opens the meetings at the times of the   *)
(* units and hands those still to come to the live schedule, where a time   *)
(* is a real instant and no longer a Vietnam clock written as UTC.  The     *)
(* corrections are an overlay that outlives the sessions.  The repair plans *)
(* all times anew.  Each transaction is one step: a load and a repair wait  *)
(* for each other at the rows of the units.                                 *)
EXTENDS SessionTimes

CONSTANTS Books,      \* the workbooks: each gives some sessions their times
          Attended,   \* the sessions with imported attendance
          Clocks      \* the instants at which the clock is looked at

ASSUME BooksAssumption ==
  /\ \A b \in Books : DOMAIN b \subseteq Key /\ b \in [DOMAIN b -> Int]
  /\ Clocks \subseteq Int

VARIABLES unit,       \* eng_session_units: key -> held, status
          schedule,   \* eng_meetings: key -> starts, status, adopted
          overlay,    \* eng_session_time_corrections: key -> original, corrected
          instant,    \* the clock
          last,       \* the last command that committed
          book,       \* the clock of the sessions imported last
          boot        \* the book and the times of the last import that planned

archiveVars == <<unit, schedule, overlay, instant, last, book, boot>>

NoRows == [k \in {} |-> 0]
Shift  == 7                   \* Asia/Ho_Chi_Minh is seven hours ahead of UTC

ArchiveInit ==
  /\ unit = NoRows /\ schedule = NoRows /\ overlay = NoRows
  /\ instant \in Clocks
  /\ last = "none" /\ book = NoRows
  /\ boot = [book |-> NoRows, plan |-> NoRows]

UnitStatus(held, clock) == IF held > clock THEN "scheduled" ELSE "held"

\* Units moved to the given times, their status by the clock.
MovedTo(units, times) ==
  [k \in DOMAIN units |->
     IF k \in DOMAIN times
     THEN [held |-> times[k], status |-> UnitStatus(times[k], instant)] ELSE units[k]]

\* The times a plan starts from: the original of a corrected session, the
\* present one of any other.
PlanningClock(units) ==
  [k \in DOMAIN units |->
     IF k \in DOMAIN overlay THEN overlay[k].original ELSE units[k].held]

\* Mutant: only sessions moved to another date get a row.
SavedMoves(clock, plan) ==
  [k \in DOMAIN overlay \cup {l \in DOMAIN plan : SourceDate(plan[l]) # SourceDate(clock[l])} |->
     IF k \in DOMAIN plan /\ SourceDate(plan[k]) # SourceDate(clock[k])
     THEN [original |-> clock[k], corrected |-> plan[k]] ELSE overlay[k]]

\* The overlay after a plan: a row for each session the plan changes; the row
\* of a session it does not change stays as it is.
Saved(clock, plan) ==
  [k \in DOMAIN overlay \cup {l \in DOMAIN plan : plan[l] # clock[l]} |->
     IF k \in DOMAIN plan /\ plan[k] # clock[k]
     THEN [original |-> clock[k], corrected |-> plan[k]] ELSE overlay[k]]

Corrections == [k \in DOMAIN overlay |-> overlay[k].corrected]

-----------------------------------------------------------------------------
(* One UPDATE moves many rows, and PostgreSQL checks a unique index row by  *)
(* row, in no promised order.  "pairs" says which rows share an index.      *)
Collisions(old, new, pairs) ==
  {k \in DOMAIN new : \E l \in DOMAIN new : <<k, l>> \in pairs /\ new[k] \in {old[l], new[l]}}

\* Rows each of which would have to wait for another one of them to move away.
Knots(old, new, pairs) ==
  {some \in (SUBSET Collisions(old, new, pairs)) \ {{}} :
     \A k \in some : \E l \in DOMAIN new :
       <<k, l>> \in pairs /\ (new[k] = new[l] \/ (l \in some /\ new[k] = old[l]))}

AllRows == {p \in Key \X Key : p[1] # p[2]}
SameRun == {p \in AllRows : RunOf[p[1]] = RunOf[p[2]]}

\* The sessions of a workbook as transform leaves them, read at some instant
\* before the transaction.
Transformed(b, readAt) ==
  [k \in DOMAIN b |-> [held |-> b[k], status |-> UnitStatus(b[k], readAt)]]

\* With no correction on record the import plans the times itself.
Plans == overlay = NoRows

\* The units after ensureSessionTimeCorrections.
Corrected(b, readAt) ==
  MovedTo(Transformed(b, readAt), IF Plans THEN Allocate(b) ELSE Corrections)

\* Every meeting takes the time and the state of its unit.
FinalizeImportedMeetings(units) ==
  [k \in DOMAIN units |->
     [starts  |-> units[k].held,
      status  |-> IF units[k].status = "held" THEN "completed" ELSE "planned",
      adopted |-> FALSE]]

\* adoptImportedFutureMeetings: those it hands to the live schedule.
Adoptable(meetings) ==
  {k \in DOMAIN meetings : /\ meetings[k].status = "planned"
                           /\ meetings[k].starts > instant
                           /\ k \notin Attended}

Adopted(meetings) ==
  [k \in DOMAIN meetings |->
     IF k \in Adoptable(meetings)
     THEN [meetings[k] EXCEPT !.starts = @ - Shift, !.adopted = TRUE]
     ELSE meetings[k]]

\* Mutant: the unit of an adopted meeting stays behind.
StayBehind(units, meetings) == units

\* The unit of an adopted meeting goes with it.
FollowMeetings(units, meetings) ==
  [k \in DOMAIN units |->
     IF meetings[k].adopted THEN [units[k] EXCEPT !.held = meetings[k].starts]
     ELSE units[k]]

Starts(meetings) == [k \in DOMAIN meetings |-> meetings[k].starts]

\* The run and the start of a meeting are unique even while it is staged.
StagingClash(b) == \E k, l \in DOMAIN b : <<k, l>> \in SameRun /\ b[k] = b[l]

\* Nothing is in the way of loading the sessions and correcting their times.
Loadable(b, reset) ==
  /\ reset \/ unit = NoRows
  /\ ~ StagingClash(b)
  /\ Plans => ValidAllocation(b, Allocate(b))

\* runImport: the meetings can be opened, and some of them adopted, in an
\* order without collision.
Import(b, reset, readAt) ==
  /\ Loadable(b, reset)
  /\ \E units \in {Corrected(b, readAt)} :
       LET opened == FinalizeImportedMeetings(units)
           live   == Adopted(opened)
       IN  /\ Knots(b, Starts(opened), SameRun) = {}
           /\ IsInjective(Starts(opened))
           /\ Knots(Starts(opened), Starts(live), AllRows) = {}
           /\ schedule' = live
           /\ unit'    = FollowMeetings(units, live)
  /\ IF Plans
     THEN \E plan \in {Allocate(b)} :
            /\ overlay' = Saved(b, plan)
            /\ boot'    = [book |-> b, plan |-> plan]
     ELSE UNCHANGED <<overlay, boot>>
  /\ book' = b /\ last' = "import"
  /\ UNCHANGED instant

\* Anything in the way ends the import and undoes all of it.
ImportFails(b, reset, readAt) ==
  /\ \/ ~ Loadable(b, reset)
     \/ \E units \in {Corrected(b, readAt)} :
          LET opened == FinalizeImportedMeetings(units)
          IN  \/ Collisions(b, Starts(opened), SameRun) # {}
              \/ ~ IsInjective(Starts(opened))
              \/ Collisions(Starts(opened), Starts(Adopted(opened)), AllRows) # {}
  /\ UNCHANGED archiveVars

-----------------------------------------------------------------------------
\* applyArchiveSessionTimeAllocation: the units move, the meetings stay.
Apply ==
  /\ unit # NoRows
  /\ \E plan \in {Allocate(PlanningClock(unit))} :
       /\ ValidAllocation(PlanningClock(unit), plan)
       /\ overlay' = Saved(PlanningClock(unit), plan)
       /\ unit'    = MovedTo(unit, plan)
  /\ boot' = [book |-> NoRows, plan |-> NoRows] /\ last' = "apply"
  /\ UNCHANGED <<schedule, instant, book>>

ClockMoves ==
  /\ \E t \in Clocks : t > instant /\ instant' = t
  /\ UNCHANGED <<unit, schedule, overlay, last, book, boot>>

ArchiveNext ==
  \/ \E b \in Books, reset \in BOOLEAN, readAt \in {t \in Clocks : t <= instant} :
       Import(b, reset, readAt) \/ ImportFails(b, reset, readAt)
  \/ Apply
  \/ ClockMoves

ArchiveSpec == ArchiveInit /\ [][ArchiveNext]_archiveVars

-----------------------------------------------------------------------------
(* Properties.                                                              *)

\* The times the next plan starts from.
PlansFrom == IF unit = NoRows THEN Books ELSE {PlanningClock(unit)}

DatesOf(calendar) == {p.date : p \in calendar}

\* On every date the slots given to the sessions cost no more than any other
\* way to give each its own slot, and of the equally cheap ways they are the
\* first: the pruned search of bestSlotAssignment finds the optimum, so that
\* preview, repair and import agree on the times of one workbook.
SlotPlanIsCheapest ==
  \A clock \in PlansFrom : \E calendar \in {Placement(clock)} : \A d \in DatesOf(calendar) :
    LET held == On(calendar, d)
        ways == Ways(Cardinality(held))
        best == BestSlotAssignment(clock, held)
    IN  /\ best \in ways
        /\ \A w \in ways \ {best} : Cheaper(clock, Sorted(held), best, w)

\* Every date holds at most one session per slot and per class, and a session
\* that was moved had no room on any date nearer to its own (nor on the later
\* of two equally near ones) - in the final calendar, although the sessions
\* were placed one after the other into a calendar still filling up
\* (chooseSessionsToKeep and nearestAvailableDate).
PlacedNearest ==
  \A clock \in PlansFrom : \E calendar \in {Placement(clock)} : \A d \in DatesOf(calendar) :
    /\ Cardinality(On(calendar, d)) <= Len(Slots) /\ OneEachClass(On(calendar, d))
    /\ \A k \in On(calendar, d) :
         LET origin == SourceDate(clock[k])
         IN  d # origin =>
               /\ IsWeekday(d)
               /\ ~ RoomFor(k, On(calendar, origin))
               /\ \A e \in (origin - Horizon)..(origin + Horizon) :
                    (IsWeekday(e) /\ RoomFor(k, On(calendar, e)))
                      => Rank(origin, d) < Rank(origin, e)

\* After an import every meeting starts when its unit is held and is over
\* exactly when the unit is, no two meetings share a start, and only planned
\* meetings without attendance were handed to the live schedule
\* (finalizeImportedMeetings and adoptImportedFutureMeetings).
ImportAligns ==
  last = "import" =>
    /\ DOMAIN schedule = DOMAIN unit
    /\ \A k \in DOMAIN unit :
         /\ schedule[k].starts = unit[k].held
         /\ schedule[k].status = "completed" <=> unit[k].status = "held"
         /\ schedule[k].adopted => /\ schedule[k].status = "planned"
                                  /\ k \notin Attended
    /\ \A k, l \in DOMAIN schedule : k # l => schedule[k].starts # schedule[l].starts

\* A workbook imported again gets the times its first import planned, by the
\* overlay that import left (045_english_session_time_corrections.js), unless
\* a repair came between: reset and reload does not move a session.
Reproducible ==
  (last = "import" /\ boot.book = book) =>
    \A k \in DOMAIN unit :
      unit[k].held = boot.plan[k] - (IF schedule[k].adopted THEN Shift ELSE 0)

-----------------------------------------------------------------------------
(* Promises the code does not keep.                                         *)

\* "Adopt only future" meetings (050_english_future_meeting_handoff.js:43):
\* an adopted meeting lies ahead when the import commits.
AdoptedAreFuture ==
  [][(last' = "import" /\ schedule' # schedule) =>
       \A k \in DOMAIN schedule' : schedule'[k].adopted => schedule'[k].starts > instant]_archiveVars

\* A unit is held when its meeting starts, after a repair as well.
UnitsFollowMeetings ==
  \A k \in DOMAIN unit : schedule[k].starts = unit[k].held

\* The overlay "survives a disposable re-import"
\* (045_english_session_time_corrections.js:4): a book imported again after a
\* repair of it leaves the units where the repair put them.
RepairSurvives ==
  [][(last = "apply" /\ last' = "import" /\ book' = book) =>
       \A k \in DOMAIN unit' : schedule'[k].adopted \/ unit'[k].held = unit[k].held]_archiveVars

\* The overlay records what the workbook said ("the workbook dates remain the
\* starting point", session-time-allocation.js:3).
OriginalsAreTheBook ==
  \A k \in DOMAIN overlay : \E b \in Books : k \in DOMAIN b /\ overlay[k].original = b[k]

=============================================================================
