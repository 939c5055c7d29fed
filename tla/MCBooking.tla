----------------------------- MODULE MCBooking -----------------------------
(* Instances of Booking small enough for TLC.                              *)
EXTENDS Booking, TLC

CONSTANTS c1, c2, t1, t2, m1, m2, o1, r1, r2

\* Every team is a team of class c1.
OneClass == [t \in Teams |-> c1]

\* Or t1 is the team of c1 and t2 of c2.
OwnClass == (t1 :> c1) @@ (t2 :> c2)

\* All starts in one week.
OneWeek == [m \in Starts |-> 1]

\* One office owns every room.
OneOffice == [k \in Rooms |-> o1]

\* Windows that only overlap themselves: one start per configured slot.
Disjoint == {<<m, m>> : m \in Starts}

\* m1 and m2 lie in the same configured slot (they differ in seconds).
SameSlot == Disjoint \cup {<<m1, m2>>, <<m2, m1>>}

AllServe(names) == [r \in Requests |-> names]

LeadersOnly == AllServe({"book", "cohort", "cancel"})
Creators    == AllServe({"book", "cohort", "admin", "cancel"})
Everyone    == AllServe(HandlerNames)

\* One request slot edits sessions, the others create and cancel them.
OneEditor == [r \in Requests |-> IF r = r1 THEN {"update"}
                                 ELSE {"admin", "cancel"}]

\* Both slots edit; one of them also creates.
Editors == [r \in Requests |-> IF r = r2 THEN {"cohort", "update"} ELSE {"update"}]

\* Edits of the room and the time; of the time, the class and the team; and of
\* one column.
RoomBodies == {b \in Body : b.class = Keep /\ b.team = Keep}
MoveBodies == {b \in Body : b.room = Keep}
OneColumn  == {b \in Body : \E f \in {"class", "team", "start", "room"} :
                             \A g \in DOMAIN b \ {f} : b[g] = Keep}

Symmetry == Permutations(Sessions)

\* With all starts in one week these are alike as well, and so are the classes
\* when each takes its team along.
Swap     == (c1 :> c2) @@ (c2 :> c1) @@ (t1 :> t2) @@ (t2 :> t1)
AllAlike == Permutations(Sessions) \cup Permutations(Starts) \cup {Swap}
=============================================================================
