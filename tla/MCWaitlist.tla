----------------------------- MODULE MCWaitlist -----------------------------
(* Instances of Waitlist small enough for TLC.                             *)
EXTENDS Waitlist

CONSTANTS a, b, c, r1, r2

AllServe(names) == [r \in Requests |-> names]

\* One slot edits teams, reassigns and cancels; the other fills the queue.
AdminAndQueue == [r \in Requests |-> IF r = r1 THEN {"team", "edit", "reassign", "cancel"}
                                     ELSE {"join", "leave", "drop", "pull", "edit"}]

JoinDrop   == AllServe({"join", "drop"})
JoinReassign == AllServe({"join", "edit", "reassign"})
JoinCancel == AllServe({"join", "cancel"})
LeaveEdit  == AllServe({"join", "leave", "edit"})
DropCancel == AllServe({"drop", "cancel"})
EditTeam   == AllServe({"edit", "team"})
TeamAndQueue == [r \in Requests |-> IF r = r1 THEN {"team"}
                                    ELSE {"join", "pull", "edit"}]

OneTeam  == [t \in Teams |-> IF t = 0 THEN Learners ELSE {}]
Founder  == [t \in Teams |-> IF t = 0 THEN {a} ELSE {}]
AllButC  == [t \in Teams |-> IF t = 0 THEN Learners \ {c} ELSE {}]
TwoTeams == [t \in Teams |-> IF t = 0 THEN {a, b, c} ELSE Learners \ {a, b, c}]

FullOf1 == {{a}}
FullOf2 == {{a, b}}
Nobody  == {{}}
AnyOne  == {{l} : l \in Learners}
AnyOneOrNobody == AnyOne \cup Nobody
JustA == {{a}}
=============================================================================
