---------------------------- MODULE MCReminders ----------------------------
(* Instances of Reminders small enough for TLC.                            *)
EXTENDS Reminders

CONSTANTS s1, s2, u1, u2

\* One session with two recipients, one with one.
TwoAndOne == [s \in Sessions |-> IF s = s1 THEN {u1, u2} ELSE {u2}]

\* One session with one recipient, one with none.
OneAndNone == [s \in Sessions |-> IF s = s1 THEN {u1} ELSE {}]
=============================================================================
