---------------------------- MODULE MCAttendance ----------------------------
(* A small instance of AttendanceClients for TLC.                          *)
EXTENDS AttendanceClients, TLC

CONSTANTS s1, s2, s3, u1, u2, r1, r2, e1, e2

Rosters == s1 :> {u1, u2} @@ s2 :> {u1} @@ s3 :> {}
Starts == s1 :> 2 @@ s2 :> 1 @@ s3 :> 0
=============================================================================
