---------------------------- MODULE MCMembership ----------------------------
(* Small instances of Membership for TLC.                                  *)
EXTENDS Membership, TLC

CONSTANTS x1, x2, x3, t1, t2, c1, c2, o1, o2, none, keep

Everything == {"create", "update", "transfer", "delete", "leave", "restore", "override",
               "enroll", "bulk", "withdraw"}
TeamKinds == {"create", "update", "transfer", "delete"}
Symmetry == Permutations(Learners) \cup Permutations(Operators) \cup Permutations(Teams)
=============================================================================
