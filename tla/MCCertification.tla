-------------------------- MODULE MCCertification --------------------------
(* Small instances of Certification for TLC.                               *)
EXTENDS Certification

CONSTANTS l1, l2, i1, i2, a1, a2, a3, o1, o2, here, there, none, boss

Everything == {"author", "submit", "grade", "evidence", "address", "issue", "revoke",
               "recert", "archive", "expiry", "assignments"}
Examination == {"author", "submit", "grade"}
Symmetry == Permutations(Operators) \cup Permutations(Attempts) \cup Permutations(Items)
=============================================================================
