---------------------------- MODULE MCAuditChain ----------------------------
(* Instances of AuditChain small enough for TLC.                            *)
EXTENDS AuditChain

\* Both sides of every diff have the same keys.
TwoSided == {"both"}

\* Some callers hand over a null side, or a key that one side lacks.
AnyDiff == {"both", "oneSided"}
=============================================================================
