--------------------------- MODULE MCConnectionPool ---------------------------
(* Instances of ConnectionPool small enough for TLC.                         *)
EXTENDS ConnectionPool

CONSTANTS r1, r2, r3

\* One editor fewer than the pool has clients; the others run queries and
\* transactions of their own.
FewEditors == [r \in Requests |-> IF r \in {r1, r2} THEN {"edit"} ELSE {"query", "tx"}]

\* As many editors as clients, and one request that only wants a statement.
Editors == [r \in Requests |-> IF r = r3 THEN {"query"} ELSE {"edit"}]
=============================================================================
