------------------------------- MODULE Ledger -------------------------------
(***************************************************************************)
(* What the audit trail promises (docs/specs/audit-log): a ledger that     *)
(* grows only at its end, each row naming the one that was newest when it  *)
(* was added, and that loses rows only at its beginning.                   *)
(***************************************************************************)
EXTENDS Integers

CONSTANT Genesis  \* what the first row names as its predecessor

\* The rows, a function on their numbers: a row's field prev names its
\* predecessor, and hash is what its successor calls it.
VARIABLE log

Newest == CHOOSE s \in DOMAIN log : \A t \in DOMAIN log : t <= s

Init == log = <<>>

Append ==
    \E s \in DOMAIN log' \ DOMAIN log :
        /\ DOMAIN log' = DOMAIN log \cup {s}
        /\ \A t \in DOMAIN log : log'[t] = log[t]
        /\ IF DOMAIN log = {}
           THEN s = 1 /\ log'[s].prev = Genesis
           ELSE s = Newest + 1 /\ log'[s].prev = log[Newest].hash

Truncate ==
    \E s \in DOMAIN log :
        /\ DOMAIN log' = {t \in DOMAIN log : s <= t}
        /\ \A t \in DOMAIN log' : log'[t] = log[t]

Next == Append \/ Truncate

Spec == Init /\ [][Next]_log
=============================================================================
