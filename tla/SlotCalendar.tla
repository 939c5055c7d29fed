---------------------------- MODULE SlotCalendar ----------------------------
(***************************************************************************)
(* What the booking component promises, whatever its transactions do: a    *)
(* session holds one slot at a time, no two live sessions hold the same    *)
(* slot, and a session that has left the calendar never comes back.        *)
(*                                                                         *)
(* A slot is a pair <<class, start>>: the key of the partial unique index  *)
(* uq_sched_slot_scheduled.                                                *)
(***************************************************************************)
CONSTANTS Sessions,   \* session identifiers
          Slots       \* <<class, start>> pairs

VARIABLE cal          \* cal[s]: Unborn, the slot s holds, or Gone

Unborn == <<"unborn">>
Gone   == <<"gone">>

Free(k) == \A s \in Sessions : cal[s] # k

Init == cal = [s \in Sessions |-> Unborn]

Book(s, k) ==
    /\ cal[s] = Unborn
    /\ Free(k)
    /\ cal' = [cal EXCEPT ![s] = k]

Move(s, k) ==
    /\ cal[s] \in Slots
    /\ Free(k)
    /\ cal' = [cal EXCEPT ![s] = k]

Leave(s) ==
    /\ cal[s] \in Slots
    /\ cal' = [cal EXCEPT ![s] = Gone]

\* A step that leaves the calendar alone is a stutter, not an operation.
Next ==
    /\ cal' # cal
    /\ \E s \in Sessions :
          \/ \E k \in Slots : Book(s, k) \/ Move(s, k)
          \/ Leave(s)

Spec == Init /\ [][Next]_cal
=============================================================================
