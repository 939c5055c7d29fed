------------------------ MODULE SharedServicesProofs ------------------------
(***************************************************************************)
(* What holds of the two services every handler uses, the audit trail and  *)
(* the connection pool.                                                    *)
(*                                                                         *)
(* For any number of processes, however they fail and whatever heads they  *)
(* cache: the trail is a chain, it is a ledger, and verification accepts   *)
(* it as long as every diff is stored as it was hashed.                    *)
(*                                                                         *)
(* The argument: a cached head and a row that is under way were once the   *)
(* end of the trail. The number after it is then either taken, and the     *)
(* unique index refuses the row, or it is the next one, and then the head  *)
(* is still the newest row. A purge removes no number somebody waits for.  *)
(***************************************************************************)
EXTENDS AuditChain, ConnectionPool, FiniteSetTheorems, TLAPS

End == ChainHead.seq

\* The trail has no gap, and its rows are linked.
LogOK ==
    /\ DOMAIN log # {} => Newest \in DOMAIN log /\ \A t \in DOMAIN log : t <= Newest
    /\ \A s, t \in DOMAIN log : \A u \in Nat : s <= u /\ u <= t => u \in DOMAIN log
    /\ \A s \in DOMAIN log : s + 1 \in DOMAIN log => log[s + 1].prev = log[s].hash

\* Row number s with this hash is in the trail or was purged from it, and it
\* was not purged before its successor was there.
WasEnd(s, hash) ==
    /\ s \in Nat
    /\ s + 1 \in DOMAIN log \/ s = End
    /\ s \in DOMAIN log => log[s].hash = hash
    /\ DOMAIN log = {} => hash = GENESIS

WireOK == \A row \in wire : WasEnd(row.seq - 1, row.prev)

HeadsOK == \A p \in Processes : head[p] # Null => WasEnd(head[p].seq, head[p].hash)

WaitingOK ==
    \A p \in Processes : reply[p] # "none" =>
        /\ queue[p] # <<>>
        /\ head[p] # Null
        /\ sent[p] = RowAfter(head[p], Head(queue[p]))
        /\ reply[p] = "ok" => WasEnd(sent[p].seq, sent[p].hash)

Inv == TypeOK /\ LogOK /\ WireOK /\ HeadsOK /\ WaitingOK

-----------------------------------------------------------------------------
(* The number at the end of the trail.                                     *)

LEMMA EndFacts ==
    ASSUME TypeOK, LogOK
    PROVE  /\ End \in Nat
           /\ DOMAIN log = {} => ChainHead = [seq |-> 0, hash |-> GENESIS]
           /\ DOMAIN log # {} => /\ End = Newest
                                 /\ End \in DOMAIN log
                                 /\ ChainHead = [seq |-> End, hash |-> log[End].hash]
           /\ \A t \in DOMAIN log : t \in Nat \ {0} /\ t <= End
BY DEF TypeOK, LogOK, End, ChainHead

\* A row the database accepts gets the number after the end.
LEMMA AcceptedIsNext ==
    ASSUME TypeOK, LogOK, NEW row, row.seq \in Nat \ {0},
           WasEnd(row.seq - 1, row.prev), ~Refuses(row)
    PROVE  row.seq = End + 1
BY EndFacts DEF WasEnd, Refuses

\* What accepting a row does to the trail.
LEMMA Accepted ==
    ASSUME TypeOK, LogOK, NEW row, row.seq \in Nat \ {0},
           WasEnd(row.seq - 1, row.prev), ~Refuses(row), log' = Inserted(row)
    PROVE  /\ row.seq = End + 1
           /\ DOMAIN log' = DOMAIN log \cup {row.seq}
           /\ \A t \in DOMAIN log : t # row.seq /\ log'[t] = log[t]
           /\ log'[row.seq].prev = row.prev
           /\ log'[row.seq].hash = row.hash
           /\ Newest' = row.seq
           /\ End' = row.seq
           /\ LogOK'
<1>1. row.seq = End + 1
  BY AcceptedIsNext
<1>2. /\ DOMAIN log' = DOMAIN log \cup {row.seq}
      /\ \A t \in DOMAIN log' :
            log'[t] = IF t = row.seq THEN [row EXCEPT !.entry = Stored(@)] ELSE log[t]
  BY DEF Inserted
<1>3. \A t \in DOMAIN log : t # row.seq /\ log'[t] = log[t]
  BY <1>2 DEF Refuses
<1>4. log'[row.seq] = [row EXCEPT !.entry = Stored(@)]
  BY <1>2
<1>5. /\ [row EXCEPT !.entry = Stored(@)].prev = row.prev
      /\ [row EXCEPT !.entry = Stored(@)].hash = row.hash
  OBVIOUS
<1>6. Newest' = row.seq
  <2>1. row.seq \in DOMAIN log' /\ \A t \in DOMAIN log' : t <= row.seq
    BY <1>1, <1>2, EndFacts
  <2>2. \A x \in DOMAIN log' : (\A t \in DOMAIN log' : t <= x) => x = row.seq
    BY <1>1, <1>2, <2>1, EndFacts
  <2> QED BY <2>1, <2>2 DEF Newest
<1>7. End' = row.seq
  BY <1>2, <1>6 DEF End, ChainHead
<1>8. LogOK'
  <2>1. Newest' \in DOMAIN log' /\ \A t \in DOMAIN log' : t <= Newest'
    BY <1>1, <1>2, <1>6, EndFacts
  <2>2. \A s, t \in DOMAIN log' : \A u \in Nat : s <= u /\ u <= t => u \in DOMAIN log'
    <3> SUFFICES ASSUME NEW s \in DOMAIN log', NEW t \in DOMAIN log', NEW u \in Nat,
                        s <= u, u <= t, u # row.seq
                 PROVE  u \in DOMAIN log
      BY <1>2
    <3>1. s \in DOMAIN log /\ u <= End /\ End \in DOMAIN log
      BY <1>1, <1>2, EndFacts
    <3> QED BY <3>1 DEF LogOK
  <2>3. \A s \in DOMAIN log' : s + 1 \in DOMAIN log' => log'[s + 1].prev = log'[s].hash
    <3> SUFFICES ASSUME NEW s \in DOMAIN log', s + 1 \in DOMAIN log'
                 PROVE  log'[s + 1].prev = log'[s].hash
      OBVIOUS
    <3>1. s \in DOMAIN log
      BY <1>1, <1>2, EndFacts
    <3>2. CASE s + 1 = row.seq
      <4>0. s \in Nat
        BY <3>1 DEF TypeOK
      <4>1. row.seq - 1 = s
        BY <3>2, <4>0
      <4>2. log[s].hash = row.prev
        BY <3>1, <4>1 DEF WasEnd
      <4>3. log'[s].hash = row.prev /\ log'[s + 1].prev = row.prev
        BY <1>3, <1>4, <1>5, <3>1, <3>2, <4>2
      <4> QED BY <4>3
    <3>3. CASE s + 1 # row.seq
      BY <1>2, <1>3, <3>1, <3>3 DEF LogOK
    <3> QED BY <3>2, <3>3
  <2> QED BY <2>1, <2>2, <2>3 DEF LogOK
<1> QED BY <1>1, <1>2, <1>3, <1>4, <1>5, <1>6, <1>7, <1>8

\* A number that was the end stays one when a row is accepted.
LEMMA AcceptKeepsEnds ==
    ASSUME TypeOK, LogOK, NEW row, row.seq \in Nat \ {0},
           WasEnd(row.seq - 1, row.prev), ~Refuses(row), log' = Inserted(row),
           NEW s, NEW hash, WasEnd(s, hash)
    PROVE  WasEnd(s, hash)'
<1>1. /\ row.seq = End + 1
      /\ DOMAIN log' = DOMAIN log \cup {row.seq}
      /\ \A t \in DOMAIN log : t # row.seq /\ log'[t] = log[t]
  BY Accepted
<1>2. s \in Nat /\ s <= End
  BY EndFacts DEF WasEnd
<1>3. s + 1 \in DOMAIN log'
  BY <1>1, <1>2 DEF WasEnd
<1>4. s \in DOMAIN log' => log'[s].hash = hash
  BY <1>1, <1>2, EndFacts DEF WasEnd
<1> QED BY <1>1, <1>2, <1>3, <1>4 DEF WasEnd

\* The accepted row is the new end.
LEMMA AcceptedIsEnd ==
    ASSUME TypeOK, LogOK, NEW row, row.seq \in Nat \ {0},
           WasEnd(row.seq - 1, row.prev), ~Refuses(row), log' = Inserted(row)
    PROVE  WasEnd(row.seq, row.hash)'
BY Accepted DEF WasEnd

\* What a purge does to the trail.
LEMMA Purged ==
    ASSUME TypeOK, LogOK, NEW s \in DOMAIN log, s # Newest,
           log' = [t \in Survivors(s) |-> log[t]]
    PROVE  /\ DOMAIN log' = {t \in DOMAIN log : s < t}
           /\ \A t \in DOMAIN log' : log'[t] = log[t]
           /\ s + 1 \in DOMAIN log'
           /\ Newest' = Newest
           /\ End' = End
           /\ LogOK'
<1>1. DOMAIN log' = {t \in DOMAIN log : s < t} /\ \A t \in DOMAIN log' : log'[t] = log[t]
  BY DEF Survivors
<1>2. /\ Newest \in DOMAIN log
      /\ Newest \in Nat
      /\ s \in Nat
      /\ s < Newest
      /\ \A t \in DOMAIN log : t <= Newest /\ t \in Nat
  BY DEF TypeOK, LogOK
<1>3. s + 1 \in DOMAIN log'
  BY <1>1, <1>2 DEF LogOK
<1>4. Newest \in DOMAIN log' /\ \A t \in DOMAIN log' : t <= Newest
  BY <1>1, <1>2
<1>5. Newest' = Newest
  <2>1. \A x \in DOMAIN log' : (\A t \in DOMAIN log' : t <= x) => x = Newest
    BY <1>1, <1>2, <1>4
  <2>2. Newest' = CHOOSE x \in DOMAIN log' : \A t \in DOMAIN log' : t <= x
    BY DEF Newest
  <2> DEFINE m == Newest
  <2> HIDE DEF m
  <2>3. m \in DOMAIN log' /\ \A t \in DOMAIN log' : t <= m
    BY <1>4 DEF m
  <2>4. \A x \in DOMAIN log' : (\A t \in DOMAIN log' : t <= x) => x = m
    BY <2>1 DEF m
  <2>5. Newest' = m
    BY <2>2, <2>3, <2>4
  <2> QED BY <2>5 DEF m
<1>6. End' = End
  BY <1>1, <1>3, <1>5 DEF End, ChainHead
<1>7. LogOK'
  <2>1. \A t, v \in DOMAIN log' : \A u \in Nat : t <= u /\ u <= v => u \in DOMAIN log'
    <3> SUFFICES ASSUME NEW t \in DOMAIN log', NEW v \in DOMAIN log', NEW u \in Nat,
                        t <= u, u <= v
                 PROVE  u \in DOMAIN log'
      OBVIOUS
    <3>1. u \in DOMAIN log
      BY <1>1 DEF LogOK
    <3> QED BY <1>1, <1>2, <3>1
  <2>2. \A t \in DOMAIN log' : t + 1 \in DOMAIN log' => log'[t + 1].prev = log'[t].hash
    BY <1>1 DEF LogOK
  <2> QED BY <1>4, <1>5, <2>1, <2>2 DEF LogOK
<1> QED BY <1>1, <1>3, <1>5, <1>6, <1>7

\* A number that was the end stays one when the purge spares its successor.
LEMMA PurgeKeepsEnds ==
    ASSUME TypeOK, LogOK, NEW s \in DOMAIN log, s # Newest,
           log' = [t \in Survivors(s) |-> log[t]],
           NEW e, NEW hash, WasEnd(e, hash), s <= e
    PROVE  WasEnd(e, hash)'
<1>1. /\ DOMAIN log' = {t \in DOMAIN log : s < t}
      /\ \A t \in DOMAIN log' : log'[t] = log[t]
      /\ End' = End
  BY Purged
<1>2. e \in Nat /\ s \in Nat
  BY DEF WasEnd, TypeOK
<1>3. e + 1 \in DOMAIN log' \/ e = End'
  BY <1>1, <1>2 DEF WasEnd
<1>4. DOMAIN log' # {}
  BY Purged
<1> QED BY <1>1, <1>2, <1>3, <1>4 DEF WasEnd

\* The end of the trail is one.
LEMMA HeadIsEnd ==
    ASSUME TypeOK, LogOK
    PROVE  WasEnd(ChainHead.seq, ChainHead.hash)
BY EndFacts DEF WasEnd, End

-----------------------------------------------------------------------------
(* Induction.                                                              *)

LEMMA Initially == Init => Inv
<1> SUFFICES ASSUME Init PROVE Inv
  OBVIOUS
<1> USE DEF Init
<1>1. TypeOK    BY AuditAssumption DEF TypeOK
<1>2. LogOK     BY DEF LogOK
<1>3. WireOK    BY DEF WireOK
<1>4. HeadsOK   BY DEF HeadsOK
<1>5. WaitingOK BY DEF WaitingOK
<1> QED BY <1>1, <1>2, <1>3, <1>4, <1>5 DEF Inv

\* Types, step by step.
LEMMA TypeStep == TypeOK /\ LogOK /\ WaitingOK /\ [Next]_vars => TypeOK'
<1> SUFFICES ASSUME TypeOK, LogOK, WaitingOK, [Next]_vars PROVE TypeOK'
  OBVIOUS
<1> USE AuditAssumption
<1>1. CASE UNCHANGED vars
  BY <1>1 DEF TypeOK, vars, memory, audit
<1>2. ASSUME NEW p \in Processes, Record(p) PROVE TypeOK'
  <2>1. PICK d \in Diffs : queue' = [queue EXCEPT ![p] =
                       Enqueued(p, [by |-> p, n |-> recorded + 1, diff |-> d])]
    BY <1>2 DEF Record
  <2>2. [by |-> p, n |-> recorded + 1, diff |-> d] \in Entry
    BY <1>2 DEF Record, Entry, TypeOK
  <2>3. queue' \in [Processes -> Seq(Entry)]
    BY <2>1, <2>2 DEF TypeOK, Enqueued
  <2> QED BY <1>2, <2>3 DEF Record, TypeOK, audit
<1>3. ASSUME NEW p \in Processes, LoadHead(p) PROVE TypeOK'
  BY <1>3, EndFacts DEF LoadHead, TypeOK, audit, End
<1>4. ASSUME NEW p \in Processes, SendInsert(p) PROVE TypeOK'
  <2> DEFINE row == RowAfter(head[p], Head(queue[p]))
  <2>1. row.seq \in Nat \ {0} /\ row.entry \in Entry
    BY <1>4 DEF SendInsert, Appending, TypeOK, RowAfter
  <2>2. wire' = wire \cup {row}
    BY <1>4 DEF SendInsert
  <2>3. reply' \in [Processes -> {"none", "waiting", "ok", "duplicate"}]
    BY <1>4 DEF SendInsert, TypeOK
  <2> HIDE DEF row
  <2> QED BY <1>4, <2>1, <2>2, <2>3 DEF SendInsert, TypeOK, audit
<1>5. ASSUME NEW row \in wire, Execute(row) PROVE TypeOK'
  <2>1. DOMAIN log' \subseteq Nat \ {0}
    BY <1>5 DEF Execute, Inserted, TypeOK
  <2>2. reply' \in [Processes -> {"none", "waiting", "ok", "duplicate"}]
    BY <1>5 DEF Execute, TypeOK
  <2> QED BY <1>5, <2>1, <2>2 DEF Execute, TypeOK, audit
<1>6. ASSUME NEW p \in Processes, NEW h, h # Null => h.seq \in Nat,
             queue[p] # <<>>, Settle(p, h)
      PROVE  TypeOK'
  <2>1. queue' \in [Processes -> Seq(Entry)]
    BY <1>6 DEF Settle, TypeOK
  <2>2. \A q \in Processes : head'[q] # Null => head'[q].seq \in Nat
    BY <1>6 DEF Settle, TypeOK
  <2>3. reply' \in [Processes -> {"none", "waiting", "ok", "duplicate"}]
    BY <1>6 DEF Settle, TypeOK
  <2> QED BY <1>6, <2>1, <2>2, <2>3 DEF Settle, TypeOK, audit
<1>7. ASSUME NEW p \in Processes, Acknowledge(p) PROVE TypeOK'
  <2>1. sent[p].seq \in Nat /\ queue[p] # <<>>
    BY <1>7 DEF Acknowledge, WaitingOK, WasEnd
  <2>2. [seq |-> sent[p].seq, hash |-> sent[p].hash].seq \in Nat
    BY <2>1
  <2> QED BY <1>6, <1>7, <2>1, <2>2 DEF Acknowledge
<1>8. ASSUME NEW p \in Processes, AppendFails(p) PROVE TypeOK'
  BY <1>6, <1>8 DEF AppendFails, ResyncedHead
<1>9. ASSUME NEW p \in Processes, Crash(p) PROVE TypeOK'
  <2>1. queue' \in [Processes -> Seq(Entry)]
    BY <1>9 DEF Crash, TypeOK
  <2>2. \A q \in Processes : head'[q] # Null => head'[q].seq \in Nat
    BY <1>9 DEF Crash, TypeOK
  <2>3. reply' \in [Processes -> {"none", "waiting", "ok", "duplicate"}]
    BY <1>9 DEF Crash, TypeOK
  <2> QED BY <1>9, <2>1, <2>2, <2>3 DEF Crash, TypeOK, audit
<1>10. ASSUME NEW s \in DOMAIN log, Purge(s) PROVE TypeOK'
  BY <1>10 DEF Purge, Survivors, TypeOK, memory, audit
<1>11. ASSUME NEW from \in 1..MaxEntries, NEW to \in 1..MaxEntries, VerifyHead(from, to)
       PROVE  TypeOK'
  <2> DEFINE last == AtMost(to, Newest)
             first == IF last - from + 1 > MAX_WINDOW THEN last - MAX_WINDOW + 1 ELSE from
  <2>1. last \in Int
    BY <1>11 DEF VerifyHead, AtMost, LogOK, TypeOK
  <2>2. first \in Int
    BY <2>1
  <2>3. window' = [from |-> first, to |-> last]
    BY <1>11 DEF VerifyHead
  <2>4. window'.from \in Int /\ window'.to \in Int
    BY <2>1, <2>2, <2>3
  <2> QED BY <1>11, <2>4 DEF VerifyHead, TypeOK, memory
<1>12. CASE VerifyRows
  BY <1>12 DEF VerifyRows, TypeOK, memory
<1> QED
  BY <1>1, <1>2, <1>3, <1>4, <1>5, <1>7, <1>8, <1>9, <1>10, <1>11, <1>12 DEF Next

\* A step that writes no row leaves every number what it was.
LEMMA SameLog ==
    ASSUME UNCHANGED log
    PROVE  /\ LogOK => LogOK'
           /\ \A s, hash : WasEnd(s, hash) => WasEnd(s, hash)'
BY DEF LogOK, WasEnd, Newest, End, ChainHead

\* What was under way is still fine when the trail and the process are as they
\* were, or when numbers that were the end still are.
LEMMA Inductive == Inv /\ [Next]_vars => Inv'
<1> SUFFICES ASSUME Inv, [Next]_vars PROVE Inv'
  OBVIOUS
<1> USE DEF Inv
<1>0. TypeOK'
  BY TypeStep
<1>1. CASE UNCHANGED vars
  <2>1. LogOK'     BY <1>1, SameLog DEF vars
  <2>2. WireOK'    BY <1>1, SameLog DEF vars, WireOK
  <2>3. HeadsOK'   BY <1>1, SameLog DEF vars, memory, HeadsOK
  <2>4. WaitingOK' BY <1>1, SameLog DEF vars, memory, WaitingOK, RowAfter, Digest
  <2> QED BY <1>0, <2>1, <2>2, <2>3, <2>4
<1>2. ASSUME NEW p \in Processes, Record(p) PROVE Inv'
  <2>1. LogOK'     BY <1>2, SameLog DEF Record
  <2>2. WireOK'    BY <1>2, SameLog DEF Record, WireOK
  <2>3. HeadsOK'   BY <1>2, SameLog DEF Record, HeadsOK
  <2>4. WaitingOK'
    <3>1. PICK e \in Entry : queue' = [queue EXCEPT ![p] = Append(queue[p], e)]
      <4>1. PICK d \in Diffs : queue' = [queue EXCEPT ![p] =
                       Append(queue[p], [by |-> p, n |-> recorded + 1, diff |-> d])]
        BY <1>2 DEF Record, Enqueued
      <4>2. [by |-> p, n |-> recorded + 1, diff |-> d] \in Entry
        BY <1>2, AuditAssumption DEF Record, Entry, TypeOK
      <4> QED BY <4>1, <4>2
    <3>2. \A q \in Processes : queue[q] # <<>> =>
             queue'[q] # <<>> /\ Head(queue'[q]) = Head(queue[q])
      <4> SUFFICES ASSUME NEW q \in Processes, queue[q] # <<>>
                   PROVE  queue'[q] # <<>> /\ Head(queue'[q]) = Head(queue[q])
        OBVIOUS
      <4>1. queue[q] \in Seq(Entry)
        BY DEF TypeOK
      <4>2. queue'[q] = queue[q] \/ queue'[q] = Append(queue[q], e)
        BY <3>1 DEF TypeOK
      <4>3. CASE queue'[q] = queue[q]
        BY <4>3
      <4>4. CASE queue'[q] = Append(queue[q], e)
        BY <4>1, <4>4
      <4> QED BY <4>2, <4>3, <4>4
    <3> QED BY <1>2, <3>2, SameLog DEF Record, WaitingOK
  <2> QED BY <1>0, <2>1, <2>2, <2>3, <2>4
<1>3. ASSUME NEW p \in Processes, LoadHead(p) PROVE Inv'
  <2>1. LogOK'     BY <1>3, SameLog DEF LoadHead
  <2>2. WireOK'    BY <1>3, SameLog DEF LoadHead, WireOK
  <2>3. HeadsOK'
    <3>1. WasEnd(ChainHead.seq, ChainHead.hash)'
      BY <1>3, HeadIsEnd, SameLog DEF LoadHead, ChainHead, Newest
    <3>2. ChainHead' = ChainHead
      BY <1>3 DEF LoadHead, ChainHead, Newest
    <3>3. \A q \in Processes : head'[q] = IF q = p THEN ChainHead ELSE head[q]
      BY <1>3 DEF LoadHead, TypeOK
    <3> QED BY <1>3, <3>1, <3>2, <3>3, SameLog DEF LoadHead, HeadsOK
  <2>4. WaitingOK'
    <3>1. reply[p] = "none" /\ \A q \in Processes : q # p => head'[q] = head[q]
      BY <1>3 DEF LoadHead, Appending, TypeOK
    <3> QED BY <1>3, <3>1, SameLog DEF LoadHead, WaitingOK
  <2> QED BY <1>0, <2>1, <2>2, <2>3, <2>4
<1>4. ASSUME NEW p \in Processes, SendInsert(p) PROVE Inv'
  <2> DEFINE row == RowAfter(head[p], Head(queue[p]))
  <2>1. LogOK'     BY <1>4, SameLog DEF SendInsert
  <2>2. WasEnd(head[p].seq, head[p].hash)
    BY <1>4 DEF SendInsert, HeadsOK
  <2>3. row.seq - 1 = head[p].seq /\ row.prev = head[p].hash
    BY <2>2 DEF RowAfter, WasEnd
  <2>4. WasEnd(row.seq - 1, row.prev)
    BY <2>2, <2>3
  <2>5. wire' = wire \cup {row}
    BY <1>4 DEF SendInsert
  <2>6. \A q \in Processes : /\ sent'[q] = IF q = p THEN row ELSE sent[q]
                             /\ reply'[q] = IF q = p THEN "waiting" ELSE reply[q]
    BY <1>4 DEF SendInsert, TypeOK
  <2>7. UNCHANGED <<log, head, queue>> /\ queue[p] # <<>> /\ head[p] # Null
    BY <1>4 DEF SendInsert, Appending
  <2>8. WireOK'
    <3> HIDE DEF row
    <3> QED BY <2>4, <2>5, <2>7, SameLog DEF WireOK
  <2>9. HeadsOK'   BY <2>7, SameLog DEF HeadsOK
  <2>10. WaitingOK'
    <3> HIDE DEF row
    <3> SUFFICES ASSUME NEW q \in Processes, reply'[q] # "none"
                 PROVE  /\ queue'[q] # <<>>
                        /\ head'[q] # Null
                        /\ sent'[q] = RowAfter(head'[q], Head(queue'[q]))
                        /\ reply'[q] = "ok" => WasEnd(sent[q].seq, sent[q].hash)'
      BY DEF WaitingOK
    <3>1. CASE q = p
      BY <2>6, <2>7, <3>1 DEF row
    <3>2. CASE q # p
      <4>1. sent'[q] = sent[q] /\ reply'[q] = reply[q]
        BY <2>6, <3>2
      <4>2. reply'[q] = "ok" => WasEnd(sent[q].seq, sent[q].hash)'
        BY <2>7, <4>1 DEF WaitingOK, WasEnd, End, ChainHead, Newest
      <4> QED BY <2>7, <4>1, <4>2 DEF WaitingOK
    <3> QED BY <3>1, <3>2
  <2> QED BY <1>0, <2>1, <2>8, <2>9, <2>10
<1>5. ASSUME NEW row \in wire, Execute(row) PROVE Inv'
  <2>1. /\ row.seq \in Nat \ {0}
        /\ WasEnd(row.seq - 1, row.prev)
        /\ UNCHANGED <<queue, head, sent>>
        /\ wire' \subseteq wire
    BY <1>5 DEF Execute, WireOK, TypeOK
  <2>2. LogOK' /\ \A s, hash : WasEnd(s, hash) => WasEnd(s, hash)'
    <3>1. CASE Refuses(row)
      BY <1>5, <3>1, SameLog DEF Execute
    <3>2. CASE ~Refuses(row)
      BY <1>5, <2>1, <3>2, Accepted, AcceptKeepsEnds DEF Execute
    <3> QED BY <3>1, <3>2
  <2>3. WireOK'
    BY <2>1, <2>2 DEF WireOK
  <2>4. HeadsOK'
    BY <2>1, <2>2 DEF HeadsOK
  <2>5. WaitingOK'
    <3> SUFFICES ASSUME NEW q \in Processes, reply'[q] # "none"
                 PROVE  /\ queue[q] # <<>>
                        /\ head[q] # Null
                        /\ sent[q] = RowAfter(head[q], Head(queue[q]))
                        /\ reply'[q] = "ok" => WasEnd(sent[q].seq, sent[q].hash)'
      BY <2>1 DEF WaitingOK, RowAfter, Digest
    <3>1. reply'[q] = IF reply[q] # "waiting" \/ sent[q] # row THEN reply[q]
                      ELSE IF Refuses(row) THEN "duplicate" ELSE "ok"
      BY <1>5 DEF Execute
    <3>2. reply[q] # "none"
      BY <3>1
    <3>3. ASSUME reply[q] = "waiting", sent[q] = row, ~Refuses(row)
          PROVE  WasEnd(row.seq, row.hash)'
      BY <1>5, <2>1, <3>3, AcceptedIsEnd DEF Execute
    <3>4. reply'[q] = "ok" => WasEnd(sent[q].seq, sent[q].hash)'
      <4> SUFFICES ASSUME reply'[q] = "ok" PROVE WasEnd(sent[q].seq, sent[q].hash)'
        OBVIOUS
      <4>1. CASE reply[q] = "waiting" /\ sent[q] = row
        <5>1. ~Refuses(row)
          BY <3>1, <4>1
        <5> QED BY <3>3, <4>1, <5>1, <2>1
      <4>2. CASE ~(reply[q] = "waiting" /\ sent[q] = row)
        <5>1. reply[q] = "ok"
          BY <3>1, <4>2
        <5> QED BY <2>1, <2>2, <5>1 DEF WaitingOK
      <4> QED BY <4>1, <4>2
    <3> QED BY <3>2, <3>4 DEF WaitingOK
  <2> QED BY <1>0, <2>2, <2>3, <2>4, <2>5
<1>6. ASSUME NEW p \in Processes, NEW h, h # Null => WasEnd(h.seq, h.hash),
             UNCHANGED <<log, wire>>, NEW rest,
             queue' = [queue EXCEPT ![p] = rest],
             head' = [head EXCEPT ![p] = h],
             sent' = [sent EXCEPT ![p] = Null],
             reply' = [reply EXCEPT ![p] = "none"]
      PROVE  Inv'
  <2>1. LogOK'     BY <1>6, SameLog
  <2>2. WireOK'    BY <1>6, SameLog DEF WireOK
  <2>3. \A q \in Processes :
           /\ head'[q] = IF q = p THEN h ELSE head[q]
           /\ reply'[q] = IF q = p THEN "none" ELSE reply[q]
           /\ q # p => queue'[q] = queue[q] /\ sent'[q] = sent[q]
    BY <1>6 DEF TypeOK
  <2>4. HeadsOK'   BY <1>6, <2>3, SameLog DEF HeadsOK
  <2>5. WaitingOK' BY <1>6, <2>3, SameLog DEF WaitingOK
  <2> QED BY <1>0, <2>1, <2>2, <2>4, <2>5
<1>7. ASSUME NEW p \in Processes, Acknowledge(p) PROVE Inv'
  <2> DEFINE h == [seq |-> sent[p].seq, hash |-> sent[p].hash]
  <2>1. WasEnd(sent[p].seq, sent[p].hash)
    BY <1>7 DEF Acknowledge, WaitingOK
  <2>2. WasEnd(h.seq, h.hash)
    BY <2>1
  <2>3. Settle(p, h)
    BY <1>7 DEF Acknowledge
  <2> HIDE DEF h
  <2> QED BY <1>6, <2>2, <2>3 DEF Settle
<1>8. ASSUME NEW p \in Processes, AppendFails(p) PROVE Inv'
  BY <1>6, <1>8 DEF AppendFails, ResyncedHead, Settle
<1>9. ASSUME NEW p \in Processes, Crash(p) PROVE Inv'
  BY <1>6, <1>9 DEF Crash
<1>10. ASSUME NEW s \in DOMAIN log, Purge(s) PROVE Inv'
  <2>1. /\ s # Newest
        /\ log' = [t \in Survivors(s) |-> log[t]]
        /\ UNCHANGED <<wire, queue, head, sent, reply>>
        /\ s \in Nat
    BY <1>10 DEF Purge, PastRetention, memory, TypeOK
  <2>2. LogOK'
    BY <2>1, Purged
  <2>3. \A e, hash : WasEnd(e, hash) /\ s <= e => WasEnd(e, hash)'
    BY <2>1, PurgeKeepsEnds
  <2>4. WireOK'
    <3> SUFFICES ASSUME NEW row \in wire PROVE WasEnd(row.seq - 1, row.prev)'
      BY <2>1 DEF WireOK
    <3>1. s < row.seq /\ row.seq \in Nat
      BY <1>10 DEF Purge, PastRetention, TypeOK
    <3>2. s <= row.seq - 1
      BY <2>1, <3>1
    <3> QED BY <2>3, <3>2 DEF WireOK
  <2>5. HeadsOK'
    BY <1>10, <2>1, <2>3 DEF Purge, PastRetention, HeadsOK
  <2>6. WaitingOK'
    <3> SUFFICES ASSUME NEW q \in Processes, reply[q] = "ok"
                 PROVE  WasEnd(sent[q].seq, sent[q].hash)'
      BY <2>1 DEF WaitingOK, RowAfter, Digest
    <3>0. /\ head[q] # Null
          /\ sent[q] = RowAfter(head[q], Head(queue[q]))
          /\ WasEnd(sent[q].seq, sent[q].hash)
      BY DEF WaitingOK
    <3>1. sent[q].seq = head[q].seq + 1
      BY <3>0 DEF RowAfter
    <3>2. s <= head[q].seq /\ head[q].seq \in Nat
      BY <1>10, <3>0 DEF Purge, PastRetention, TypeOK
    <3>3. s <= sent[q].seq
      BY <2>1, <3>1, <3>2
    <3>4. PICK e, hash : e = sent[q].seq /\ hash = sent[q].hash
      OBVIOUS
    <3>5. WasEnd(e, hash)'
      BY <2>3, <3>0, <3>3, <3>4
    <3>6. e = sent'[q].seq /\ hash = sent'[q].hash
      BY <2>1, <3>4
    <3> QED BY <3>5, <3>6 DEF WasEnd
  <2> QED BY <1>0, <2>2, <2>4, <2>5, <2>6
<1>11. ASSUME UNCHANGED <<log, wire, memory>> PROVE Inv'
  <2>1. LogOK'     BY <1>11, SameLog
  <2>2. WireOK'    BY <1>11, SameLog DEF WireOK
  <2>3. HeadsOK'   BY <1>11, SameLog DEF memory, HeadsOK
  <2>4. WaitingOK' BY <1>11, SameLog DEF memory, WaitingOK, RowAfter, Digest
  <2> QED BY <1>0, <2>1, <2>2, <2>3, <2>4
<1>12. ASSUME NEW from \in 1..MaxEntries, NEW to \in 1..MaxEntries, VerifyHead(from, to)
       PROVE  Inv'
  BY <1>11, <1>12 DEF VerifyHead
<1>13. CASE VerifyRows
  BY <1>11, <1>13 DEF VerifyRows
<1> QED
  BY <1>1, <1>2, <1>3, <1>4, <1>5, <1>7, <1>8, <1>9, <1>10, <1>12, <1>13 DEF Next

-----------------------------------------------------------------------------
(* The theorems.                                                           *)

LEMMA Invariance == Spec => []Inv
BY Initially, Inductive, PTL DEF Spec

\* Every table, queue and cache keeps its type, for any number of processes
\* and of entries.
THEOREM Typing == Spec => []TypeOK
<1>1. Inv => TypeOK
  BY DEF Inv
<1> QED BY <1>1, Invariance, PTL

\* Whatever heads the processes of auditService.js cache and however their
\* INSERTs fail, cross or arrive after a crash, the surviving rows are numbered
\* without a gap and each names the row before it.
THEOREM TrailIsChain == Spec => []ChainLinked
<1>1. Inv => ChainLinked
  <2> SUFFICES ASSUME Inv, NEW s \in DOMAIN log, s # Newest
               PROVE  s + 1 \in DOMAIN log /\ log[s + 1].prev = log[s].hash
    BY DEF ChainLinked
  <2>1. s \in Nat /\ Newest \in DOMAIN log /\ Newest \in Nat /\ s <= Newest
    BY DEF Inv, LogOK, TypeOK
  <2>2. s + 1 \in DOMAIN log
    BY <2>1 DEF Inv, LogOK
  <2> QED BY <2>2 DEF Inv, LogOK
<1> QED BY <1>1, Invariance, PTL

\* The append queues, the cached heads and the retention purge implement the
\* ledger: each step adds one row that names the newest, drops the oldest rows,
\* or leaves the trail alone.
THEOREM TrailIsLedger == Spec => RefinesLedger
<1>1. Init => Trail!Init
  BY DEF Init, Trail!Init
<1>2. Inv /\ [Next]_vars => [Trail!Next]_log
  <2> SUFFICES ASSUME Inv, [Next]_vars PROVE Trail!Next \/ UNCHANGED log
    OBVIOUS
  <2>1. CASE UNCHANGED vars
    BY <2>1 DEF vars
  <2>2. ASSUME NEW row \in wire, Execute(row) PROVE Trail!Next \/ UNCHANGED log
    <3>1. CASE Refuses(row)
      BY <2>2, <3>1 DEF Execute
    <3>2. CASE ~Refuses(row)
      <4>1. /\ TypeOK /\ LogOK
            /\ row.seq \in Nat \ {0}
            /\ WasEnd(row.seq - 1, row.prev)
            /\ log' = Inserted(row)
        BY <2>2, <3>2 DEF Execute, Inv, WireOK, TypeOK
      <4>2. /\ row.seq = End + 1
            /\ DOMAIN log' = DOMAIN log \cup {row.seq}
            /\ \A t \in DOMAIN log : t # row.seq /\ log'[t] = log[t]
            /\ log'[row.seq].prev = row.prev
        BY <3>2, <4>1, Accepted
      <4>3. row.seq \in DOMAIN log' \ DOMAIN log
        BY <4>2
      <4>4. End \in Nat /\ row.seq - 1 = End
        BY <4>1, <4>2, EndFacts
      <4>5. CASE DOMAIN log = {}
        <5>1. row.seq = 1 /\ row.prev = GENESIS
          BY <4>1, <4>2, <4>5, EndFacts DEF WasEnd, End
        <5> QED BY <4>2, <4>3, <4>5, <5>1 DEF Trail!Next, Trail!Append
      <4>6. CASE DOMAIN log # {}
        <5>1. End = Newest /\ End \in DOMAIN log
          BY <4>1, <4>6, EndFacts
        <5>2. row.prev = log[Newest].hash
          BY <4>1, <4>4, <5>1 DEF WasEnd
        <5> QED
          BY <4>2, <4>3, <4>6, <5>1, <5>2 DEF Trail!Next, Trail!Append, Trail!Newest, Newest
      <4> QED BY <4>5, <4>6
    <3> QED BY <3>1, <3>2
  <2>3. ASSUME NEW s \in DOMAIN log, Purge(s) PROVE Trail!Next
    <3>1. /\ DOMAIN log' = {t \in DOMAIN log : s < t}
          /\ \A t \in DOMAIN log' : log'[t] = log[t]
          /\ s + 1 \in DOMAIN log'
      BY <2>3, Purged DEF Purge, PastRetention, Inv
    <3>2. s \in Nat /\ \A t \in DOMAIN log : t \in Nat
      BY DEF Inv, TypeOK
    <3>3. s + 1 \in DOMAIN log /\ DOMAIN log' = {t \in DOMAIN log : s + 1 <= t}
      BY <3>1, <3>2
    <3> QED BY <3>1, <3>3 DEF Trail!Next, Trail!Truncate
  <2>4. ASSUME NEW p \in Processes,
               Record(p) \/ LoadHead(p) \/ SendInsert(p) \/ Acknowledge(p)
                 \/ AppendFails(p) \/ Crash(p)
        PROVE  UNCHANGED log
    BY <2>4 DEF Record, LoadHead, SendInsert, Acknowledge, AppendFails, Crash, Settle
  <2>5. ASSUME NEW from \in 1..MaxEntries, NEW to \in 1..MaxEntries, VerifyHead(from, to)
        PROVE  UNCHANGED log
    BY <2>5 DEF VerifyHead
  <2>6. CASE VerifyRows
    BY <2>6 DEF VerifyRows
  <2> QED BY <2>1, <2>2, <2>3, <2>4, <2>5, <2>6 DEF Next
<1> QED BY <1>1, <1>2, Invariance, PTL DEF Spec, RefinesLedger, Trail!Spec

\* What is stored is what was hashed.
HonestOK ==
    /\ \A s \in DOMAIN log : SelfHashed(s)
    /\ \A row \in wire : row.hash = Digest(row.entry, row.seq, row.prev)
    /\ NoFalseAlarm

LEMMA HonestStep ==
    ASSUME "oneSided" \notin Diffs, Inv, HonestOK, [Next]_vars
    PROVE  HonestOK'
<1> USE DEF HonestOK, NoFalseAlarm
<1>1. ASSUME UNCHANGED <<log, wire, verdict>> PROVE HonestOK'
  BY <1>1 DEF SelfHashed
<1>2. CASE UNCHANGED vars
  BY <1>1, <1>2 DEF vars, audit
<1>3. ASSUME NEW p \in Processes,
             Record(p) \/ LoadHead(p) \/ Acknowledge(p) \/ AppendFails(p) \/ Crash(p)
      PROVE  HonestOK'
  BY <1>1, <1>3 DEF Record, LoadHead, Acknowledge, AppendFails, Crash, Settle, audit
<1>4. ASSUME NEW p \in Processes, SendInsert(p) PROVE HonestOK'
  <2> DEFINE row == RowAfter(head[p], Head(queue[p]))
  <2>1. row.hash = Digest(row.entry, row.seq, row.prev)
    BY DEF RowAfter
  <2>2. wire' = wire \cup {row} /\ UNCHANGED <<log, verdict>>
    BY <1>4 DEF SendInsert, audit
  <2> HIDE DEF row
  <2> QED BY <2>1, <2>2 DEF SelfHashed
<1>5. ASSUME NEW row \in wire, Execute(row) PROVE HonestOK'
  <2>1. wire' \subseteq wire /\ verdict' = verdict
    BY <1>5 DEF Execute, audit
  <2>2. CASE Refuses(row)
    BY <1>5, <2>1, <2>2 DEF Execute, SelfHashed
  <2>3. CASE ~Refuses(row)
    <3>1. row.entry \in Entry /\ row.entry.diff # "oneSided"
      BY DEF Inv, TypeOK, Entry
    <3>2. Stored(row.entry) = row.entry
      BY <3>1 DEF Stored, Entry
    <3>3. log' = Inserted(row)
      BY <1>5, <2>3 DEF Execute
    <3>4. \A s \in DOMAIN log : log'[s] = log[s]
      BY <2>3, <3>3 DEF Inserted, Refuses
    <3>5. /\ DOMAIN log' = DOMAIN log \cup {row.seq}
          /\ log'[row.seq] = [row EXCEPT !.entry = Stored(@)]
      BY <3>3 DEF Inserted
    <3>6. /\ log'[row.seq].hash = row.hash
          /\ log'[row.seq].prev = row.prev
          /\ log'[row.seq].entry = Stored(row.entry) \/ log'[row.seq] = row
      BY <3>5
    <3>7. row.hash = Digest(row.entry, row.seq, row.prev)
      OBVIOUS
    <3> QED BY <2>1, <3>2, <3>4, <3>5, <3>6, <3>7 DEF SelfHashed
  <2> QED BY <2>2, <2>3
<1>6. ASSUME NEW s \in DOMAIN log, Purge(s) PROVE HonestOK'
  BY <1>6 DEF Purge, Survivors, SelfHashed, audit
<1>7. ASSUME NEW from \in 1..MaxEntries, NEW to \in 1..MaxEntries, VerifyHead(from, to)
      PROVE  HonestOK'
  BY <1>1, <1>7 DEF VerifyHead
<1>8. CASE VerifyRows
  <2>1. \A s \in InWindow : FirstOfWindow(s) \/ LinkedBack(s)
    <3> SUFFICES ASSUME NEW s \in InWindow, NEW t \in InWindow, ~(s <= t)
                 PROVE  LinkedBack(s)
      BY DEF FirstOfWindow
    <3>1. window.from \in Int /\ window.to \in Int
      BY <1>8 DEF VerifyRows, Inv, TypeOK
    <3>2. /\ s \in DOMAIN log /\ t \in DOMAIN log
          /\ s \in Nat \ {0} /\ t \in Nat \ {0}
          /\ window.from <= t /\ s <= window.to /\ t < s
      BY DEF InWindow, Inv, TypeOK
    <3>3. t <= s - 1 /\ s - 1 <= s /\ s - 1 \in Nat /\ (s - 1) + 1 = s
      BY <3>2
    <3>4. s - 1 \in DOMAIN log
      BY <3>2, <3>3 DEF Inv, LogOK
    <3>5. s - 1 \in InWindow
      BY <3>1, <3>2, <3>3, <3>4 DEF InWindow
    <3>6. log[s].prev = log[s - 1].hash
      BY <3>2, <3>3, <3>4 DEF Inv, LogOK
    <3> QED BY <3>5, <3>6 DEF LinkedBack
  <2>2. \A s \in InWindow : SelfHashed(s)
    BY DEF InWindow
  <2> QED BY <1>8, <2>1, <2>2 DEF VerifyRows, SelfHashed
<1> QED BY <1>2, <1>3, <1>4, <1>5, <1>6, <1>7, <1>8 DEF Next

\* verifyChain never raises a false alarm, at whatever moment it reads, when no
\* caller hands record() a diff that one side lacks.
THEOREM VerifyAccepts ==
    ASSUME "oneSided" \notin Diffs
    PROVE  Spec => []NoFalseAlarm
<1>1. Init => HonestOK
  BY DEF Init, HonestOK, NoFalseAlarm
<1>2. Inv /\ HonestOK /\ [Next]_vars => HonestOK'
  BY HonestStep
<1>3. HonestOK => NoFalseAlarm
  BY DEF HonestOK
<1> QED BY <1>1, <1>2, <1>3, Invariance, PTL DEF Spec

-----------------------------------------------------------------------------
(* The order of one process's entries.                                     *)

\* The entries that wait are in the order of their record() calls.
QueueOrder ==
    \A p \in Processes :
        /\ \A i \in DOMAIN queue[p] : queue[p][i].by = p /\ queue[p][i].n <= recorded
        /\ \A i, j \in DOMAIN queue[p] : i < j => queue[p][i].n < queue[p][j].n

\* An entry that was sent was recorded before those that wait, but for the one
\* whose append is under way.
Behind(entry) ==
    /\ entry.by \in Processes /\ entry.n \in Nat /\ entry.n <= recorded
    /\ queue[entry.by] # <<>> =>
         /\ entry.n <= Head(queue[entry.by]).n
         /\ reply[entry.by] = "none" => entry.n < Head(queue[entry.by]).n

SentBehind ==
    /\ \A row \in wire : Behind(row.entry)
    /\ \A s \in DOMAIN log : Behind(log[s].entry)

\* A row that the database would still accept is newer than its process's others.
Follows(row) ==
    row.seq \notin DOMAIN log =>
        \A s \in DOMAIN log : log[s].entry.by = row.entry.by => log[s].entry.n < row.entry.n

WireFollows == \A row \in wire : Follows(row)

OrderInv == QueueOrder /\ SentBehind /\ WireFollows /\ RecordedInOrder

\* The queue of a process, and what is left of it when an append has settled.
LEMMA QueueFacts ==
    ASSUME TypeOK, QueueOrder, NEW p \in Processes, queue[p] # <<>>
    PROVE  /\ queue[p] \in Seq(Entry) /\ 1 \in DOMAIN queue[p] /\ Head(queue[p]) = queue[p][1]
           /\ Head(queue[p]) \in Entry
           /\ Head(queue[p]).by = p /\ Head(queue[p]).n <= recorded
           /\ Tail(queue[p]) # <<>> => Head(queue[p]).n < Head(Tail(queue[p])).n
           /\ \A i \in DOMAIN Tail(queue[p]) :
                 i + 1 \in DOMAIN queue[p] /\ Tail(queue[p])[i] = queue[p][i + 1] /\ i \in Nat
<1> DEFINE q == queue[p]
<1>1. q \in Seq(Entry) /\ q # <<>>
  BY DEF TypeOK
<1>2. /\ \A i \in DOMAIN q : q[i].by = p /\ q[i].n <= recorded
      /\ \A i, j \in DOMAIN q : i < j => q[i].n < q[j].n
  BY DEF QueueOrder
<1> HIDE DEF q
<1>3. /\ Len(q) \in Nat /\ Len(q) > 0 /\ DOMAIN q = 1 .. Len(q) /\ Head(q) = q[1]
      /\ 1 \in DOMAIN q /\ q[1] \in Entry
      /\ DOMAIN Tail(q) = 1 .. Len(q) - 1
      /\ \A i \in 1 .. Len(q) - 1 : Tail(q)[i] = q[i + 1]
      /\ Tail(q) \in Seq(Entry) /\ Len(Tail(q)) = Len(q) - 1
  BY <1>1
<1>4. \A i \in DOMAIN Tail(q) : i + 1 \in DOMAIN q /\ Tail(q)[i] = q[i + 1] /\ i \in Nat
  BY <1>3
<1>5. Tail(q) # <<>> => Head(q).n < Head(Tail(q)).n
  <2> SUFFICES ASSUME Tail(q) # <<>> PROVE q[1].n < Head(Tail(q)).n
    BY <1>3
  <2>1. Len(q) > 1
    BY <1>3
  <2>2. Head(Tail(q)) = q[2] /\ 2 \in DOMAIN q
    BY <1>3, <2>1
  <2> QED BY <1>2, <1>3, <2>2
<1> QED BY <1>1, <1>2, <1>3, <1>4, <1>5 DEF q

\* A step that adds no row to the trail or the wire and leaves the queues.
LEMMA OrderKept ==
    ASSUME OrderInv, UNCHANGED <<log, wire, queue, reply, recorded>>
    PROVE  OrderInv'
BY DEF OrderInv, QueueOrder, SentBehind, Behind, WireFollows, Follows, RecordedInOrder

\* record() gives the entry a number of its own, at the end of the queue.
LEMMA OrderRecord ==
    ASSUME Inv, OrderInv, NEW p \in Processes, Record(p)
    PROVE  OrderInv'
<1> USE DEF Inv
<1>1. PICK d \in Diffs :
         queue' = [queue EXCEPT ![p] = Append(queue[p], [by |-> p, n |-> recorded + 1, diff |-> d])]
  BY DEF Record, Enqueued
<1> DEFINE e == [by |-> p, n |-> recorded + 1, diff |-> d]
<1>2. /\ e \in Entry /\ e.by = p /\ e.n = recorded + 1
      /\ recorded' = recorded + 1 /\ recorded \in Nat
      /\ UNCHANGED <<log, wire, reply>>
  BY AuditAssumption DEF Record, Entry, TypeOK
<1> HIDE DEF e
<1>3. /\ queue[p] \in Seq(Entry)
      /\ queue'[p] = Append(queue[p], e)
      /\ \A o \in Processes \ {p} : queue'[o] = queue[o]
  BY <1>1 DEF TypeOK, e
<1>4. /\ DOMAIN queue'[p] = DOMAIN queue[p] \cup {Len(queue[p]) + 1}
      /\ DOMAIN queue[p] = 1 .. Len(queue[p]) /\ Len(queue[p]) \in Nat
      /\ queue'[p][Len(queue[p]) + 1] = e
      /\ \A i \in DOMAIN queue[p] : queue'[p][i] = queue[p][i]
      /\ queue[p] # <<>> => queue'[p] # <<>> /\ Head(queue'[p]) = Head(queue[p])
      /\ queue[p] = <<>> => Head(queue'[p]) = e
  BY <1>2, <1>3
<1>5. QueueOrder'
  <2> SUFFICES ASSUME NEW o \in Processes
               PROVE  /\ \A i \in DOMAIN queue'[o] : queue'[o][i].by = o /\ queue'[o][i].n <= recorded'
                      /\ \A i, j \in DOMAIN queue'[o] : i < j => queue'[o][i].n < queue'[o][j].n
    BY DEF QueueOrder
  <2>1. /\ \A i \in DOMAIN queue[o] :
             queue[o][i].by = o /\ queue[o][i].n <= recorded /\ queue[o][i].n \in Nat
        /\ \A i, j \in DOMAIN queue[o] : i < j => queue[o][i].n < queue[o][j].n
    <3>1. \A i \in DOMAIN queue[o] : queue[o][i] \in Entry
      BY DEF TypeOK
    <3> QED BY <3>1 DEF OrderInv, QueueOrder, Entry
  <2>2. CASE o = p
    BY <1>2, <1>4, <2>1, <2>2
  <2>3. CASE o # p
    BY <1>2, <1>3, <2>1, <2>3
  <2> QED BY <2>2, <2>3
<1>6. ASSUME NEW entry, Behind(entry) PROVE Behind(entry)'
  <2>1. CASE entry.by = p /\ queue[p] = <<>>
    BY <1>2, <1>4, <1>6, <2>1 DEF Behind
  <2>2. CASE entry.by = p /\ queue[p] # <<>>
    BY <1>2, <1>4, <1>6, <2>2 DEF Behind
  <2>3. CASE entry.by # p
    BY <1>2, <1>3, <1>6, <2>3 DEF Behind
  <2> QED BY <2>1, <2>2, <2>3
<1>7. SentBehind'
  BY <1>2, <1>6 DEF OrderInv, SentBehind
<1> QED
  BY <1>2, <1>5, <1>7 DEF OrderInv, WireFollows, Follows, RecordedInOrder

\* An append settles, and nothing that was sent is as new as the next entry.
LEMMA OrderSettle ==
    ASSUME Inv, OrderInv, NEW p \in Processes, NEW h, queue[p] # <<>>, Settle(p, h)
    PROVE  OrderInv'
<1> USE DEF Inv
<1>1. /\ queue'[p] = Tail(queue[p]) /\ reply'[p] = "none"
      /\ \A o \in Processes \ {p} : queue'[o] = queue[o] /\ reply'[o] = reply[o]
      /\ UNCHANGED <<log, wire, recorded>>
  BY DEF Settle, TypeOK
<1>2. /\ Head(queue[p]) \in Entry
      /\ Tail(queue[p]) # <<>> => Head(queue[p]).n < Head(Tail(queue[p])).n
      /\ \A i \in DOMAIN Tail(queue[p]) :
            i + 1 \in DOMAIN queue[p] /\ Tail(queue[p])[i] = queue[p][i + 1] /\ i \in Nat
      /\ Tail(queue[p]) \in Seq(Entry)
  BY QueueFacts DEF OrderInv, TypeOK
<1>3. QueueOrder'
  <2> SUFFICES ASSUME NEW o \in Processes
               PROVE  /\ \A i \in DOMAIN queue'[o] : queue'[o][i].by = o /\ queue'[o][i].n <= recorded
                      /\ \A i, j \in DOMAIN queue'[o] : i < j => queue'[o][i].n < queue'[o][j].n
    BY <1>1 DEF QueueOrder
  <2>1. /\ \A i \in DOMAIN queue[o] : queue[o][i].by = o /\ queue[o][i].n <= recorded
        /\ \A i, j \in DOMAIN queue[o] : i < j => queue[o][i].n < queue[o][j].n
    BY DEF OrderInv, QueueOrder
  <2>2. CASE o = p
    <3> DEFINE q    == queue[p]
               rest == Tail(queue[p])
    <3>1. /\ \A i \in DOMAIN rest : i + 1 \in DOMAIN q /\ rest[i] = q[i + 1] /\ i \in Nat
          /\ queue'[o] = rest
      BY <1>1, <1>2, <2>2
    <3>2. /\ \A i \in DOMAIN q : q[i].by = o /\ q[i].n <= recorded
          /\ \A i, j \in DOMAIN q : i < j => q[i].n < q[j].n
      BY <2>1, <2>2
    <3> HIDE DEF q, rest
    <3>3. \A i \in DOMAIN rest : rest[i].by = o /\ rest[i].n <= recorded
      BY <3>1, <3>2
    <3>4. ASSUME NEW i \in DOMAIN rest, NEW j \in DOMAIN rest, i < j
          PROVE  rest[i].n < rest[j].n
      <4>1. i + 1 < j + 1
        BY <3>1, <3>4
      <4> QED BY <3>1, <3>2, <4>1
    <3>5. \A i, j \in DOMAIN rest : i < j => rest[i].n < rest[j].n
      BY <3>4
    <3>6. recorded' = recorded
      BY <1>1
    <3> QED BY <3>1, <3>3, <3>5, <3>6
  <2>3. CASE o # p
    BY <1>1, <2>1, <2>3
  <2> QED BY <2>2, <2>3
<1>4. ASSUME NEW entry, Behind(entry) PROVE Behind(entry)'
  <2>1. CASE entry.by = p
    <3>1. entry.n \in Nat /\ entry.n <= Head(queue[p]).n /\ Head(queue[p]).n \in Nat
      BY <1>2, <1>4, <2>1 DEF Behind, Entry
    <3>2. Tail(queue[p]) # <<>> => Head(Tail(queue[p])).n \in Nat
      <4>1. Tail(queue[p]) # <<>> => Head(Tail(queue[p])) \in Entry
        BY <1>2
      <4>2. \A e \in Entry : e.n \in Nat
        BY AuditAssumption DEF Entry
      <4> QED BY <4>1, <4>2
    <3>3. ASSUME Tail(queue[p]) # <<>> PROVE entry.n < Head(Tail(queue[p])).n
      <4>1. PICK a, b, c : a = entry.n /\ b = Head(queue[p]).n /\ c = Head(Tail(queue[p])).n
        OBVIOUS
      <4>2. a \in Nat /\ b \in Nat /\ c \in Nat
        BY <3>1, <3>2, <3>3, <4>1
      <4>3. a <= b
        BY <3>1, <4>1
      <4>4. b < c
        BY <1>2, <3>3, <4>1
      <4>5. a < c
        BY <4>2, <4>3, <4>4
      <4> QED BY <4>1, <4>5
    <3>4. Tail(queue[p]) # <<>> => entry.n <= Head(Tail(queue[p])).n
      BY <3>1, <3>2, <3>3
    <3> QED BY <1>1, <1>4, <2>1, <3>3, <3>4 DEF Behind
  <2>2. CASE entry.by # p
    BY <1>1, <1>4, <2>2 DEF Behind
  <2> QED BY <2>1, <2>2
<1>5. SentBehind'
  BY <1>1, <1>4 DEF OrderInv, SentBehind
<1> QED
  BY <1>1, <1>3, <1>5 DEF OrderInv, WireFollows, Follows, RecordedInOrder

\* A process that ends forgets what it had not sent.
LEMMA OrderCrash ==
    ASSUME Inv, OrderInv, NEW p \in Processes, Crash(p)
    PROVE  OrderInv'
<1> USE DEF Inv
<1>1. /\ queue'[p] = <<>>
      /\ \A o \in Processes \ {p} : queue'[o] = queue[o] /\ reply'[o] = reply[o]
      /\ UNCHANGED <<log, wire, recorded>>
  BY DEF Crash, TypeOK
<1>2. QueueOrder'
  <2> SUFFICES ASSUME NEW o \in Processes
               PROVE  /\ \A i \in DOMAIN queue'[o] : queue'[o][i].by = o /\ queue'[o][i].n <= recorded
                      /\ \A i, j \in DOMAIN queue'[o] : i < j => queue'[o][i].n < queue'[o][j].n
    BY <1>1 DEF QueueOrder
  <2>1. CASE o = p
    <3>1. DOMAIN queue'[o] = {}
      BY <1>1, <2>1
    <3> QED BY <3>1
  <2>2. CASE o # p
    BY <1>1, <2>2 DEF OrderInv, QueueOrder
  <2> QED BY <2>1, <2>2
<1>3. ASSUME NEW entry, Behind(entry) PROVE Behind(entry)'
  BY <1>1, <1>3 DEF Behind
<1>4. SentBehind'
  BY <1>1, <1>3 DEF OrderInv, SentBehind
<1> QED
  BY <1>1, <1>2, <1>4 DEF OrderInv, WireFollows, Follows, RecordedInOrder

\* The row that is sent is newer than whatever its process has sent before.
LEMMA OrderSend ==
    ASSUME Inv, OrderInv, NEW p \in Processes, SendInsert(p)
    PROVE  OrderInv'
<1> USE DEF Inv
<1> DEFINE row == RowAfter(head[p], Head(queue[p]))
<1>1. /\ queue[p] # <<>> /\ reply[p] = "none"
      /\ wire' = wire \cup {row}
      /\ UNCHANGED <<log, queue, recorded>>
      /\ reply'[p] = "waiting" /\ \A o \in Processes \ {p} : reply'[o] = reply[o]
  BY DEF SendInsert, Appending, TypeOK
<1>2. /\ row.entry = Head(queue[p])
      /\ Head(queue[p]) \in Entry /\ Head(queue[p]).by = p /\ Head(queue[p]).n <= recorded
  BY <1>1, QueueFacts DEF OrderInv, RowAfter
<1>3. Head(queue[p]).n \in Nat
  BY <1>2 DEF Entry
<1> HIDE DEF row
<1>4. ASSUME NEW entry, Behind(entry) PROVE Behind(entry)'
  BY <1>1, <1>4 DEF Behind
<1>5. /\ row.entry.by = p /\ row.entry.n = Head(queue[p]).n
      /\ row.entry.n \in Nat /\ row.entry.n <= recorded
  BY <1>2, <1>3
<1>6. PICK x : x = row
  OBVIOUS
<1>7. /\ x.entry.by = p /\ x.entry.n = Head(queue[p]).n
      /\ x.entry.n \in Nat /\ x.entry.n <= recorded /\ x.entry.n <= Head(queue[p]).n
      /\ wire' = wire \cup {x}
  BY <1>1, <1>5, <1>6
<1>8. Behind(x.entry)'
  BY <1>1, <1>7 DEF Behind
<1>9. SentBehind'
  BY <1>1, <1>4, <1>7, <1>8 DEF OrderInv, SentBehind
<1>10. Follows(x)'
  <2> SUFFICES ASSUME NEW s \in DOMAIN log, log[s].entry.by = x.entry.by
               PROVE  log[s].entry.n < x.entry.n
    BY <1>1 DEF Follows
  <2>1. Behind(log[s].entry)
    BY DEF OrderInv, SentBehind
  <2> QED BY <1>1, <1>7, <2>1 DEF Behind
<1>11. WireFollows'
  <2>1. \A w \in wire : Follows(w)'
    BY <1>1 DEF OrderInv, WireFollows, Follows
  <2> QED BY <1>7, <1>10, <2>1 DEF WireFollows
<1>12. QueueOrder' /\ RecordedInOrder'
  BY <1>1 DEF OrderInv, QueueOrder, RecordedInOrder
<1> QED BY <1>9, <1>11, <1>12 DEF OrderInv

\* What the database accepts is the newest row of its process; every other row
\* under way has lost its number.
LEMMA OrderExecute ==
    ASSUME Inv, OrderInv, NEW row \in wire, Execute(row)
    PROVE  OrderInv'
<1> USE DEF Inv
<1>1. /\ wire' \subseteq wire /\ UNCHANGED <<queue, recorded>>
      /\ log' = IF Refuses(row) THEN log ELSE Inserted(row)
      /\ \A p \in Processes : reply'[p] = "none" <=> reply[p] = "none"
  BY DEF Execute, TypeOK
<1>2. ASSUME NEW entry, Behind(entry) PROVE Behind(entry)'
  BY <1>1, <1>2 DEF Behind
<1>3. QueueOrder'
  BY <1>1 DEF OrderInv, QueueOrder
<1>4. CASE Refuses(row)
  <2>1. SentBehind'
    BY <1>1, <1>2, <1>4 DEF OrderInv, SentBehind
  <2>2. WireFollows' /\ RecordedInOrder'
    BY <1>1, <1>4 DEF OrderInv, WireFollows, Follows, RecordedInOrder
  <2> QED BY <1>3, <2>1, <2>2 DEF OrderInv
<1>5. CASE ~Refuses(row)
  <2>1. /\ row.seq \in Nat \ {0} /\ row.entry \in Entry
        /\ WasEnd(row.seq - 1, row.prev)
        /\ log' = Inserted(row)
    BY <1>1, <1>5 DEF TypeOK, WireOK
  <2>2. /\ row.seq = End + 1
        /\ DOMAIN log' = DOMAIN log \cup {row.seq}
        /\ \A t \in DOMAIN log : t # row.seq /\ log'[t] = log[t]
    BY <1>5, <2>1, Accepted
  <2>3. \A t \in DOMAIN log : t \in Nat /\ t <= End
    BY EndFacts
  <2>4. log'[row.seq].entry = Stored(row.entry) \/ log'[row.seq] = row
    <3>1. log'[row.seq] = [row EXCEPT !.entry = Stored(@)]
      BY <2>1 DEF Inserted
    <3> QED BY <3>1
  <2>5. /\ log'[row.seq].entry.by = row.entry.by
        /\ log'[row.seq].entry.n = row.entry.n
    BY <2>1, <2>4 DEF Stored, Entry
  <2>6. Behind(row.entry)
    BY DEF OrderInv, SentBehind
  <2>7. ASSUME NEW s \in DOMAIN log', NEW e, e = log'[s].entry PROVE Behind(e)'
    <3>1. \E x : Behind(x) /\ x.by = e.by /\ x.n = e.n
      <4>1. CASE s \in DOMAIN log
        BY <2>2, <2>7, <4>1 DEF OrderInv, SentBehind
      <4>2. CASE s = row.seq
        BY <2>5, <2>6, <2>7, <4>2
      <4> QED BY <2>2, <4>1, <4>2
    <3>2. Behind(e)
      BY <3>1 DEF Behind
    <3> QED BY <1>2, <3>2
  <2>8. SentBehind'
    <3>1. ASSUME NEW w \in wire' PROVE Behind(w.entry)'
      BY <1>1, <1>2 DEF OrderInv, SentBehind
    <3> QED BY <2>7, <3>1 DEF SentBehind
  <2>9. WireFollows'
    <3> SUFFICES ASSUME NEW w \in wire, w.seq \notin DOMAIN log' PROVE FALSE
      BY <1>1 DEF WireFollows, Follows
    <3>1. w.seq \in Nat \ {0} /\ WasEnd(w.seq - 1, w.prev) /\ ~Refuses(w)
      BY <2>2 DEF TypeOK, WireOK, Refuses
    <3>2. w.seq = End + 1
      BY <3>1, AcceptedIsNext
    <3> QED BY <2>2, <3>2
  <2>10. RecordedInOrder'
    <3> SUFFICES ASSUME NEW s \in DOMAIN log', NEW t \in DOMAIN log',
                        log'[s].entry.by = log'[t].entry.by, s < t
                 PROVE  log'[s].entry.n < log'[t].entry.n
      BY DEF RecordedInOrder
    <3>1. s \in DOMAIN log
      BY <2>1, <2>2, <2>3, EndFacts
    <3>2. CASE t \in DOMAIN log
      BY <2>2, <3>1, <3>2 DEF OrderInv, RecordedInOrder
    <3>3. CASE t = row.seq
      <4>1. Follows(row)
        BY DEF OrderInv, WireFollows
      <4>2. row.seq \notin DOMAIN log
        BY <2>2
      <4>3. log[s].entry.n < row.entry.n
        BY <2>2, <2>5, <3>1, <3>3, <4>1, <4>2 DEF Follows
      <4> QED BY <2>2, <2>5, <3>1, <3>3, <4>3
    <3> QED BY <2>2, <3>2, <3>3
  <2> QED BY <1>3, <2>8, <2>9, <2>10 DEF OrderInv
<1> QED BY <1>4, <1>5

\* The purge frees no number that is under way.
LEMMA OrderPurge ==
    ASSUME Inv, OrderInv, NEW s \in DOMAIN log, Purge(s)
    PROVE  OrderInv'
<1> USE DEF Inv
<1>1. /\ UNCHANGED <<wire, queue, reply, recorded>>
      /\ \A row \in wire : s < row.seq
  BY DEF Purge, PastRetention, memory
<1>2. /\ DOMAIN log' = {t \in DOMAIN log : s < t}
      /\ \A t \in DOMAIN log' : log'[t] = log[t]
  BY DEF Purge, Survivors
<1>3. QueueOrder' /\ RecordedInOrder'
  BY <1>1, <1>2 DEF OrderInv, QueueOrder, RecordedInOrder
<1>4. SentBehind'
  BY <1>1, <1>2 DEF OrderInv, SentBehind, Behind
<1>5. WireFollows'
  BY <1>1, <1>2 DEF OrderInv, WireFollows, Follows
<1> QED BY <1>3, <1>4, <1>5 DEF OrderInv

\* Every step keeps the order.
LEMMA OrderStep == Inv /\ OrderInv /\ [Next]_vars => OrderInv'
<1> SUFFICES ASSUME Inv, OrderInv, [Next]_vars PROVE OrderInv'
  OBVIOUS
<1>1. CASE UNCHANGED vars
  BY <1>1, OrderKept DEF vars, memory
<1>2. ASSUME NEW p \in Processes, LoadHead(p) PROVE OrderInv'
  BY <1>2, OrderKept DEF LoadHead
<1>3. ASSUME NEW p \in Processes, Acknowledge(p) PROVE OrderInv'
  <2>1. queue[p] # <<>>
    BY <1>3 DEF Acknowledge, Inv, WaitingOK
  <2> QED BY <1>3, <2>1, OrderSettle DEF Acknowledge
<1>4. ASSUME NEW p \in Processes, AppendFails(p) PROVE OrderInv'
  BY <1>4, OrderSettle DEF AppendFails
<1>5. ASSUME NEW from \in 1..MaxEntries, NEW to \in 1..MaxEntries, VerifyHead(from, to)
      PROVE  OrderInv'
  BY <1>5, OrderKept DEF VerifyHead, memory
<1>6. CASE VerifyRows
  BY <1>6, OrderKept DEF VerifyRows, memory
<1> QED
  BY <1>1, <1>2, <1>3, <1>4, <1>5, <1>6, OrderRecord, OrderSend, OrderCrash,
     OrderExecute, OrderPurge DEF Next

\* However processes fail and whatever INSERT arrives late, the trail has the
\* entries of a process in the order of its record() calls (auditService.js).
THEOREM EntriesInOrder == Spec => []RecordedInOrder
<1>1. Init => OrderInv
  BY DEF Init, OrderInv, QueueOrder, SentBehind, WireFollows, RecordedInOrder
<1>2. OrderInv => RecordedInOrder
  BY DEF OrderInv
<1> QED BY <1>1, <1>2, OrderStep, Invariance, PTL DEF Spec

-----------------------------------------------------------------------------
(* The connection pool. As long as fewer request slots can edit a session  *)
(* than the pool has clients, the pool never starves itself, however many  *)
(* other requests there are. The reason is a count: were every client held *)
(* by an edit that waits for a second one, the edits would be as many as   *)
(* the clients.                                                            *)

Editors == {r \in Requests : "edit" \in Kinds[r]}

FewerEditorsThanClients ==
    /\ IsFiniteSet(Clients)
    /\ IsFiniteSet(Editors)
    /\ Cardinality(Editors) < Cardinality(Clients)

Waiting == {"connect", "window"}

\* The queue holds callers that wait, each once.
QueueOK ==
    /\ \A i \in 1..Len(pending) : pc[pending[i]] \in Waiting
    /\ \A i, j \in 1..Len(pending) : pending[i] = pending[j] => i = j

\* A request holds a client from its grant to its end, a second one only while
\* it reads the window, and it does work of a kind its slot does.
HoldingOK ==
    \A r \in Requests :
        /\ main[r] # None => pc[r] \notin {"idle", "connect"}
        /\ extra[r] # None => pc[r] = "probe" /\ main[r] # None
        /\ pc[r] \in {"window", "probe", "write"} => kind[r] = "edit"
        /\ pc[r] \in {"window", "probe", "run"} => main[r] # None
        /\ pc[r] # "idle" => kind[r] \in Kinds[r]

PoolInv == PoolTypeOK /\ QueueOK /\ HoldingOK

-----------------------------------------------------------------------------

\* What connect() does to the queue: a request that does not wait joins it.
LEMMA ConnectKeepsQueue ==
    ASSUME PoolTypeOK, QueueOK, NEW r \in Requests, pc[r] \notin Waiting,
           Connect(r), NEW w \in Waiting, Goto(r, w)
    PROVE  pending' \in Seq(Requests) /\ QueueOK'
<1>1. pending \in Seq(Requests) /\ pending' = Append(pending, r)
  BY DEF PoolTypeOK, Connect
<1>2. /\ pending' \in Seq(Requests)
      /\ Len(pending') = Len(pending) + 1
      /\ \A i \in 1..Len(pending) : pending'[i] = pending[i]
      /\ pending'[Len(pending) + 1] = r
  BY <1>1
<1>3. \A i \in 1..Len(pending) : pending[i] \in Requests /\ pending[i] # r
  BY <1>1 DEF QueueOK
<1>4. /\ pc'[r] = w
      /\ \A q \in Requests : q # r => pc'[q] = pc[q]
  BY DEF Goto, PoolTypeOK
<1>5. \A i \in 1..Len(pending') : pc'[pending'[i]] \in Waiting
  BY <1>2, <1>3, <1>4, <1>1 DEF QueueOK
<1>6. \A i, j \in 1..Len(pending') : pending'[i] = pending'[j] => i = j
  BY <1>2, <1>3, <1>1 DEF QueueOK
<1> QED BY <1>2, <1>5, <1>6 DEF QueueOK

\* The head leaves the queue, and only the head moves on.
LEMMA TailKeepsQueue ==
    ASSUME PoolTypeOK, QueueOK, pending # <<>>, pending' = Tail(pending),
           NEW label, Goto(Head(pending), label)
    PROVE  pending' \in Seq(Requests) /\ QueueOK'
<1> DEFINE r == Head(pending)
<1>1. pending \in Seq(Requests) /\ Len(pending) \in Nat \ {0} /\ r = pending[1]
  BY DEF PoolTypeOK
<1>2. /\ pending' \in Seq(Requests)
      /\ Len(pending') = Len(pending) - 1
      /\ \A i \in 1..Len(pending') : pending'[i] = pending[i + 1]
  BY <1>1
<1>3. \A i \in 1..Len(pending') :
         i + 1 \in 1..Len(pending) /\ pending[i + 1] \in Requests /\ pending[i + 1] # r
  BY <1>1, <1>2 DEF QueueOK
<1>4. \A q \in Requests : q # r => pc'[q] = pc[q]
  BY DEF Goto, PoolTypeOK
<1>5. \A i \in 1..Len(pending') : pc'[pending'[i]] \in Waiting
  BY <1>2, <1>3, <1>4 DEF QueueOK
<1>6. \A i, j \in 1..Len(pending') : pending'[i] = pending'[j] => i = j
  <2> SUFFICES ASSUME NEW i \in 1..Len(pending'), NEW j \in 1..Len(pending'),
                      pending'[i] = pending'[j]
               PROVE  i = j
    OBVIOUS
  <2>1. i + 1 = j + 1
    BY <1>2, <1>3 DEF QueueOK
  <2> QED BY <2>1, <1>1, <1>2
<1> QED BY <1>2, <1>5, <1>6 DEF QueueOK

\* A request that leaves the queue alone and was not in it.
LEMMA OthersKeepQueue ==
    ASSUME PoolTypeOK, QueueOK, NEW r \in Requests, pc[r] \notin Waiting,
           NEW label, Goto(r, label), UNCHANGED pending
    PROVE  QueueOK'
<1>1. \A i \in 1..Len(pending) : pending[i] \in Requests /\ pending[i] # r
  BY DEF QueueOK, PoolTypeOK
<1>2. \A q \in Requests : q # r => pc'[q] = pc[q]
  BY DEF Goto, PoolTypeOK
<1> QED BY <1>1, <1>2 DEF QueueOK

\* The first request of the queue waits.
LEMMA HeadWaits ==
    ASSUME PoolTypeOK, QueueOK, pending # <<>>
    PROVE  Head(pending) \in Requests /\ pc[Head(pending)] \in Waiting
BY DEF PoolTypeOK, QueueOK

-----------------------------------------------------------------------------

LEMMA PoolInitially ==
    PoolInit => PoolInv
<1> SUFFICES ASSUME PoolInit PROVE PoolInv
  OBVIOUS
<1>1. PoolTypeOK
  BY PoolAssumption DEF PoolInit, PoolTypeOK, Work, PCs
<1>2. QueueOK
  BY DEF PoolInit, QueueOK
<1>3. HoldingOK
  BY DEF PoolInit, HoldingOK
<1> QED BY <1>1, <1>2, <1>3 DEF PoolInv

LEMMA PoolInductive ==
    PoolInv /\ [PoolNext]_poolVars => PoolInv'
<1> SUFFICES ASSUME PoolInv, [PoolNext]_poolVars PROVE PoolInv'
  OBVIOUS
<1> USE PoolAssumption DEF PoolInv
<1>1. CASE UNCHANGED poolVars
  <2>1. PoolTypeOK'    BY <1>1 DEF PoolTypeOK, poolVars
  <2>2. QueueOK'   BY <1>1 DEF QueueOK, poolVars
  <2>3. HoldingOK' BY <1>1 DEF HoldingOK, poolVars
  <2> QED BY <2>1, <2>2, <2>3
<1>2. ASSUME NEW r \in Requests, Step(r) PROVE PoolInv'
  <2>1. CASE Request(r)
    <3>1. QueueOK' /\ pending' \in Seq(Requests)
      BY <2>1, ConnectKeepsQueue DEF Request, At, Waiting
    <3>2. PoolTypeOK'
      BY <2>1, <3>1 DEF Request, Goto, PoolTypeOK, PCs
    <3>3. HoldingOK'
      BY <2>1 DEF Request, At, Goto, PoolTypeOK, HoldingOK
    <3> QED BY <3>1, <3>2, <3>3
  <2>2. CASE Grant(r)
    <3>1. r = Head(pending) /\ pending # <<>> /\ pc[r] \in Waiting
      BY <2>2, HeadWaits DEF Grant
    <3>2. PICK c \in Free :
             IF At(r, "connect")
             THEN /\ main' = [main EXCEPT ![r] = c]
                  /\ Goto(r, "run")
                  /\ UNCHANGED extra
             ELSE /\ extra' = [extra EXCEPT ![r] = c]
                  /\ Goto(r, "probe")
                  /\ UNCHANGED main
      BY <2>2 DEF Grant
    <3>3. c \in Clients /\ c # None
      BY <3>2 DEF Free
    <3>4. QueueOK' /\ pending' \in Seq(Requests)
      <4>1. CASE At(r, "connect")
        BY <2>2, <3>1, <3>2, <4>1, TailKeepsQueue DEF Grant
      <4>2. CASE ~At(r, "connect")
        BY <2>2, <3>1, <3>2, <4>2, TailKeepsQueue DEF Grant
      <4> QED BY <4>1, <4>2
    <3>5. PoolTypeOK'
      <4>1. CASE At(r, "connect")
        BY <2>2, <3>2, <3>3, <3>4, <4>1 DEF Grant, Goto, PoolTypeOK, PCs
      <4>2. CASE ~At(r, "connect")
        BY <2>2, <3>2, <3>3, <3>4, <4>2 DEF Grant, Goto, PoolTypeOK, PCs
      <4> QED BY <4>1, <4>2
    <3>6. HoldingOK'
      <4>1. CASE At(r, "connect")
        BY <2>2, <3>2, <3>3, <4>1 DEF Grant, At, Goto, PoolTypeOK, HoldingOK
      <4>2. CASE ~At(r, "connect")
        BY <2>2, <3>1, <3>2, <3>3, <4>2 DEF Grant, At, Goto, PoolTypeOK, HoldingOK, Waiting
      <4> QED BY <4>1, <4>2
    <3> QED BY <3>4, <3>5, <3>6
  <2>3. ASSUME Release(r), pc[r] \notin Waiting PROVE PoolInv'
    <3>1. QueueOK'
      BY <2>3, OthersKeepQueue DEF Release
    <3>2. PoolTypeOK'
      BY <2>3 DEF Release, Goto, PoolTypeOK, PCs
    <3>3. HoldingOK'
      BY <2>3 DEF Release, Goto, PoolTypeOK, HoldingOK
    <3> QED BY <3>1, <3>2, <3>3
  <2>4. CASE Finish(r)
    BY <2>3, <2>4 DEF Finish, At, Waiting
  <2>5. CASE AskWindow(r)
    <3>1. QueueOK' /\ pending' \in Seq(Requests)
      BY <2>5, ConnectKeepsQueue DEF AskWindow, At, Waiting
    <3>2. PoolTypeOK'
      BY <2>5, <3>1 DEF AskWindow, Goto, PoolTypeOK, PCs
    <3>3. HoldingOK'
      BY <2>5 DEF AskWindow, ReadsThroughPool, At, Goto, PoolTypeOK, HoldingOK
    <3> QED BY <3>1, <3>2, <3>3
  <2>6. CASE ReadWindow(r)
    <3>1. QueueOK'
      BY <2>6, OthersKeepQueue DEF ReadWindow, At, Waiting
    <3>2. PoolTypeOK'
      BY <2>6 DEF ReadWindow, Goto, PoolTypeOK, PCs
    <3>3. HoldingOK'
      BY <2>6 DEF ReadWindow, At, Goto, PoolTypeOK, HoldingOK
    <3> QED BY <3>1, <3>2, <3>3
  <2>7. ASSUME LocksRow(r), UNCHANGED <<main, extra, pending, kind>>,
               rowLock' \in {rowLock, r}
        PROVE  PoolInv'
    <3>1. QueueOK'
      BY <2>7, OthersKeepQueue DEF LocksRow, At, Waiting
    <3>2. PoolTypeOK'
      BY <2>7 DEF LocksRow, Goto, PoolTypeOK, PCs
    <3>3. HoldingOK'
      BY <2>7 DEF LocksRow, At, Goto, PoolTypeOK, HoldingOK
    <3> QED BY <3>1, <3>2, <3>3
  <2>8. CASE LockRow(r)
    BY <2>7, <2>8 DEF LockRow
  <2>9. CASE NoRow(r)
    BY <2>7, <2>9 DEF NoRow
  <2>10. CASE Fail(r)
    BY <2>3, <2>10 DEF Fail, Waiting
  <2>11. CASE ConnectFails(r)
    <3>1. r = Head(pending) /\ pending # <<>> /\ pc[r] \in Waiting
      BY <2>11, HeadWaits DEF ConnectFails
    <3>2. QueueOK' /\ pending' \in Seq(Requests)
      BY <2>11, <3>1, TailKeepsQueue DEF ConnectFails
    <3>3. PoolTypeOK'
      BY <2>11, <3>2 DEF ConnectFails, Goto, PoolTypeOK, PCs
    <3>4. HoldingOK'
      BY <2>11, <3>1 DEF ConnectFails, Goto, PoolTypeOK, HoldingOK, Waiting
    <3> QED BY <3>2, <3>3, <3>4
  <2> QED
    BY <1>2, <2>1, <2>2, <2>4, <2>5, <2>6, <2>8, <2>9, <2>10, <2>11 DEF Step
<1> QED BY <1>1, <1>2 DEF PoolNext

\* The count: clients all held by requests that wait for another would be at
\* most as many as the requests that can edit.
LEMMA HoldersCount ==
    ASSUME FewerEditorsThanClients, PoolInv
    PROVE  HolderCanGoOn
<1> SUFFICES ASSUME Free = {},
                    \A r \in Requests : main[r] # None => At(r, "window")
             PROVE  FALSE
  BY DEF HolderCanGoOn
<1> DEFINE Held == {main[r] : r \in Editors}
<1>1. \A c \in Clients : \E r \in Requests : main[r] = c
  <2> SUFFICES ASSUME NEW c \in Clients PROVE \E r \in Requests : main[r] = c
    OBVIOUS
  <2>1. PICK r \in Requests : main[r] = c \/ extra[r] = c
    BY DEF Free
  <2>2. CASE extra[r] = c
    BY <2>2, PoolAssumption DEF PoolInv, HoldingOK, At
  <2> QED BY <2>1, <2>2
<1>2. Clients \subseteq Held
  BY <1>1, PoolAssumption DEF PoolInv, HoldingOK, At, Editors
<1>3. IsFiniteSet(Editors) /\ IsFiniteSet(Clients)
  BY DEF FewerEditorsThanClients
<1>4. IsFiniteSet(Held) /\ Cardinality(Held) <= Cardinality(Editors)
  <2> DEFINE held == [r \in Editors |-> main[r]]
  <2>1. held \in Surjection(Editors, Held)
    BY DEF Surjection
  <2> HIDE DEF held, Held
  <2> QED BY <2>1, <1>3, FS_Surjection
<1>5. Cardinality(Clients) <= Cardinality(Held)
  BY <1>2, <1>4, FS_Subset
<1>6. /\ Cardinality(Clients) \in Nat
      /\ Cardinality(Held) \in Nat
      /\ Cardinality(Editors) \in Nat
  BY <1>3, <1>4, FS_CardinalityType
<1> QED BY <1>4, <1>5, <1>6 DEF FewerEditorsThanClients

-----------------------------------------------------------------------------

\* Types and the shape of the wait queue hold in every reachable state, for any
\* number of clients and requests.
THEOREM PoolTyping ==
    PoolSpec => []PoolTypeOK
<1>1. PoolSpec => []PoolInv
  <2>1. PoolInit => PoolInv
    BY PoolInitially
  <2>2. PoolInv /\ [PoolNext]_poolVars => PoolInv'
    BY PoolInductive
  <2> QED BY <2>1, <2>2, PTL DEF PoolSpec
<1>2. PoolInv => PoolTypeOK
  BY DEF PoolInv
<1> QED BY <1>1, <1>2, PTL

\* With fewer editors of sessions than clients (config/pg.js: max 5), the pool
\* always has a client to give or a holder that can go on: updateSchedule's
\* second connect() (domains/schedule/use-cases.js) then never starves the pool.
THEOREM NeverExhausted ==
    ASSUME FewerEditorsThanClients
    PROVE  PoolSpec => []HolderCanGoOn
<1>1. PoolSpec => []PoolInv
  <2>1. PoolInit => PoolInv
    BY PoolInitially
  <2>2. PoolInv /\ [PoolNext]_poolVars => PoolInv'
    BY PoolInductive
  <2> QED BY <2>1, <2>2, PTL DEF PoolSpec
<1>2. PoolInv => HolderCanGoOn
  BY HoldersCount
<1> QED BY <1>1, <1>2, PTL
=============================================================================
