----------------------------- MODULE AuditChain -----------------------------
(***************************************************************************)
(* The tamper-evident audit trail: the append queue and the cached chain   *)
(* head of services/auditService.js in each server process, the table      *)
(* audit_log with its unique seq (services/audit-repository.pg.js,         *)
(* migration 029), verifyChain (services/audit-chain.js) and the retention *)
(* purge (jobs/retentionPurgeJob.js).                                      *)
(*                                                                         *)
(* The code assumes one process. A deployment still has two for a while,   *)
(* the old one draining its queue, and an INSERT of a process that died    *)
(* may reach the database after its successor has started: statements sent *)
(* and not yet executed are kept apart from the process that waits.        *)
(***************************************************************************)
EXTENDS Integers, Sequences

CONSTANTS Processes,
          Diffs,       \* the kinds of diff that callers hand to record()
          MaxEntries,  \* bound: calls of record() in a behaviour
          MAX_WINDOW,  \* rows verifyChain reads at most
          Null

\* "oneSided" is the diff of a key that only one side has: auditService.diff
\* makes it { before: undefined, after: v }, and the table keeps "afterOnly",
\* because JSON has no undefined.
ASSUME AuditAssumption ==
    /\ Diffs \subseteq {"both", "oneSided"}
    /\ MaxEntries \in Nat
    /\ MAX_WINDOW \in Nat \ {0}

VARIABLES log,      \* audit_log: the rows by seq
          wire,     \* rows sent to the database and not yet executed
          queue,    \* queue[p]: the entries whose append has not settled
          head,     \* head[p]: the cached chain head, or Null
          sent,     \* sent[p]: the row whose INSERT p waits for
          reply,    \* reply[p]: what the database answered, if p has sent a row
          recorded, \* number of calls of record() so far
          window,   \* the range verifyChain has decided to read, or Null
          verdict   \* what the last verification said

memory == <<queue, head, sent, reply>>
audit  == <<window, verdict>>
vars   == <<log, wire, memory, recorded, audit>>

Entry == [by : Processes, n : 1..MaxEntries, diff : Diffs]

GENESIS == <<>>

\* sha256 of a row's content, its seq and its backlink: collision-free here.
Digest(entry, seq, prev) == <<entry, seq, prev>>

\* What a read returns of the entry that was hashed: jsonb drops undefined.
Stored(entry) ==
    [entry EXCEPT !.diff = IF @ = "oneSided" THEN "afterOnly" ELSE @]

Newest == CHOOSE s \in DOMAIN log : \A t \in DOMAIN log : t <= s

\* findChainHead, or the genesis head of an empty table.
ChainHead ==
    IF DOMAIN log = {} THEN [seq |-> 0, hash |-> GENESIS]
    ELSE [seq |-> Newest, hash |-> log[Newest].hash]

TypeOK ==
    /\ DOMAIN log \subseteq Nat \ {0}
    /\ \A row \in wire : row.seq \in Nat \ {0} /\ row.entry \in Entry
    /\ queue \in [Processes -> Seq(Entry)]
    /\ DOMAIN head = Processes /\ DOMAIN sent = Processes
    /\ \A p \in Processes : head[p] # Null => head[p].seq \in Nat
    /\ reply \in [Processes -> {"none", "waiting", "ok", "duplicate"}]
    /\ recorded \in 0..MaxEntries
    /\ window # Null => window.from \in Int /\ window.to \in Int
    /\ verdict \in {"none", "ok", "broken"}

Init ==
    /\ log = <<>>
    /\ wire = {}
    /\ queue = [p \in Processes |-> <<>>]
    /\ head = [p \in Processes |-> Null]
    /\ sent = [p \in Processes |-> Null]
    /\ reply = [p \in Processes |-> "none"]
    /\ recorded = 0
    /\ window = Null
    /\ verdict = "none"

\* Mutant: the newest entry is appended first.
EnqueuedFirst(p, entry) == <<entry>> \o queue[p]

\* The promise chain: an append runs after those recorded before it.
Enqueued(p, entry) == Append(queue[p], entry)

Record(p) ==
    /\ recorded < MaxEntries
    /\ recorded' = recorded + 1
    /\ \E d \in Diffs :
          queue' = [queue EXCEPT ![p] =
                       Enqueued(p, [by |-> p, n |-> recorded + 1, diff |-> d])]
    /\ UNCHANGED <<log, wire, head, sent, reply, audit>>

Appending(p) == queue[p] # <<>> /\ reply[p] = "none"

\* appendChained, up to the head it works with.
LoadHead(p) ==
    /\ Appending(p)
    /\ head[p] = Null
    /\ head' = [head EXCEPT ![p] = ChainHead]
    /\ UNCHANGED <<log, wire, queue, sent, reply, recorded, audit>>

\* The row that follows a head.
RowAfter(h, entry) ==
    [seq |-> h.seq + 1, prev |-> h.hash, entry |-> entry,
     hash |-> Digest(entry, h.seq + 1, h.hash)]

SendInsert(p) ==
    /\ Appending(p)
    /\ head[p] # Null
    /\ LET row == RowAfter(head[p], Head(queue[p]))
       IN  /\ sent' = [sent EXCEPT ![p] = row]
           /\ wire' = wire \cup {row}
    /\ reply' = [reply EXCEPT ![p] = "waiting"]
    /\ UNCHANGED <<log, queue, head, recorded, audit>>

\* The database executes an INSERT, whether or not its sender still waits: the
\* unique index on seq refuses a second row of one number.
Refuses(row) == row.seq \in DOMAIN log

Inserted(row) ==
    [s \in DOMAIN log \cup {row.seq} |->
        IF s = row.seq THEN [row EXCEPT !.entry = Stored(@)] ELSE log[s]]

Execute(row) ==
    /\ row \in wire
    /\ wire' = wire \ {row}
    /\ log' = IF Refuses(row) THEN log ELSE Inserted(row)
    /\ reply' = [p \in Processes |->
                    IF reply[p] # "waiting" \/ sent[p] # row THEN reply[p]
                    ELSE IF Refuses(row) THEN "duplicate" ELSE "ok"]
    /\ UNCHANGED <<queue, head, sent, recorded, audit>>

\* The append of the first entry settles, leaving the given head.
Settle(p, newHead) ==
    /\ queue' = [queue EXCEPT ![p] = Tail(@)]
    /\ head' = [head EXCEPT ![p] = newHead]
    /\ sent' = [sent EXCEPT ![p] = Null]
    /\ reply' = [reply EXCEPT ![p] = "none"]
    /\ UNCHANGED <<log, wire, recorded, audit>>

\* The cached head advances once the write has landed.
Acknowledge(p) ==
    /\ reply[p] = "ok"
    /\ Settle(p, [seq |-> sent[p].seq, hash |-> sent[p].hash])

\* Mutant: the head advances although the write was refused.
HeadAfterError(p) ==
    IF reply[p] = "none" THEN Null ELSE [seq |-> sent[p].seq, hash |-> sent[p].hash]

\* The catch of record(): the next append reads the head again.
ResyncedHead(p) == Null

\* The append fails: the head cannot be read, the row is invalid or a
\* duplicate, or the connection breaks, before the INSERT is executed or after.
AppendFails(p) ==
    /\ queue[p] # <<>>
    /\ Settle(p, ResyncedHead(p))

\* The process ends; what it sent may still be executed.
Crash(p) ==
    /\ queue' = [queue EXCEPT ![p] = <<>>]
    /\ head' = [head EXCEPT ![p] = Null]
    /\ sent' = [sent EXCEPT ![p] = Null]
    /\ reply' = [reply EXCEPT ![p] = "none"]
    /\ UNCHANGED <<log, wire, recorded, audit>>

\* Rows of up to seq s are past the retention. created_at follows seq, and the
\* retention is years: the newest row is not that old, nor is a row that some
\* process is about to number.
PastRetention(s) ==
    /\ s \in DOMAIN log
    /\ s # Newest
    /\ \A p \in Processes : head[p] # Null => s <= head[p].seq
    /\ \A row \in wire : s < row.seq

\* Mutant: the purge takes the rows of one day and forgets those before it.
OnlyNot(s) == {t \in DOMAIN log : t # s}

Survivors(s) == {t \in DOMAIN log : s < t}

Purge(s) ==
    /\ PastRetention(s)
    /\ log' = [t \in Survivors(s) |-> log[t]]
    /\ UNCHANGED <<wire, memory, recorded, audit>>

AtMost(x, y) == IF x < y THEN x ELSE y

\* verifyChain reads the head, fixes the range ...
VerifyHead(from, to) ==
    /\ window = Null
    /\ DOMAIN log # {}
    /\ LET last  == AtMost(to, Newest)
           first == IF last - from + 1 > MAX_WINDOW THEN last - MAX_WINDOW + 1 ELSE from
       IN  window' = [from |-> first, to |-> last]
    /\ UNCHANGED <<log, wire, memory, recorded, verdict>>

InWindow == {s \in DOMAIN log : window.from <= s /\ s <= window.to}

SelfHashed(s) == log[s].hash = Digest(log[s].entry, s, log[s].prev)

LinkedBack(s) == s - 1 \in InWindow /\ log[s].prev = log[s - 1].hash

\* Mutant: the first row of the window has to be linked, too.
NeverFirst(s) == s = 1

\* The backlink of the first row that was read is skipped.
FirstOfWindow(s) == \A t \in InWindow : s <= t

\* ... and reads the rows of the range, which is when it sees them.
VerifyRows ==
    /\ window # Null
    /\ verdict' = IF \A s \in InWindow : SelfHashed(s) /\ (FirstOfWindow(s) \/ LinkedBack(s))
                  THEN "ok" ELSE "broken"
    /\ window' = Null
    /\ UNCHANGED <<log, wire, memory, recorded>>

Next ==
    \/ \E p \in Processes :
          \/ Record(p) \/ LoadHead(p) \/ SendInsert(p)
          \/ Acknowledge(p) \/ AppendFails(p) \/ Crash(p)
    \/ \E row \in wire : Execute(row)
    \/ \E s \in DOMAIN log : Purge(s)
    \/ \E from, to \in 1..MaxEntries : VerifyHead(from, to)
    \/ VerifyRows

Spec == Init /\ [][Next]_vars

-----------------------------------------------------------------------------
(* Properties.                                                             *)

\* The surviving rows are numbered without a gap and each names the row before
\* it, whatever processes append with whatever cached head (auditService.js).
ChainLinked ==
    \A s \in DOMAIN log :
        s # Newest => s + 1 \in DOMAIN log /\ log[s + 1].prev = log[s].hash

\* verifyChain never reports a trail that only the service has written and only
\* the retention has shortened (audit-chain.js), whenever it reads.
NoFalseAlarm == verdict # "broken"

\* The entries of one process are in the trail in the order of its record()
\* calls (the append queue of auditService.js), across errors and restarts.
RecordedInOrder ==
    \A s, t \in DOMAIN log :
        log[s].entry.by = log[t].entry.by /\ s < t => log[s].entry.n < log[t].entry.n

Trail == INSTANCE Ledger WITH Genesis <- GENESIS

\* Every step of queues, caches, failures and purges appends one row to the end
\* of the ledger, drops its oldest rows or leaves it alone (audit-repository.pg.js).
RefinesLedger == Trail!Spec
=============================================================================
