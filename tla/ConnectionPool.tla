--------------------------- MODULE ConnectionPool ---------------------------
(***************************************************************************)
(* The bounded pool of PostgreSQL clients every request shares             *)
(* (config/pg.js), runInTransaction (domains/_shared/unit-of-work.js) and  *)
(* the one transaction body that asks the pool for a second client while   *)
(* it holds its own: updateSchedule validates the booking window with a    *)
(* statement of the pool (domains/schedule/use-cases.js).                  *)
(*                                                                         *)
(* pg-pool serves waiting callers in order, opens up to `max` clients and, *)
(* without connectionTimeoutMillis, lets a caller wait as long as it takes.*)
(* What the statements do is left out but for one row that transactions    *)
(* lock: a statement that needs it waits for the transaction that holds it.*)
(***************************************************************************)
EXTENDS Naturals, Sequences

CONSTANTS Clients,   \* the pool's clients; their number is `max`
          Requests,  \* request slots of the server
          Kinds,     \* Kinds[r]: the kinds of work request slot r does
          None

\* "query" is one statement on the pool, "tx" a transaction whose statements
\* all run on its own client, "edit" the transaction of updateSchedule.
Work == {"query", "tx", "edit"}

ASSUME PoolAssumption ==
    /\ Kinds \in [Requests -> SUBSET Work]
    /\ None \notin Clients \cup Requests

VARIABLES main,    \* main[r]: the client request r has checked out
          extra,   \* extra[r]: the second client it holds, if any
          pending, \* callers of connect() that wait for a client, oldest first
          rowLock, \* the request whose transaction holds the row
          kind,    \* kind[r]: what request r does
          pc

poolVars == <<main, extra, pending, rowLock, kind, pc>>

PCs == {"idle", "connect", "run", "window", "probe", "write", "commit"}

PoolTypeOK ==
    /\ main \in [Requests -> Clients \cup {None}]
    /\ extra \in [Requests -> Clients \cup {None}]
    /\ pending \in Seq(Requests)
    /\ rowLock \in Requests \cup {None}
    /\ kind \in [Requests -> Work]
    /\ pc \in [Requests -> PCs]

PoolInit ==
    /\ main = [r \in Requests |-> None]
    /\ extra = [r \in Requests |-> None]
    /\ pending = <<>>
    /\ rowLock = None
    /\ kind = [r \in Requests |-> "query"]
    /\ pc = [r \in Requests |-> "idle"]

At(r, label) == pc[r] = label

Goto(r, label) == pc' = [pc EXCEPT ![r] = label]

Free == Clients \ ({main[r] : r \in Requests} \cup {extra[r] : r \in Requests})

\* connect(): every caller joins the queue.
Connect(r) == pending' = Append(pending, r)

Request(r) ==
    /\ At(r, "idle")
    /\ \E w \in Kinds[r] : kind' = [kind EXCEPT ![r] = w]
    /\ Connect(r)
    /\ Goto(r, "connect")
    /\ UNCHANGED <<main, extra, rowLock>>

\* The head of the queue gets a client as soon as one is free.
Grant(r) ==
    /\ pending # <<>>
    /\ r = Head(pending)
    /\ pending' = Tail(pending)
    /\ \E c \in Free :
          IF At(r, "connect")
          THEN /\ main' = [main EXCEPT ![r] = c]
               /\ Goto(r, "run")
               /\ UNCHANGED extra
          ELSE /\ extra' = [extra EXCEPT ![r] = c]
               /\ Goto(r, "probe")
               /\ UNCHANGED main
    /\ UNCHANGED <<rowLock, kind>>

\* Mutant: the client goes back to the pool without COMMIT or ROLLBACK.
ReleaseOpen(r) ==
    /\ main' = [main EXCEPT ![r] = None]
    /\ extra' = [extra EXCEPT ![r] = None]
    /\ Goto(r, "idle")
    /\ UNCHANGED <<pending, rowLock, kind>>

\* COMMIT or ROLLBACK and the finally block: the row and the clients are free.
Release(r) ==
    /\ main' = [main EXCEPT ![r] = None]
    /\ extra' = [extra EXCEPT ![r] = None]
    /\ rowLock' = IF rowLock = r THEN None ELSE rowLock
    /\ Goto(r, "idle")
    /\ UNCHANGED <<pending, kind>>

\* A statement of its own (pool.query), or the last statement of a transaction.
Finish(r) ==
    /\ \/ At(r, "run") /\ kind[r] = "query"
       \/ At(r, "commit")
    /\ Release(r)

\* Mutant: every transaction validates a booking window through the pool.
EveryTransaction(r) == kind[r] # "query"

ReadsThroughPool(r) == kind[r] = "edit"

\* assertValidBookingWindow: a query of the pool inside the transaction.
AskWindow(r) ==
    /\ At(r, "run")
    /\ ReadsThroughPool(r)
    /\ Connect(r)
    /\ Goto(r, "window")
    /\ UNCHANGED <<main, extra, rowLock, kind>>

ReadWindow(r) ==
    /\ At(r, "probe")
    /\ extra' = [extra EXCEPT ![r] = None]
    /\ Goto(r, "write")
    /\ UNCHANGED <<main, pending, rowLock, kind>>

\* The statements that lock the row others lock, and those that do not.
LocksRow(r) ==
    /\ \/ At(r, "write")
       \/ At(r, "run") /\ kind[r] # "query" /\ ~ReadsThroughPool(r)
    /\ Goto(r, "commit")

LockRow(r) ==
    /\ LocksRow(r)
    /\ rowLock = None
    /\ rowLock' = r
    /\ UNCHANGED <<main, extra, pending, kind>>

NoRow(r) ==
    /\ LocksRow(r)
    /\ UNCHANGED <<main, extra, pending, rowLock, kind>>

\* A statement fails, on whichever client it runs.
Fail(r) ==
    /\ pc[r] \in {"run", "probe", "write", "commit"}
    /\ Release(r)

\* Opening a client for the head of the queue fails: connect() rejects.
ConnectFails(r) ==
    /\ pending # <<>>
    /\ r = Head(pending)
    /\ Free # {}
    /\ pending' = Tail(pending)
    /\ main' = [main EXCEPT ![r] = None]
    /\ rowLock' = IF rowLock = r THEN None ELSE rowLock
    /\ Goto(r, "idle")
    /\ UNCHANGED <<extra, kind>>

Step(r) ==
    \/ Request(r) \/ Grant(r) \/ Finish(r)
    \/ AskWindow(r) \/ ReadWindow(r) \/ LockRow(r) \/ NoRow(r)
    \/ Fail(r) \/ ConnectFails(r)

PoolNext == \E r \in Requests : Step(r)

\* The event loop resumes every request whose statement has answered, the pool
\* serves its queue, and PostgreSQL queues those who wait for a row, so none of
\* them is passed over for ever. Nobody has to send a request or to fail.
PoolFairness ==
    \A r \in Requests :
        /\ WF_poolVars(Grant(r))
        /\ WF_poolVars(Finish(r))
        /\ WF_poolVars(AskWindow(r))
        /\ WF_poolVars(ReadWindow(r))
        /\ SF_poolVars(LockRow(r))

PoolSpec == PoolInit /\ [][PoolNext]_poolVars /\ PoolFairness

-----------------------------------------------------------------------------
(* Properties.                                                             *)

\* Every request that asks the pool for a client (unit-of-work.js, pg.js)
\* is done at some time: no wait for a client or for a row lasts for ever.
Served == \A r \in Requests : ~At(r, "idle") ~> At(r, "idle")

\* The pool is never exhausted by transactions that wait for the pool: while
\* callers wait, a client is free or some holder of one can go on. updateSchedule
\* holds a client while it waits for another.
HolderCanGoOn ==
    pending # <<>> =>
        \/ Free # {}
        \/ \E r \in Requests : main[r] # None /\ ~At(r, "window")
=============================================================================
