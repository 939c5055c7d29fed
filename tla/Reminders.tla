------------------------------ MODULE Reminders ------------------------------
(***************************************************************************)
(* "Your class starts soon": sendUpcomingReminders                         *)
(* (services/reminderService.js) and the claim it keeps in                 *)
(* schedules.reminders_sent_at (domains/schedule/repository.pg.js). The    *)
(* external pinger may start a run while another one is still sending, a   *)
(* run may die at any await, and the mail server may answer late, with a   *)
(* refusal, or not at all.                                                 *)
(*                                                                         *)
(* Every session is within the window of the runs until it starts.         *)
(***************************************************************************)
EXTENDS Naturals, FiniteSets

CONSTANTS Runs,        \* runs that may be under way at once
          Sessions,
          People,
          Enrolled,    \* Enrolled[s]: those on the roster of s with an address
          MaxStamps,   \* bound: claim stamps, that is runs started
          CONCURRENCY, \* sessions a run sends for at a time
          LateMail,    \* may a mail arrive after its send has timed out?
          SharedStamp  \* may two runs start within one millisecond?

ASSUME RemindersAssumption ==
    /\ Enrolled \in [Sessions -> SUBSET People]
    /\ MaxStamps \in Nat /\ CONCURRENCY \in Nat \ {0}
    /\ LateMail \in BOOLEAN /\ SharedStamp \in BOOLEAN

VARIABLES stamp,    \* stamp[s]: reminders_sent_at of the session, 0 for NULL
          live,     \* live[s]: scheduled and not yet started
          clock,    \* the last stamp taken
          pc, mine, \* mine[r]: the claim stamp of run r
          todo,     \* todo[r]: claimed sessions r has not begun to send for
          sends,    \* sends[r][s][u]: the send to u, of a session under way
          failed,   \* failed[r]: sessions whose claim r will give back
          stray,    \* mails on their way that no run waits for
          received, \* received[s][u]: mails u got about s (two means "more")
          dead      \* history: stamps of runs that died

run  == <<pc, mine, todo, sends, failed>>
vars == <<stamp, live, clock, run, stray, received, dead>>

Results == {"none", "flying", "ok", "null"}
Idle    == [s \in Sessions |-> [u \in People |-> "none"]]

TypeOK ==
    /\ stamp \in [Sessions -> 0..MaxStamps]
    /\ live \in [Sessions -> BOOLEAN]
    /\ clock \in 0..MaxStamps
    /\ pc \in [Runs -> {"idle", "fetch", "send"}]
    /\ mine \in [Runs -> 0..MaxStamps]
    /\ todo \in [Runs -> SUBSET Sessions]
    /\ sends \in [Runs -> [Sessions -> [People -> Results]]]
    /\ failed \in [Runs -> SUBSET Sessions]
    /\ stray \subseteq Runs \X Sessions \X People
    /\ received \in [Sessions -> [People -> 0..2]]
    /\ dead \subseteq 1..MaxStamps

Init ==
    /\ stamp = [s \in Sessions |-> 0]
    /\ live = [s \in Sessions |-> TRUE]
    /\ clock = 0
    /\ pc = [r \in Runs |-> "idle"]
    /\ mine = [r \in Runs |-> 0]
    /\ todo = [r \in Runs |-> {}]
    /\ sends = [r \in Runs |-> Idle]
    /\ failed = [r \in Runs |-> {}]
    /\ stray = {}
    /\ received = [s \in Sessions |-> [u \in People |-> 0]]
    /\ dead = {}

\* A session is cancelled, or it starts.
Ends(s) ==
    /\ live[s]
    /\ live' = [live EXCEPT ![s] = FALSE]
    /\ UNCHANGED <<stamp, clock, run, stray, received, dead>>

\* Mutant: the claim takes sessions that were reminded before.
AnyUpcoming(s) == live[s]

\* claimUpcomingReminders: live and reminders_sent_at IS NULL.
Unclaimed(s) == live[s] /\ stamp[s] = 0

\* new Date(): later than that of every run before, or the same.
NewStamp(t) == t = clock + 1 \/ (SharedStamp /\ t = clock /\ t # 0)

Claim(r) ==
    /\ pc[r] = "idle"
    /\ \E t \in 1..MaxStamps :
          /\ NewStamp(t)
          /\ clock' = t
          /\ mine' = [mine EXCEPT ![r] = t]
          /\ stamp' = [s \in Sessions |-> IF Unclaimed(s) THEN t ELSE stamp[s]]
    /\ pc' = [pc EXCEPT ![r] = "fetch"]
    /\ UNCHANGED <<live, todo, sends, failed, stray, received, dead>>

\* findClaimedForReminder: by stamp alone.
Fetch(r) ==
    /\ pc[r] = "fetch"
    /\ todo' = [todo EXCEPT ![r] = {s \in Sessions : stamp[s] = mine[r]}]
    /\ pc' = [pc EXCEPT ![r] = "send"]
    /\ UNCHANGED <<stamp, live, clock, mine, sends, failed, stray, received, dead>>

UnderWay(r) == {s \in Sessions : \E u \in People : sends[r][s][u] # "none"}

\* A runner of mapWithConcurrency takes the next session and sends to all its
\* recipients at once; with no recipient the session counts as handled.
StartSession(r, s) ==
    /\ s \in todo[r]
    /\ Cardinality(UnderWay(r)) < CONCURRENCY
    /\ todo' = [todo EXCEPT ![r] = @ \ {s}]
    /\ sends' = [sends EXCEPT ![r][s] =
                    [u \in People |-> IF u \in Enrolled[s] THEN "flying" ELSE "none"]]
    /\ UNCHANGED <<stamp, live, clock, pc, mine, failed, stray, received, dead>>

Arrives(s, u) ==
    received' = [received EXCEPT ![s][u] = IF @ = 0 THEN 1 ELSE 2]

\* The mail server accepts or refuses the mail while the run waits; safeSend
\* turns the refusal into null.
Answered(r, s, u) ==
    /\ sends[r][s][u] = "flying"
    /\ \/ /\ sends' = [sends EXCEPT ![r][s][u] = "ok"]
          /\ Arrives(s, u)
       \/ /\ sends' = [sends EXCEPT ![r][s][u] = "null"]
          /\ UNCHANGED received
    /\ UNCHANGED <<stamp, live, clock, pc, mine, todo, failed, stray, dead>>

\* Mutant: no race against a timer.
NoTimer(r, s, u) == FALSE

\* withTimeout: the send counts as failed; the mail itself is not recalled.
TimesOut(r, s, u) ==
    /\ sends[r][s][u] = "flying"
    /\ sends' = [sends EXCEPT ![r][s][u] = "null"]
    /\ stray' = IF LateMail THEN stray \cup {<<r, s, u>>} ELSE stray
    /\ UNCHANGED <<stamp, live, clock, pc, mine, todo, failed, received, dead>>

\* A mail nobody waits for arrives after all, or never.
StrayMail(r, s, u) ==
    /\ <<r, s, u>> \in stray
    /\ stray' = stray \ {<<r, s, u>>}
    /\ Arrives(s, u) \/ UNCHANGED received
    /\ UNCHANGED <<stamp, live, clock, run, dead>>

\* Mutant: no failure counts as total.
NoFailure(r, s) == FALSE

TotalFailure(r, s) == \A u \in Enrolled[s] : sends[r][s][u] = "null"

\* All sends of the session have settled.
FinishSession(r, s) ==
    /\ s \in UnderWay(r)
    /\ \A u \in People : sends[r][s][u] # "flying"
    /\ failed' = IF TotalFailure(r, s) THEN [failed EXCEPT ![r] = @ \cup {s}] ELSE failed
    /\ sends' = [sends EXCEPT ![r][s] = [u \in People |-> "none"]]
    /\ UNCHANGED <<stamp, live, clock, pc, mine, todo, stray, received, dead>>

\* rollbackReminderClaim, by id, and the end of the run.
FinishRun(r) ==
    /\ pc[r] = "send"
    /\ todo[r] = {} /\ UnderWay(r) = {}
    /\ stamp' = [s \in Sessions |-> IF s \in failed[r] THEN 0 ELSE stamp[s]]
    /\ failed' = [failed EXCEPT ![r] = {}]
    /\ pc' = [pc EXCEPT ![r] = "idle"]
    /\ UNCHANGED <<live, clock, mine, todo, sends, stray, received, dead>>

\* A query fails or the process ends: what was claimed stays claimed, and mails
\* on their way are no longer waited for.
Die(r) ==
    /\ pc[r] # "idle"
    /\ pc' = [pc EXCEPT ![r] = "idle"]
    /\ todo' = [todo EXCEPT ![r] = {}]
    /\ failed' = [failed EXCEPT ![r] = {}]
    /\ sends' = [sends EXCEPT ![r] = Idle]
    /\ stray' = stray \cup {m \in {r} \X Sessions \X People : sends[r][m[2]][m[3]] = "flying"}
    /\ dead' = dead \cup {mine[r]}
    /\ UNCHANGED <<stamp, live, clock, mine, received>>

Send(r) ==
    \E s \in Sessions :
        \/ StartSession(r, s) \/ FinishSession(r, s)
        \/ \E u \in People :
              Answered(r, s, u) \/ TimesOut(r, s, u) \/ StrayMail(r, s, u)

Next ==
    \/ \E s \in Sessions : Ends(s)
    \/ \E r \in Runs : Claim(r) \/ Fetch(r) \/ Send(r) \/ FinishRun(r) \/ Die(r)

\* The database answers, the runners go on and the timers of withTimeout fire.
\* Nothing makes the mail server answer.
Fairness ==
    \A r \in Runs :
        /\ WF_vars(Fetch(r))
        /\ WF_vars(FinishRun(r))
        /\ \A s \in Sessions :
              /\ WF_vars(StartSession(r, s))
              /\ WF_vars(FinishSession(r, s))
              /\ \A u \in People : WF_vars(TimesOut(r, s, u))

Spec == Init /\ [][Next]_vars /\ Fairness

-----------------------------------------------------------------------------
(* Properties.                                                             *)

\* Nobody is reminded twice of one session, however many runs overlap, die or
\* give sessions back (reminderService.js, remindersSentAt).
RemindedOnce == \A s \in Sessions, u \in People : received[s][u] < 2

\* A session whose claim stays is announced to somebody, has nobody to tell, or
\* belongs to a run that has not ended by itself: a total failure is retried.
ClaimIsHonoured ==
    \A s \in Sessions :
        stamp[s] # 0 =>
            \/ stamp[s] \in dead
            \/ \E r \in Runs : pc[r] # "idle" /\ mine[r] = stamp[s]
            \/ \E u \in Enrolled[s] : received[s][u] > 0
            \/ Enrolled[s] = {}

\* Every run comes to its end although the mail server may never answer.
RunEnds == \A r \in Runs : pc[r] # "idle" ~> pc[r] = "idle"

\* Nobody is reminded of a session that was cancelled or has begun.
OnlyUpcoming ==
    [][\A s \in Sessions :
          (\E u \in People : received'[s][u] > received[s][u]) => live[s]]_vars
=============================================================================
