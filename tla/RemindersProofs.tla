--------------------------- MODULE RemindersProofs ---------------------------
(* Proofs about Reminders, for any number of runs, sessions and people.     *)
EXTENDS Reminders, TLAPS

-----------------------------------------------------------------------------
(* What the assignments of the actions do, pointwise.                       *)

\* The send of run r to u about s settles as x.
Settles(r, s, u, x) == sends' = [sends EXCEPT ![r][s][u] = x]

\* One answer, or one timer, changes one send of the run.
LEMMA OneSend ==
  ASSUME TypeOK, NEW r \in Runs, NEW s \in Sessions, NEW u \in People, NEW x \in Results,
         Settles(r, s, u, x)
  PROVE  /\ sends' \in [Runs -> [Sessions -> [People -> Results]]]
         /\ \A q \in Runs, t \in Sessions, v \in People :
               sends'[q][t][v] = IF q = r /\ t = s /\ v = u THEN x ELSE sends[q][t][v]
  <1> DEFINE row == [sends[r][s] EXCEPT ![u] = x]
             all == [sends[r] EXCEPT ![s] = row]
  <1>1. sends[r] \in [Sessions -> [People -> Results]] /\ sends[r][s] \in [People -> Results]
    BY DEF TypeOK
  <1>2. row \in [People -> Results]
        /\ \A v \in People : row[v] = IF v = u THEN x ELSE sends[r][s][v]
    BY <1>1
  <1> HIDE DEF row
  <1>3. all \in [Sessions -> [People -> Results]]
        /\ \A t \in Sessions : all[t] = IF t = s THEN row ELSE sends[r][t]
    BY <1>1, <1>2
  <1>4. sends' = [sends EXCEPT ![r] = all]
    BY DEF row, Settles
  <1> HIDE DEF all
  <1> QED BY <1>2, <1>3, <1>4 DEF TypeOK

\* Beginning or finishing a session changes its row of sends.
LEMMA OneRow ==
  ASSUME TypeOK, NEW r \in Runs, NEW s \in Sessions, NEW row \in [People -> Results],
         sends' = [sends EXCEPT ![r][s] = row]
  PROVE  /\ sends' \in [Runs -> [Sessions -> [People -> Results]]]
         /\ \A q \in Runs, t \in Sessions, v \in People :
               sends'[q][t][v] = IF q = r /\ t = s THEN row[v] ELSE sends[q][t][v]
  <1> DEFINE all == [sends[r] EXCEPT ![s] = row]
  <1>1. sends[r] \in [Sessions -> [People -> Results]]
    BY DEF TypeOK
  <1>2. all \in [Sessions -> [People -> Results]]
        /\ \A t \in Sessions : all[t] = IF t = s THEN row ELSE sends[r][t]
    BY <1>1
  <1>3. sends' = [sends EXCEPT ![r] = all]
    OBVIOUS
  <1> HIDE DEF all
  <1> QED BY <1>2, <1>3 DEF TypeOK

\* A mail that arrives is counted once, for its recipient and session.
LEMMA OneMail ==
  ASSUME TypeOK, NEW s \in Sessions, NEW u \in People, Arrives(s, u)
  PROVE  /\ received' \in [Sessions -> [People -> 0..2]]
         /\ \A t \in Sessions, v \in People :
               received'[t][v] = IF t = s /\ v = u THEN (IF received[s][u] = 0 THEN 1 ELSE 2)
                                                   ELSE received[t][v]
  <1> DEFINE n == IF received[s][u] = 0 THEN 1 ELSE 2
             row == [received[s] EXCEPT ![u] = n]
  <1>1. n \in 0..2
    OBVIOUS
  <1>2. received[s] \in [People -> 0..2]
    BY DEF TypeOK
  <1>3. received' = [received EXCEPT ![s] = row]
    BY DEF Arrives
  <1> HIDE DEF n
  <1>4. row \in [People -> 0..2]
        /\ \A v \in People : row[v] = IF v = u THEN n ELSE received[s][v]
    BY <1>1, <1>2
  <1> HIDE DEF row
  <1>5. /\ received' \in [Sessions -> [People -> 0..2]]
        /\ \A t \in Sessions, v \in People :
               received'[t][v] = IF t = s /\ v = u THEN n ELSE received[t][v]
    BY <1>3, <1>4 DEF TypeOK
  <1> QED BY <1>5 DEF n

\* The row of a session that begins: one send for everybody on its roster.
LEMMA FirstRow ==
  ASSUME NEW s \in Sessions
  PROVE  [u \in People |-> IF u \in Enrolled[s] THEN "flying" ELSE "none"] \in [People -> Results]
  BY DEF Results

-----------------------------------------------------------------------------
(* The type invariant.                                                      *)

\* A run under way has taken a stamp: the stamps of the dead are stamps.
Stamped == \A r \in Runs : pc[r] # "idle" => mine[r] \in 1..MaxStamps

Typed == TypeOK /\ Stamped

\* Every action keeps the types, and a run takes its stamp before it does anything.
LEMMA TypedHolds == Spec => []Typed
  <1>1. Init => Typed
    BY RemindersAssumption DEF Init, Typed, Stamped, TypeOK, Idle, Results
  <1>2. Typed /\ [Next]_vars => Typed'
    <2> SUFFICES ASSUME Typed, [Next]_vars PROVE Typed'
      OBVIOUS
    <2> USE RemindersAssumption DEF Typed, Stamped, TypeOK, run
    <2>1. ASSUME NEW s \in Sessions, Ends(s) PROVE Typed'
      BY <2>1 DEF Ends
    <2>2. ASSUME NEW r \in Runs, Claim(r) PROVE Typed'
      BY <2>2 DEF Claim
    <2>3. ASSUME NEW r \in Runs, Fetch(r) PROVE Typed'
      BY <2>3 DEF Fetch
    <2>4. ASSUME NEW r \in Runs, NEW s \in Sessions, StartSession(r, s) PROVE Typed'
      BY <2>4, FirstRow, OneRow DEF StartSession
    <2>5. ASSUME NEW r \in Runs, NEW s \in Sessions, FinishSession(r, s) PROVE Typed'
      <3>1. [u \in People |-> "none"] \in [People -> Results]
        BY DEF Results
      <3>2. sends' \in [Runs -> [Sessions -> [People -> Results]]]
        BY <2>5, <3>1, OneRow DEF FinishSession
      <3> QED BY <2>5, <3>2 DEF FinishSession
    <2>6. ASSUME NEW r \in Runs, NEW s \in Sessions, NEW u \in People, Answered(r, s, u)
          PROVE  Typed'
      <3>1. sends' \in [Runs -> [Sessions -> [People -> Results]]]
        BY <2>6, OneSend DEF Answered, Settles, Results
      <3>2. received' \in [Sessions -> [People -> 0..2]]
        BY <2>6, OneMail DEF Answered
      <3> QED BY <2>6, <3>1, <3>2 DEF Answered
    <2>7. ASSUME NEW r \in Runs, NEW s \in Sessions, NEW u \in People, TimesOut(r, s, u)
          PROVE  Typed'
      <3>1. sends' \in [Runs -> [Sessions -> [People -> Results]]]
        BY <2>7, OneSend DEF TimesOut, Settles, Results
      <3> QED BY <2>7, <3>1 DEF TimesOut
    <2>8. ASSUME NEW r \in Runs, NEW s \in Sessions, NEW u \in People, StrayMail(r, s, u)
          PROVE  Typed'
      <3>1. received' \in [Sessions -> [People -> 0..2]]
        BY <2>8, OneMail DEF StrayMail
      <3> QED BY <2>8, <3>1 DEF StrayMail
    <2>9. ASSUME NEW r \in Runs, FinishRun(r) PROVE Typed'
      BY <2>9 DEF FinishRun
    <2>10. ASSUME NEW r \in Runs, Die(r) PROVE Typed'
      <3>1. sends' \in [Runs -> [Sessions -> [People -> Results]]]
        BY <2>10 DEF Die, Idle, Results
      <3>2. stray' \subseteq Runs \X Sessions \X People
        BY <2>10 DEF Die
      <3>3. dead' \subseteq 1..MaxStamps
        BY <2>10 DEF Die
      <3> QED BY <2>10, <3>1, <3>2, <3>3 DEF Die
    <2>11. CASE UNCHANGED vars
      BY <2>11 DEF vars
    <2> QED BY <2>1, <2>2, <2>3, <2>4, <2>5, <2>6, <2>7, <2>8, <2>9, <2>10, <2>11 DEF Next, Send
  <1> QED BY <1>1, <1>2, PTL DEF Spec

\* Claims, sends, answers, roll backs and deaths keep every variable in its
\* type, whether or not mails are late and stamps are shared.
THEOREM Typing == Spec => []TypeOK
  BY TypedHolds, PTL DEF Typed

-----------------------------------------------------------------------------
(* A claim that stays is honoured.                                          *)

\* Run r still has session s to deal with, under the stamp s carries.
Handling(r, s) ==
    /\ pc[r] # "idle" /\ mine[r] = stamp[s]
    /\ pc[r] = "send" => s \in todo[r] \cup UnderWay(r) \cup failed[r]

Honoured(s) ==
    \/ stamp[s] \in dead
    \/ Enrolled[s] = {}
    \/ \E u \in Enrolled[s] : received[s][u] > 0
    \/ \E r \in Runs : Handling(r, s)

\* What a send under way tells: "ok" only of a mail that arrived, and a session
\* under way is sent to everybody on its roster.
OkArrived == \A r \in Runs, s \in Sessions, u \in People :
                 sends[r][s][u] = "ok" => received[s][u] > 0
AllSent   == \A r \in Runs, s \in Sessions :
                 s \in UnderWay(r) => \A u \in Enrolled[s] : sends[r][s][u] # "none"

HonourInv == OkArrived /\ AllSent /\ \A s \in Sessions : stamp[s] # 0 => Honoured(s)

\* The mails counted only grow, so what is honoured by a mail stays honoured.
LEMMA MailsOnlyGrow ==
  ASSUME TypeOK, [Next]_vars, NEW s \in Sessions, NEW u \in People
  PROVE  received[s][u] > 0 => received'[s][u] > 0
  <1>1. ASSUME NEW t \in Sessions, NEW v \in People, Arrives(t, v)
        PROVE  received[s][u] > 0 => received'[s][u] > 0
    BY <1>1, OneMail
  <1>2. received' = received \/ \E t \in Sessions, v \in People : Arrives(t, v)
    <2>1. ASSUME NEW t \in Sessions, Ends(t) \/ \E r \in Runs : StartSession(r, t) \/ FinishSession(r, t)
          PROVE  received' = received
      BY <2>1 DEF Ends, StartSession, FinishSession
    <2>2. ASSUME NEW r \in Runs, Claim(r) \/ Fetch(r) \/ FinishRun(r) \/ Die(r)
          PROVE  received' = received
      BY <2>2 DEF Claim, Fetch, FinishRun, Die
    <2>3. ASSUME NEW r \in Runs, NEW t \in Sessions, NEW v \in People,
                 Answered(r, t, v) \/ TimesOut(r, t, v) \/ StrayMail(r, t, v)
          PROVE  received' = received \/ Arrives(t, v)
      BY <2>3 DEF Answered, TimesOut, StrayMail
    <2>4. CASE UNCHANGED vars
      BY <2>4 DEF vars
    <2> QED BY <2>1, <2>2, <2>3, <2>4 DEF Next, Send
  <1> QED BY <1>1, <1>2

\* No action drops a claim: it stays with its run, is told, is given back or is dead.
LEMMA HonourSteps == TypeOK /\ HonourInv /\ [Next]_vars => HonourInv'
  <1> SUFFICES ASSUME TypeOK, HonourInv, [Next]_vars PROVE HonourInv'
    OBVIOUS
  <1>a. \A s \in Sessions : Enrolled[s] \subseteq People
    BY RemindersAssumption
  <1>1. ASSUME NEW s \in Sessions, Ends(s) PROVE HonourInv'
    BY <1>1 DEF Ends, run, HonourInv, OkArrived, AllSent, Honoured, Handling, UnderWay
  <1>2. ASSUME NEW r \in Runs, Claim(r) PROVE HonourInv'
    <2>1. (OkArrived /\ AllSent)'
      BY <1>2 DEF Claim, HonourInv, OkArrived, AllSent, UnderWay
    <2>2. ASSUME NEW t \in Sessions, stamp'[t] # 0 PROVE Honoured(t)'
      <3>1. stamp[t] = 0 => Handling(r, t)'
        BY <1>2, <2>2 DEF Claim, TypeOK, Handling
      <3>2. stamp[t] # 0 => stamp'[t] = stamp[t]
        BY <1>2 DEF Claim, Unclaimed
      <3>3. \A q \in Runs : stamp[t] # 0 /\ Handling(q, t) => Handling(q, t)'
        BY <1>2, <3>2 DEF Claim, TypeOK, Handling, UnderWay
      <3> QED BY <1>2, <3>1, <3>2, <3>3 DEF Claim, HonourInv, Honoured
    <2> QED BY <2>1, <2>2 DEF HonourInv
  <1>3. ASSUME NEW r \in Runs, Fetch(r) PROVE HonourInv'
    <2>1. (OkArrived /\ AllSent)'
      BY <1>3 DEF Fetch, HonourInv, OkArrived, AllSent, UnderWay
    <2>2. ASSUME NEW t \in Sessions, stamp'[t] # 0 PROVE Honoured(t)'
      <3>1. \A q \in Runs : Handling(q, t) => Handling(q, t)'
        BY <1>3 DEF Fetch, TypeOK, Handling, UnderWay
      <3> QED BY <1>3, <2>2, <3>1 DEF Fetch, HonourInv, Honoured
    <2> QED BY <2>1, <2>2 DEF HonourInv
  <1>4. ASSUME NEW r \in Runs, NEW s \in Sessions, StartSession(r, s) PROVE HonourInv'
    <2> DEFINE row == [u \in People |-> IF u \in Enrolled[s] THEN "flying" ELSE "none"]
    <2>1. \A q \in Runs, t \in Sessions, v \in People :
             sends'[q][t][v] = IF q = r /\ t = s THEN row[v] ELSE sends[q][t][v]
      BY <1>4, FirstRow, OneRow DEF StartSession
    <2>2. (OkArrived /\ AllSent)'
      BY <1>a, <1>4, <2>1 DEF StartSession, HonourInv, OkArrived, AllSent, UnderWay
    <2>3. ASSUME NEW t \in Sessions, stamp'[t] # 0 PROVE Honoured(t)'
      <3>1. s \in UnderWay(r)' \/ Enrolled[s] = {}
        BY <1>a, <2>1 DEF UnderWay
      <3>2. \A q \in Runs : Handling(q, t) => Handling(q, t)' \/ Enrolled[t] = {}
        BY <1>4, <2>1, <3>1 DEF StartSession, TypeOK, Handling, UnderWay
      <3> QED BY <1>4, <2>3, <3>2 DEF StartSession, HonourInv, Honoured
    <2> QED BY <2>2, <2>3 DEF HonourInv
  <1>5. ASSUME NEW r \in Runs, NEW s \in Sessions, FinishSession(r, s) PROVE HonourInv'
    <2> DEFINE row == [u \in People |-> "none"]
    <2>1. \A q \in Runs, t \in Sessions, v \in People :
             sends'[q][t][v] = IF q = r /\ t = s THEN "none" ELSE sends[q][t][v]
      <3>1. row \in [People -> Results]
        BY DEF Results
      <3> QED BY <1>5, <3>1, OneRow DEF FinishSession
    <2>2. (OkArrived /\ AllSent)'
      BY <1>a, <1>5, <2>1 DEF FinishSession, HonourInv, OkArrived, AllSent, UnderWay
    <2>3. ASSUME NEW t \in Sessions, stamp'[t] # 0 PROVE Honoured(t)'
      <3>1. TotalFailure(r, s) \/ \E u \in Enrolled[s] : received[s][u] > 0
        BY <1>a, <1>5 DEF FinishSession, TotalFailure, HonourInv, OkArrived, AllSent, TypeOK, Results
      <3>2. \A q \in Runs : Handling(q, t) => Handling(q, t)' \/ (q = r /\ t = s /\ ~TotalFailure(r, s))
        BY <1>5, <2>1 DEF FinishSession, TypeOK, Handling, UnderWay
      <3> QED BY <1>5, <2>3, <3>1, <3>2 DEF FinishSession, HonourInv, Honoured
    <2> QED BY <2>2, <2>3 DEF HonourInv
  <1>6. ASSUME NEW r \in Runs, NEW s \in Sessions, NEW u \in People,
               Answered(r, s, u) \/ TimesOut(r, s, u)
        PROVE  HonourInv'
    <2>1. PICK x \in {"ok", "null"} :
             Settles(r, s, u, x) /\ (x = "ok" => Arrives(s, u))
      BY <1>6 DEF Answered, TimesOut, Settles
    <2>2. \A q \in Runs, t \in Sessions, v \in People :
             sends'[q][t][v] = IF q = r /\ t = s /\ v = u THEN x ELSE sends[q][t][v]
      <3>1. x \in Results
        BY DEF Results
      <3> QED BY <2>1, <3>1, OneSend
    <2>3. x = "ok" => received'[s][u] > 0
      BY <2>1, OneMail
    <2>4. \A q \in Runs : UnderWay(q)' = UnderWay(q)
      BY <1>6, <2>2 DEF UnderWay, Answered, TimesOut
    <2>5. OkArrived'
      BY <2>2, <2>3, MailsOnlyGrow DEF HonourInv, OkArrived
    <2>6. AllSent'
      BY <1>a, <2>2, <2>4 DEF HonourInv, AllSent
    <2>7. ASSUME NEW t \in Sessions, stamp'[t] # 0 PROVE Honoured(t)'
      BY <1>a, <1>6, <2>4, <2>7, MailsOnlyGrow
         DEF Answered, TimesOut, HonourInv, Honoured, Handling
    <2> QED BY <2>5, <2>6, <2>7 DEF HonourInv
  <1>7. ASSUME NEW r \in Runs, NEW s \in Sessions, NEW u \in People, StrayMail(r, s, u)
        PROVE  HonourInv'
    BY <1>a, <1>7, MailsOnlyGrow
       DEF StrayMail, run, HonourInv, OkArrived, AllSent, Honoured, Handling, UnderWay
  <1>8. ASSUME NEW r \in Runs, FinishRun(r) PROVE HonourInv'
    <2>1. (OkArrived /\ AllSent)'
      BY <1>8 DEF FinishRun, HonourInv, OkArrived, AllSent, UnderWay
    <2>2. ASSUME NEW t \in Sessions, stamp'[t] # 0 PROVE Honoured(t)'
      <3>1. t \notin failed[r] /\ stamp'[t] = stamp[t]
        BY <1>8, <2>2 DEF FinishRun
      <3>2. \A q \in Runs : Handling(q, t) => q # r /\ Handling(q, t)'
        BY <1>8, <3>1 DEF FinishRun, TypeOK, Handling, UnderWay
      <3> QED BY <1>8, <2>2, <3>1, <3>2 DEF FinishRun, HonourInv, Honoured
    <2> QED BY <2>1, <2>2 DEF HonourInv
  <1>9. ASSUME NEW r \in Runs, Die(r) PROVE HonourInv'
    <2>1. \A q \in Runs, t \in Sessions, v \in People :
             sends'[q][t][v] = IF q = r THEN "none" ELSE sends[q][t][v]
      BY <1>9 DEF Die, Idle, TypeOK
    <2>2. (OkArrived /\ AllSent)'
      BY <1>9, <2>1 DEF Die, HonourInv, OkArrived, AllSent, UnderWay
    <2>3. ASSUME NEW t \in Sessions, stamp'[t] # 0 PROVE Honoured(t)'
      <3>1. \A q \in Runs : Handling(q, t) => Handling(q, t)' \/ stamp[t] \in dead'
        BY <1>9, <2>1 DEF Die, TypeOK, Handling, UnderWay
      <3> QED BY <1>9, <2>3, <3>1 DEF Die, HonourInv, Honoured
    <2> QED BY <2>2, <2>3 DEF HonourInv
  <1>10. CASE UNCHANGED vars
    BY <1>10 DEF vars, run, HonourInv, OkArrived, AllSent, Honoured, Handling, UnderWay
  <1> QED
    BY <1>1, <1>2, <1>3, <1>4, <1>5, <1>6, <1>7, <1>8, <1>9, <1>10 DEF Next, Send

\* However the runs overlap, share a stamp or die, and however late the mails
\* are: a session whose claim stays was announced to somebody, has nobody to
\* tell, or belongs to a run that is under way or has died.
THEOREM ClaimHonoured == Spec => []ClaimIsHonoured
  <1>1. Init => HonourInv
    BY DEF Init, Idle, HonourInv, OkArrived, AllSent, UnderWay
  <1>2. HonourInv => ClaimIsHonoured
    BY DEF HonourInv, Honoured, Handling, ClaimIsHonoured
  <1> QED BY <1>1, <1>2, HonourSteps, Typing, PTL DEF Spec


-----------------------------------------------------------------------------
(* Nobody is reminded twice.                                                *)

\* Nothing was sent to u about s, and nothing is on its way.
Untouched(s, u) == received[s][u] = 0 /\ \A q \in Runs : <<q, s, u>> \notin stray

\* Nobody has begun to send for s: it is unclaimed, or the run that claimed it
\* has not fetched it, not begun with it, or will give it back.
Pristine(s) ==
    \/ stamp[s] = 0
    \/ \E r \in Runs : /\ pc[r] # "idle" /\ mine[r] = stamp[s]
                       /\ pc[r] = "send" => s \in todo[r] \cup failed[r]

\* The stamps of the runs under way differ, and none is the stamp of a dead run.
Stamps ==
    /\ \A s \in Sessions : stamp[s] <= clock
    /\ \A t \in dead : t \in 1..clock
    /\ \A r \in Runs : pc[r] # "idle" => mine[r] \in 1..clock /\ mine[r] \notin dead
    /\ \A r, q \in Runs : pc[r] # "idle" /\ pc[q] # "idle" /\ mine[r] = mine[q] => r = q

\* A run deals only with sessions that carry its stamp, and each of them is
\* waiting, under way or to be given back.
OwnWork ==
    \A r \in Runs :
        /\ pc[r] # "send" => todo[r] = {} /\ failed[r] = {} /\ UnderWay(r) = {}
        /\ \A s \in todo[r] \cup failed[r] \cup UnderWay(r) : stamp[s] = mine[r]
        /\ todo[r] \cap UnderWay(r) = {} /\ todo[r] \cap failed[r] = {}
        /\ failed[r] \cap UnderWay(r) = {}

PristineUntouched == \A s \in Sessions : Pristine(s) => \A u \in People : Untouched(s, u)

\* Of a session under way only those whose send went well got a mail.
SendsTrue ==
    \A r \in Runs, s \in Sessions, u \in People :
        /\ s \in UnderWay(r) /\ sends[r][s][u] # "ok" => Untouched(s, u)
        /\ sends[r][s][u] # "none" => u \in Enrolled[s]

\* A mail nobody waits for is the first and only one, of a run that died.
StraysOfDead ==
    \A r \in Runs, s \in Sessions, u \in People :
        <<r, s, u>> \in stray =>
            /\ stamp[s] \in dead /\ received[s][u] = 0
            /\ \A q \in Runs : <<q, s, u>> \in stray => q = r

OnceInv == Stamps /\ OwnWork /\ PristineUntouched /\ SendsTrue /\ StraysOfDead /\ RemindedOnce

\* Two runs never have the same session under way, and a session under way is
\* neither pristine nor one of a dead run.
LEMMA OneSender ==
  ASSUME TypeOK, OnceInv, NEW r \in Runs, NEW s \in Sessions, s \in UnderWay(r)
  PROVE  /\ pc[r] = "send" /\ mine[r] = stamp[s]
         /\ \A q \in Runs : s \in UnderWay(q) => q = r
         /\ ~Pristine(s) /\ stamp[s] \notin dead
  <1>1. pc[r] = "send" /\ mine[r] = stamp[s] /\ s \notin todo[r] \cup failed[r]
    BY DEF OnceInv, OwnWork
  <1>2. \A q \in Runs : s \in UnderWay(q) => pc[q] # "idle" /\ mine[q] = stamp[s]
    BY DEF OnceInv, OwnWork
  <1>3. stamp[s] # 0 /\ stamp[s] \notin dead
    BY <1>1 DEF OnceInv, Stamps
  <1>4. ASSUME NEW q \in Runs, pc[q] # "idle", mine[q] = stamp[s] PROVE q = r
    BY <1>1, <1>4 DEF OnceInv, Stamps
  <1> QED BY <1>1, <1>2, <1>3, <1>4 DEF Pristine

\* A new claim takes only sessions nobody has touched, under a stamp of its own.
LEMMA OnceClaim ==
  ASSUME ~SharedStamp, TypeOK, OnceInv, NEW r \in Runs, Claim(r)
  PROVE  OnceInv'
  <1>1. clock' = clock + 1 /\ mine'[r] = clock + 1 /\ \A q \in Runs : q # r => mine'[q] = mine[q]
    BY DEF Claim, NewStamp, TypeOK
  <1>2. \A s \in Sessions : stamp'[s] = IF Unclaimed(s) THEN clock + 1 ELSE stamp[s]
    BY <1>1 DEF Claim
  <1>3. /\ pc[r] = "idle" /\ pc'[r] = "fetch" /\ \A q \in Runs : q # r => pc'[q] = pc[q]
        /\ UNCHANGED <<todo, sends, failed, stray, received, dead>>
    BY DEF Claim, TypeOK
  <1>a. \A q \in Runs : UnderWay(q)' = UnderWay(q)
    BY <1>3 DEF UnderWay
  <1>4. Stamps'
    <2>1. clock \in Nat /\ \A s \in Sessions : stamp[s] \in Nat
      BY RemindersAssumption DEF TypeOK
    <2>2. \A s \in Sessions : stamp'[s] <= clock'
      BY <2>1, <1>1, <1>2 DEF Stamps, OnceInv
    <2>3. \A u \in dead' : u \in 1..clock'
      BY <2>1, <1>1, <1>3 DEF Stamps, OnceInv
    <2>4. \A q \in Runs : pc'[q] # "idle" => mine'[q] \in 1..clock' /\ mine'[q] \notin dead'
      BY <2>1, <1>1, <1>3 DEF Stamps, OnceInv
    <2>5. \A q, p \in Runs : pc'[q] # "idle" /\ pc'[p] # "idle" /\ mine'[q] = mine'[p] => q = p
      BY <2>1, <1>1, <1>3 DEF Stamps, OnceInv
    <2> QED BY <2>2, <2>3, <2>4, <2>5 DEF Stamps
  <1>5. OwnWork'
    <2> SUFFICES ASSUME NEW q \in Runs
                 PROVE  /\ pc'[q] # "send" => todo'[q] = {} /\ failed'[q] = {} /\ UnderWay(q)' = {}
                        /\ \A s \in todo'[q] \cup failed'[q] \cup UnderWay(q)' : stamp'[s] = mine'[q]
                        /\ todo'[q] \cap UnderWay(q)' = {} /\ todo'[q] \cap failed'[q] = {}
                        /\ failed'[q] \cap UnderWay(q)' = {}
      BY DEF OwnWork
    <2>1. CASE q = r
      BY <2>1, <1>3, <1>a DEF OnceInv, OwnWork
    <2>2. CASE q # r
      <3>1. \A s \in todo[q] \cup failed[q] \cup UnderWay(q) : s \in Sessions /\ stamp[s] = mine[q] /\ mine[q] # 0
        <4> SUFFICES ASSUME NEW s \in todo[q] \cup failed[q] \cup UnderWay(q)
                     PROVE  s \in Sessions /\ stamp[s] = mine[q] /\ mine[q] # 0
          OBVIOUS
        <4>1. s \in Sessions
          BY DEF TypeOK, UnderWay
        <4>2. stamp[s] = mine[q] /\ pc[q] = "send"
          BY DEF OnceInv, OwnWork
        <4>3. mine[q] \in 1..clock
          BY <4>2 DEF OnceInv, Stamps
        <4> QED BY <4>1, <4>2, <4>3 DEF TypeOK
      <3> QED BY <2>2, <3>1, <1>1, <1>2, <1>3, <1>a DEF Unclaimed, OnceInv, OwnWork
    <2> QED BY <2>1, <2>2
  <1>6. PristineUntouched'
    <2> SUFFICES ASSUME NEW s \in Sessions, Pristine(s)' PROVE Pristine(s)
      BY <1>3 DEF OnceInv, PristineUntouched, Untouched
    <2>1. CASE Unclaimed(s)
      BY <2>1 DEF Unclaimed, Pristine
    <2>2. CASE ~Unclaimed(s)
      <3>1. stamp'[s] = stamp[s] /\ stamp[s] # clock + 1
        BY <2>2, <1>2 DEF OnceInv, Stamps, TypeOK
      <3> QED BY <3>1, <1>1, <1>3 DEF Pristine
    <2> QED BY <2>1, <2>2
  <1>7. SendsTrue'
    BY <1>3, <1>a DEF OnceInv, SendsTrue, Untouched
  <1>8. StraysOfDead'
    <2>1. \A s \in Sessions : stamp[s] \in dead => stamp'[s] = stamp[s]
      BY <1>2 DEF Unclaimed, TypeOK
    <2> QED BY <2>1, <1>3 DEF OnceInv, StraysOfDead
  <1> QED BY <1>3, <1>4, <1>5, <1>6, <1>7, <1>8 DEF OnceInv, RemindedOnce

\* What a run fetches is what it claimed: still untouched.
LEMMA OnceFetch ==
  ASSUME TypeOK, OnceInv, NEW r \in Runs, Fetch(r)
  PROVE  OnceInv'
  <1>1. /\ pc[r] = "fetch" /\ pc'[r] = "send" /\ \A q \in Runs : q # r => pc'[q] = pc[q]
        /\ UNCHANGED <<stamp, clock, mine, sends, failed, stray, received, dead>>
        /\ \A q \in Runs : UnderWay(q)' = UnderWay(q)
    BY DEF Fetch, TypeOK, UnderWay
  <1>2. /\ todo'[r] = {s \in Sessions : stamp[s] = mine[r]}
        /\ \A q \in Runs : q # r => todo'[q] = todo[q]
    BY DEF Fetch, TypeOK
  <1>3. Stamps'
    BY <1>1 DEF Stamps, OnceInv
  <1>4. OwnWork'
    BY <1>1, <1>2 DEF OwnWork, OnceInv
  <1>5. \A s \in Sessions : Pristine(s)' => Pristine(s)
    BY <1>1, <1>2 DEF Pristine
  <1>6. PristineUntouched' /\ SendsTrue' /\ StraysOfDead' /\ RemindedOnce'
    BY <1>1, <1>5 DEF OnceInv, PristineUntouched, SendsTrue, StraysOfDead, Untouched, RemindedOnce
  <1> QED BY <1>3, <1>4, <1>6 DEF OnceInv

\* A session begins untouched, with a send to each of its recipients.
LEMMA OnceStart ==
  ASSUME TypeOK, OnceInv, NEW r \in Runs, NEW s \in Sessions, StartSession(r, s)
  PROVE  OnceInv'
  <1> DEFINE row == [u \in People |-> IF u \in Enrolled[s] THEN "flying" ELSE "none"]
  <1>1. \A q \in Runs, t \in Sessions, v \in People :
           sends'[q][t][v] = IF q = r /\ t = s THEN row[v] ELSE sends[q][t][v]
    BY FirstRow, OneRow DEF StartSession
  <1>2. /\ s \in todo[r] /\ todo'[r] = todo[r] \ {s} /\ \A q \in Runs : q # r => todo'[q] = todo[q]
        /\ UNCHANGED <<stamp, clock, pc, mine, failed, stray, received, dead>>
    BY DEF StartSession, TypeOK
  <1>3. /\ \A q \in Runs : q # r => UnderWay(q)' = UnderWay(q)
        /\ UnderWay(r)' \subseteq UnderWay(r) \cup {s}
    BY <1>1 DEF UnderWay
  <1>4. \A u \in People : Untouched(s, u)
    <2>1. Pristine(s)
      BY <1>2 DEF Pristine, OnceInv, OwnWork
    <2> QED BY <2>1 DEF OnceInv, PristineUntouched
  <1>5. Stamps'
    BY <1>2 DEF Stamps, OnceInv
  <1>6. OwnWork'
    BY <1>2, <1>3 DEF OwnWork, OnceInv
  <1>7. \A t \in Sessions : Pristine(t)' => Pristine(t)
    BY <1>2 DEF Pristine
  <1>8. PristineUntouched' /\ StraysOfDead' /\ RemindedOnce'
    BY <1>2, <1>7 DEF OnceInv, PristineUntouched, StraysOfDead, Untouched, RemindedOnce
  <1>9. SendsTrue'
    <2> SUFFICES ASSUME NEW q \in Runs, NEW t \in Sessions, NEW v \in People
                 PROVE  /\ t \in UnderWay(q)' /\ sends'[q][t][v] # "ok" => Untouched(t, v)
                        /\ sends'[q][t][v] # "none" => v \in Enrolled[t]
      BY <1>2 DEF SendsTrue, Untouched
    <2>1. CASE q = r /\ t = s
      BY <2>1, <1>1, <1>4
    <2>2. CASE ~(q = r /\ t = s)
      BY <2>2, <1>1, <1>3 DEF OnceInv, SendsTrue
    <2> QED BY <2>1, <2>2
  <1> QED BY <1>5, <1>6, <1>8, <1>9 DEF OnceInv

\* Only a session of which every send failed will be given back.
LEMMA OnceFinishSession ==
  ASSUME TypeOK, OnceInv, NEW r \in Runs, NEW s \in Sessions, FinishSession(r, s)
  PROVE  OnceInv'
  <1> DEFINE row == [u \in People |-> "none"]
  <1>1. \A q \in Runs, t \in Sessions, v \in People :
           sends'[q][t][v] = IF q = r /\ t = s THEN "none" ELSE sends[q][t][v]
    <2>1. row \in [People -> Results]
      BY DEF Results
    <2> QED BY <2>1, OneRow DEF FinishSession
  <1>2. /\ s \in UnderWay(r) /\ UNCHANGED <<stamp, clock, pc, mine, todo, stray, received, dead>>
        /\ \A q \in Runs : q # r => failed'[q] = failed[q]
        /\ failed'[r] = IF TotalFailure(r, s) THEN failed[r] \cup {s} ELSE failed[r]
    BY DEF FinishSession, TypeOK
  <1>3. /\ \A q \in Runs : q # r => UnderWay(q)' = UnderWay(q)
        /\ UnderWay(r)' = UnderWay(r) \ {s}
    BY <1>1 DEF UnderWay
  <1>4. ASSUME TotalFailure(r, s), NEW u \in People PROVE Untouched(s, u)
    BY <1>2, <1>4 DEF TotalFailure, OnceInv, SendsTrue
  <1>5. Stamps'
    BY <1>2 DEF Stamps, OnceInv
  <1>6. OwnWork'
    BY <1>2, <1>3 DEF OwnWork, OnceInv
  <1>7. \A t \in Sessions : Pristine(t)' => Pristine(t) \/ (t = s /\ TotalFailure(r, s))
    BY <1>2 DEF Pristine
  <1>8. PristineUntouched' /\ StraysOfDead' /\ RemindedOnce'
    BY <1>2, <1>4, <1>7 DEF OnceInv, PristineUntouched, StraysOfDead, Untouched, RemindedOnce
  <1>9. SendsTrue'
    BY <1>1, <1>2, <1>3 DEF OnceInv, SendsTrue, Untouched
  <1> QED BY <1>5, <1>6, <1>8, <1>9 DEF OnceInv

\* A send settles once, and a mail arrives only for the run that sent it.
LEMMA OnceSettles ==
  ASSUME ~LateMail, TypeOK, OnceInv, NEW r \in Runs, NEW s \in Sessions, NEW u \in People,
         Answered(r, s, u) \/ TimesOut(r, s, u)
  PROVE  OnceInv'
  <1>1. PICK x \in {"ok", "null"} :
           Settles(r, s, u, x) /\ IF x = "ok" THEN Arrives(s, u) ELSE UNCHANGED received
    BY DEF Answered, TimesOut, Settles
  <1>2. \A q \in Runs, t \in Sessions, v \in People :
           sends'[q][t][v] = IF q = r /\ t = s /\ v = u THEN x ELSE sends[q][t][v]
    <2>1. x \in Results
      BY DEF Results
    <2> QED BY <1>1, <2>1, OneSend
  <1>3. /\ sends[r][s][u] = "flying" /\ s \in UnderWay(r)
        /\ UNCHANGED <<stamp, clock, pc, mine, todo, failed, stray, dead>>
    BY DEF Answered, TimesOut, UnderWay
  <1>4. \A q \in Runs : UnderWay(q)' = UnderWay(q)
    BY <1>2, <1>3 DEF UnderWay
  <1>5. Untouched(s, u) /\ u \in Enrolled[s]
    BY <1>3 DEF OnceInv, SendsTrue
  <1>6. \A t \in Sessions, v \in People :
           received'[t][v] = IF x = "ok" /\ t = s /\ v = u THEN 1 ELSE received[t][v]
    BY <1>1, <1>5, OneMail DEF Untouched
  <1>7. \A t \in Sessions, v \in People : ~(t = s /\ v = u) \/ x # "ok" => (Untouched(t, v) => Untouched(t, v)')
    BY <1>3, <1>6 DEF Untouched
  <1>8. Stamps'
    BY <1>3 DEF Stamps, OnceInv
  <1>9. OwnWork'
    BY <1>3, <1>4 DEF OwnWork, OnceInv
  <1>10. PristineUntouched'
    <2>1. \A t \in Sessions : Pristine(t)' => Pristine(t) /\ t # s
      BY <1>3, OneSender DEF Pristine
    <2> QED BY <2>1, <1>7 DEF OnceInv, PristineUntouched
  <1>11. SendsTrue'
    <2> SUFFICES ASSUME NEW q \in Runs, NEW t \in Sessions, NEW v \in People
                 PROVE  /\ t \in UnderWay(q) /\ sends'[q][t][v] # "ok" => Untouched(t, v)'
                        /\ sends'[q][t][v] # "none" => v \in Enrolled[t]
      BY <1>4 DEF SendsTrue
    <2>1. CASE t = s /\ v = u
      <3>1. t \in UnderWay(q) => q = r
        BY <2>1, <1>3, OneSender
      <3>2. sends'[q][t][v] # "none" => v \in Enrolled[t]
        BY <2>1, <1>5
      <3> QED BY <2>1, <3>1, <3>2, <1>2, <1>5, <1>7
    <2>2. CASE ~(t = s /\ v = u)
      BY <2>2, <1>2, <1>7 DEF OnceInv, SendsTrue
    <2> QED BY <2>1, <2>2
  <1>12. StraysOfDead'
    BY <1>3, <1>5, <1>6 DEF OnceInv, StraysOfDead, Untouched
  <1>13. RemindedOnce'
    BY <1>6 DEF OnceInv, RemindedOnce
  <1> QED BY <1>8, <1>9, <1>10, <1>11, <1>12, <1>13 DEF OnceInv

\* The mail of a dead run arrives for a session nobody else will take up.
LEMMA OnceStray ==
  ASSUME TypeOK, OnceInv, NEW r \in Runs, NEW s \in Sessions, NEW u \in People, StrayMail(r, s, u)
  PROVE  OnceInv'
  <1>1. /\ <<r, s, u>> \in stray /\ stray' = stray \ {<<r, s, u>>}
        /\ UNCHANGED <<stamp, clock, pc, mine, todo, sends, failed, dead>>
    BY DEF StrayMail, run
  <1>2. stamp[s] \in dead /\ received[s][u] = 0 /\ \A q \in Runs : <<q, s, u>> \in stray => q = r
    BY <1>1 DEF OnceInv, StraysOfDead
  <1>3. \A t \in Sessions, v \in People :
           received'[t][v] = received[t][v] \/ (t = s /\ v = u /\ received'[t][v] = 1)
    BY <1>2, OneMail DEF StrayMail
  <1>4. \A q \in Runs : UnderWay(q)' = UnderWay(q)
    BY <1>1 DEF UnderWay
  <1>5. ~Pristine(s) /\ \A q \in Runs : s \notin UnderWay(q)
    BY <1>2, OneSender DEF OnceInv, Stamps, Pristine
  <1>6. \A t \in Sessions, v \in People : t # s => (Untouched(t, v) => Untouched(t, v)')
    BY <1>1, <1>3 DEF Untouched
  <1>7. Stamps'
    BY <1>1 DEF Stamps, OnceInv
  <1>8. OwnWork'
    BY <1>1, <1>4 DEF OwnWork, OnceInv
  <1>9. PristineUntouched'
    <2>1. \A t \in Sessions : Pristine(t)' => Pristine(t) /\ t # s
      BY <1>1, <1>5 DEF Pristine
    <2> QED BY <2>1, <1>6 DEF OnceInv, PristineUntouched
  <1>10. SendsTrue'
    BY <1>1, <1>4, <1>5, <1>6 DEF OnceInv, SendsTrue
  <1>11. StraysOfDead'
    BY <1>1, <1>2, <1>3 DEF OnceInv, StraysOfDead
  <1>12. RemindedOnce'
    BY <1>3 DEF OnceInv, RemindedOnce
  <1> QED BY <1>7, <1>8, <1>9, <1>10, <1>11, <1>12 DEF OnceInv

\* Giving a failed session back makes it unclaimed, and it is untouched.
LEMMA OnceFinishRun ==
  ASSUME TypeOK, OnceInv, NEW r \in Runs, FinishRun(r)
  PROVE  OnceInv'
  <1>1. /\ pc[r] = "send" /\ pc'[r] = "idle" /\ \A q \in Runs : q # r => pc'[q] = pc[q]
        /\ failed'[r] = {} /\ \A q \in Runs : q # r => failed'[q] = failed[q]
        /\ todo[r] = {} /\ UnderWay(r) = {}
        /\ UNCHANGED <<clock, mine, todo, sends, stray, received, dead>>
    BY DEF FinishRun, TypeOK
  <1>2. \A s \in Sessions : stamp'[s] = IF s \in failed[r] THEN 0 ELSE stamp[s]
    BY DEF FinishRun
  <1>3. \A q \in Runs : UnderWay(q)' = UnderWay(q)
    BY <1>1 DEF UnderWay
  <1>4. \A s \in failed[r] : s \in Sessions /\ Pristine(s) /\ stamp[s] = mine[r] /\ stamp[s] \notin dead
    BY <1>1 DEF OnceInv, OwnWork, Stamps, Pristine, TypeOK
  <1>5. Stamps'
    <2>1. clock \in Nat /\ \A s \in Sessions : stamp[s] \in Nat
      BY RemindersAssumption DEF TypeOK
    <2> QED BY <2>1, <1>1, <1>2 DEF Stamps, OnceInv
  <1>6. OwnWork'
    <2> SUFFICES ASSUME NEW q \in Runs
                 PROVE  /\ pc'[q] # "send" => todo'[q] = {} /\ failed'[q] = {} /\ UnderWay(q)' = {}
                        /\ \A s \in todo'[q] \cup failed'[q] \cup UnderWay(q)' : stamp'[s] = mine'[q]
                        /\ todo'[q] \cap UnderWay(q)' = {} /\ todo'[q] \cap failed'[q] = {}
                        /\ failed'[q] \cap UnderWay(q)' = {}
      BY DEF OwnWork
    <2>1. CASE q = r
      BY <2>1, <1>1, <1>3
    <2>2. CASE q # r
      <3>1. \A s \in todo[q] \cup failed[q] \cup UnderWay(q) :
               s \in Sessions /\ stamp[s] = mine[q] /\ pc[q] = "send"
        BY DEF OnceInv, OwnWork, TypeOK, UnderWay
      <3>2. \A s \in todo[q] \cup failed[q] \cup UnderWay(q) : s \notin failed[r]
        BY <2>2, <3>1, <1>1, <1>4 DEF OnceInv, Stamps
      <3> QED BY <2>2, <3>1, <3>2, <1>1, <1>2, <1>3 DEF OnceInv, OwnWork
    <2> QED BY <2>1, <2>2
  <1>7. \A s \in Sessions : Pristine(s)' => Pristine(s)
    BY <1>1, <1>2, <1>4 DEF Pristine
  <1>8. PristineUntouched' /\ RemindedOnce'
    BY <1>1, <1>7 DEF OnceInv, PristineUntouched, Untouched, RemindedOnce
  <1>9. SendsTrue'
    BY <1>1, <1>3 DEF OnceInv, SendsTrue, Untouched
  <1>10. StraysOfDead'
    BY <1>1, <1>2, <1>4 DEF OnceInv, StraysOfDead
  <1> QED BY <1>5, <1>6, <1>8, <1>9, <1>10 DEF OnceInv

\* A run that dies leaves its sessions claimed under a stamp no run has.
LEMMA OnceDie ==
  ASSUME TypeOK, OnceInv, NEW r \in Runs, Die(r)
  PROVE  OnceInv'
  <1>1. /\ pc[r] # "idle" /\ pc'[r] = "idle" /\ \A q \in Runs : q # r => pc'[q] = pc[q]
        /\ failed'[r] = {} /\ \A q \in Runs : q # r => failed'[q] = failed[q]
        /\ todo'[r] = {} /\ \A q \in Runs : q # r => todo'[q] = todo[q]
        /\ dead' = dead \cup {mine[r]}
        /\ UNCHANGED <<stamp, clock, mine, received>>
    BY DEF Die, TypeOK
  <1>2. \A q \in Runs, t \in Sessions, v \in People :
           sends'[q][t][v] = IF q = r THEN "none" ELSE sends[q][t][v]
    BY DEF Die, Idle, TypeOK
  <1>3. \A q \in Runs, t \in Sessions, v \in People :
           <<q, t, v>> \in stray' <=> <<q, t, v>> \in stray \/ (q = r /\ sends[r][t][v] = "flying")
    BY DEF Die
  <1>4. /\ \A q \in Runs : q # r => UnderWay(q)' = UnderWay(q)
        /\ UnderWay(r)' = {}
    BY <1>2 DEF UnderWay
  <1>5. \A t \in Sessions, v \in People : sends[r][t][v] = "flying" => t \in UnderWay(r) /\ Untouched(t, v)
    BY DEF OnceInv, SendsTrue, UnderWay
  <1>6. \A t \in Sessions, v \in People : t \notin UnderWay(r) => (Untouched(t, v) => Untouched(t, v)')
    BY <1>1, <1>3, <1>5 DEF Untouched
  <1>7. Stamps'
    BY <1>1 DEF Stamps, OnceInv, TypeOK
  <1>8. OwnWork'
    BY <1>1, <1>4 DEF OwnWork, OnceInv
  <1>9. PristineUntouched'
    <2>1. \A t \in Sessions : Pristine(t)' => Pristine(t)
      BY <1>1 DEF Pristine
    <2>2. \A t \in Sessions : Pristine(t) => t \notin UnderWay(r)
      BY OneSender
    <2> QED BY <2>1, <2>2, <1>6 DEF OnceInv, PristineUntouched
  <1>10. SendsTrue'
    <2>1. \A q \in Runs, t \in Sessions : t \in UnderWay(q)' => q # r /\ t \in UnderWay(q) /\ t \notin UnderWay(r)
      BY <1>4, OneSender
    <2> QED BY <2>1, <1>2, <1>6 DEF OnceInv, SendsTrue
  <1>11. StraysOfDead'
    <2> SUFFICES ASSUME NEW q \in Runs, NEW t \in Sessions, NEW v \in People, <<q, t, v>> \in stray'
                 PROVE  /\ stamp'[t] \in dead' /\ received'[t][v] = 0
                        /\ \A p \in Runs : <<p, t, v>> \in stray' => p = q
      BY DEF StraysOfDead
    <2>1. CASE sends[r][t][v] = "flying"
      <3>1. t \in UnderWay(r) /\ Untouched(t, v)
        BY <2>1, <1>5
      <3>2. stamp[t] = mine[r]
        BY <3>1, OneSender
      <3> QED BY <3>1, <3>2, <1>1, <1>3 DEF Untouched
    <2>2. CASE sends[r][t][v] # "flying"
      BY <2>2, <1>1, <1>3 DEF OnceInv, StraysOfDead
    <2> QED BY <2>1, <2>2
  <1>12. RemindedOnce'
    BY <1>1 DEF OnceInv, RemindedOnce
  <1> QED BY <1>7, <1>8, <1>9, <1>10, <1>11, <1>12 DEF OnceInv

\* One step per action, for runs with stamps of their own and no late mail.
LEMMA OnceSteps ==
  ASSUME ~LateMail, ~SharedStamp
  PROVE  TypeOK /\ OnceInv /\ [Next]_vars => OnceInv'
  <1> SUFFICES ASSUME TypeOK, OnceInv, [Next]_vars PROVE OnceInv'
    OBVIOUS
  <1>1. ASSUME UNCHANGED <<stamp, clock, run, stray, received, dead>> PROVE OnceInv'
    BY <1>1 DEF run, OnceInv, Stamps, OwnWork, PristineUntouched, Pristine, Untouched, SendsTrue,
                StraysOfDead, RemindedOnce, UnderWay
  <1>2. ASSUME NEW s \in Sessions, Ends(s) PROVE OnceInv'
    BY <1>1, <1>2 DEF Ends
  <1>3. CASE UNCHANGED vars
    BY <1>1, <1>3 DEF vars
  <1>4. ASSUME NEW r \in Runs, Claim(r) \/ Fetch(r) \/ FinishRun(r) \/ Die(r) PROVE OnceInv'
    BY <1>4, OnceClaim, OnceFetch, OnceFinishRun, OnceDie
  <1>5. ASSUME NEW r \in Runs, Send(r) PROVE OnceInv'
    BY <1>5, OnceStart, OnceFinishSession, OnceSettles, OnceStray DEF Send
  <1> QED BY <1>2, <1>3, <1>4, <1>5 DEF Next

\* As long as no mail arrives after its send has timed out and no two runs
\* start in one millisecond, nobody is reminded twice of a session, however the
\* runs overlap, fail, give sessions back and die.
THEOREM Once ==
  ASSUME ~LateMail, ~SharedStamp
  PROVE  Spec => []RemindedOnce
  <1>1. Init => OnceInv
    BY RemindersAssumption DEF Init, Idle, OnceInv, Stamps, OwnWork, PristineUntouched, Pristine,
        Untouched, SendsTrue, StraysOfDead, RemindedOnce, UnderWay
  <1>2. OnceInv => RemindedOnce
    BY DEF OnceInv
  <1>3. TypeOK /\ OnceInv /\ [Next]_vars => OnceInv'
    BY OnceSteps
  <1> QED BY <1>1, <1>2, <1>3, Typing, PTL DEF Spec

=============================================================================
