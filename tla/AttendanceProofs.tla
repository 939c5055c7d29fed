-------------------------- MODULE AttendanceProofs --------------------------
(* Proofs about Attendance and its clients, for any number of sessions,     *)
(* learners, requests, exports and events.                                  *)
EXTENDS AttendanceClients, TLAPS

\* Start times are numbers.
LEMMA TimesAre == \A x \in {0} \cup Times : x \in Nat
  BY AttendanceAssumption

-----------------------------------------------------------------------------
(* Sheets of marks and files of rows.                                       *)

\* What a marking request may carry.
Payloads == UNION {Sheets(x) : x \in SUBSET Learners}

\* A function is a payload exactly if its keys are learners and its values codes.
LEMMA PayloadIs ==
  /\ \A D \in SUBSET Learners : \A f \in [D -> Statuses] : f \in Payloads
  /\ \A f \in Payloads : DOMAIN f \subseteq Learners /\ f \in [DOMAIN f -> Statuses]
  BY DEF Payloads, Sheets

\* A function is a file exactly if its keys are those of marks and its values codes.
LEMMA FileIs ==
  /\ \A D \in SUBSET Key : \A f \in [D -> Statuses] : f \in Files
  /\ \A f \in Files : DOMAIN f \subseteq Key /\ f \in [DOMAIN f -> Statuses]
  BY DEF Files

\* The empty sheet and the empty file.
LEMMA NothingIs == Empty \in Payloads /\ NoFile \in Files /\ DOMAIN Empty = {} /\ DOMAIN NoFile = {}
  BY PayloadIs, FileIs DEF Empty, NoFile

\* Queueing a sheet and dropping rows keep the queue a file; the sheet is in it.
LEMMA QueueIs ==
  ASSUME queue \in Files, NEW s \in Sessions, NEW records \in Payloads
  PROVE  /\ Enqueued(s, records) \in Files
         /\ DOMAIN Enqueued(s, records) = DOMAIN queue \cup Keys(s, records)
         /\ Keys(s, records) \subseteq Key
  <1>1. DOMAIN queue \subseteq Key /\ queue \in [DOMAIN queue -> Statuses]
    BY FileIs
  <1>2. DOMAIN records \subseteq Learners /\ records \in [DOMAIN records -> Statuses]
    BY PayloadIs
  <1>3. Keys(s, records) \subseteq Key
    BY <1>2 DEF Keys, Key
  <1>4. ASSUME NEW k \in Keys(s, records) PROVE records[k[2]] \in Statuses
    BY <1>2, <1>4 DEF Keys
  <1>5. Enqueued(s, records) \in [DOMAIN queue \cup Keys(s, records) -> Statuses]
    BY <1>1, <1>4 DEF Enqueued
  <1> QED BY <1>1, <1>3, <1>5, FileIs DEF Enqueued

\* Dropping rows of the queue leaves a file, of the other keys.
LEMMA WithoutIs ==
  ASSUME NEW rows \in Files, NEW keys
  PROVE  Without(rows, keys) \in Files /\ DOMAIN Without(rows, keys) = DOMAIN rows \ keys
  <1>1. DOMAIN rows \subseteq Key /\ rows \in [DOMAIN rows -> Statuses]
    BY FileIs
  <1>2. Without(rows, keys) \in [DOMAIN rows \ keys -> Statuses]
    BY <1>1 DEF Without
  <1> QED BY <1>1, <1>2, FileIs DEF Without

\* The queued rows of a session are a payload for it.
LEMMA RecordsIs ==
  ASSUME NEW rows \in Files, NEW s \in Queued(rows)
  PROVE  s \in Sessions /\ Records(rows, s) \in Payloads
  <1>1. DOMAIN rows \subseteq Key /\ rows \in [DOMAIN rows -> Statuses]
    BY FileIs
  <1>2. s \in Sessions
    BY <1>1 DEF Queued, Key
  <1>3. \A k \in Group(rows, s) : k \in Key /\ k = <<s, k[2]>> /\ k \in DOMAIN rows
    BY <1>1 DEF Group, Key
  <1>4. {k[2] : k \in Group(rows, s)} \in SUBSET Learners
    BY <1>3 DEF Key
  <1>5. \A l \in {k[2] : k \in Group(rows, s)} : rows[<<s, l>>] \in Statuses
    BY <1>1, <1>3
  <1> QED BY <1>2, <1>4, <1>5, PayloadIs DEF Records

-----------------------------------------------------------------------------
(* Marking requests.                                                        *)

\* A request: its marks yet to write are some of its marks, and it ends when
\* nobody waits for its answer.
SlotOK(p) ==
    p # Idle =>
        /\ p \in Post /\ p.left \subseteq DOMAIN p.records
        /\ p.for = "nobody" => p.step \in {"sent", "write", "bump"}

\* The tables of the server and the exports.
ServerOK ==
    /\ roster \in [Sessions -> SUBSET Learners]
    /\ start \in [Sessions -> {0} \cup Times]
    /\ refused \subseteq Sessions /\ gone \subseteq Learners
    /\ mark \in [Key -> Row \cup {NoRow}]
    /\ active \in [Learners -> {0} \cup Times]
    /\ export \in [Exports -> Export]
    /\ events \in 0 .. MaxEvents /\ faulty \in BOOLEAN

PostOK == post \in [Slots -> Post \cup {Idle}] /\ \A r \in Slots : SlotOK(post[r])

\* The fields of a request.
LEMMA PostIs ==
  ASSUME NEW p \in Post
  PROVE  /\ p # Idle /\ p.step \in {"sent", "write", "bump", "ok", "failed"}
         /\ p.for \in Clients /\ p.session \in Sessions /\ p.records \in Payloads
         /\ p.start \in {0} \cup Times
         /\ DOMAIN p.records \subseteq Learners
         /\ \A l \in DOMAIN p.records : p.records[l] \in Statuses
  BY PayloadIs DEF Post, Idle, Payloads

\* Request q carries on with the work of p.
Continues(p, q) ==
    q \in Post /\ q.session = p.session /\ q.records = p.records /\ q.left = p.left

Stepped(p, x) == [p EXCEPT !.step = x]
Begun(p, at)  == [p EXCEPT !.step = "write", !.start = at]
Abandoned(p)  == [p EXCEPT !.for = "nobody"]

\* A step of a request changes nothing else of it.
LEMMA PostStep ==
  ASSUME NEW p \in Post, NEW x \in {"sent", "write", "bump", "ok", "failed"}
  PROVE  Continues(p, Stepped(p, x)) /\ Stepped(p, x).step = x /\ Stepped(p, x).for = p.for
  BY DEF Post, Continues, Stepped

\* The start that was read is all that the first step adds.
LEMMA PostBegins ==
  ASSUME NEW p \in Post, NEW at \in {0} \cup Times
  PROVE  Continues(p, Begun(p, at)) /\ Begun(p, at).step = "write" /\ Begun(p, at).for = p.for
  BY DEF Post, Continues, Begun

\* A client that gives up changes nothing else of its request.
LEMMA PostLeft ==
  ASSUME NEW p \in Post
  PROVE  /\ Continues(p, Abandoned(p)) /\ Abandoned(p).start = p.start
         /\ Abandoned(p).step = p.step /\ Abandoned(p).for = "nobody"
  BY DEF Post, Clients, Continues, Abandoned

\* A request begins with everything left to write.
LEMMA SendIs ==
  ASSUME PostOK, NEW r \in Slots, NEW c \in Clients \ {"nobody"}, NEW s \in Sessions,
         NEW records \in Payloads, Send(r, c, s, records)
  PROVE  /\ PostOK' /\ \A q \in Slots \ {r} : post'[q] = post[q]
         /\ post[r] = Idle /\ post'[r] \in Post /\ post'[r].step = "sent" /\ post'[r].for = c
         /\ post'[r].left = DOMAIN post'[r].records
  <1> DEFINE p == [step |-> "sent", for |-> c, session |-> s, records |-> records,
                   left |-> DOMAIN records, start |-> 0]
  <1>1. DOMAIN records \subseteq Learners
    BY PayloadIs
  <1>2. p \in Post /\ p.step = "sent" /\ p.for = c /\ p.left = DOMAIN p.records
    BY <1>1 DEF Post, Payloads
  <1>3. SlotOK(p)
    BY <1>2 DEF SlotOK
  <1>4. post[r] = Idle /\ post' = [post EXCEPT ![r] = p]
    BY DEF Send
  <1> HIDE DEF p
  <1> QED BY <1>2, <1>3, <1>4 DEF PostOK

\* A request ends with an answer, or silently if nobody waits for one.
LEMMA AnsweredIs ==
  ASSUME PostOK, NEW r \in Slots, NEW outcome \in {"ok", "failed"}, post[r] \in Post,
         Answered(r, outcome)
  PROVE  /\ PostOK' /\ \A q \in Slots \ {r} : post'[q] = post[q]
         /\ post'[r] = Idle \/ (Continues(post[r], post'[r]) /\ post'[r].step = outcome
                                /\ post'[r].for = post[r].for)
  <1>1. CASE post[r].for = "nobody"
    BY <1>1 DEF Answered, PostOK, SlotOK
  <1>2. CASE post[r].for # "nobody"
    <2> DEFINE q == Stepped(post[r], outcome)
    <2>1. Continues(post[r], q) /\ q.step = outcome /\ q.for = post[r].for
      BY PostStep
    <2>2. post' = [post EXCEPT ![r] = q]
      BY <1>2 DEF Answered, Stepped
    <2> HIDE DEF q
    <2>3. SlotOK(q)
      <3>1. post[r].left \subseteq DOMAIN post[r].records
        BY PostIs DEF PostOK, SlotOK
      <3> QED BY <1>2, <2>1, <3>1 DEF SlotOK, Continues
    <2> QED BY <2>1, <2>2, <2>3 DEF PostOK, Continues
  <1> QED BY <1>1, <1>2

\* The guards are checked: the request goes on to write, or it fails.
LEMMA BulkMarkIs ==
  ASSUME PostOK, ServerOK, NEW r \in Slots, BulkMark(r)
  PROVE  /\ PostOK' /\ \A q \in Slots \ {r} : post'[q] = post[q]
         /\ post[r] \in Post /\ post[r].step = "sent"
         /\ post'[r] = Idle \/ (Continues(post[r], post'[r]) /\ post'[r].step \in {"write", "failed"}
                                /\ post'[r].for = post[r].for)
  <1>1. post[r] \in Post /\ post[r].step = "sent"
    BY DEF BulkMark, PostOK, Idle
  <1>2. CASE Answered(r, "failed")
    BY <1>1, <1>2, AnsweredIs
  <1>3. CASE post[r].session \in Known /\ post' = [post EXCEPT ![r].step = "write", ![r].start = start[post[r].session]]
    <2> DEFINE at == start[post[r].session]
               p  == Begun(post[r], at)
    <2>1. at \in {0} \cup Times
      BY <1>1, PostIs DEF ServerOK
    <2>2. post' = [post EXCEPT ![r] = p]
      BY <1>3 DEF Begun
    <2>3. Continues(post[r], p) /\ p.step = "write" /\ p.for = post[r].for
      BY <1>1, <2>1, PostBegins
    <2>4. post[r].left \subseteq DOMAIN post[r].records
      BY <1>1, PostIs DEF PostOK, SlotOK
    <2> HIDE DEF p
    <2>5. SlotOK(p)
      BY <2>3, <2>4 DEF SlotOK, Continues
    <2> QED BY <1>1, <1>3, <2>2, <2>3, <2>5 DEF PostOK, Continues
  <1> QED BY <1>2, <1>3 DEF BulkMark

\* A request goes on to write only in a session that exists.
LEMMA BulkKnown ==
  ASSUME PostOK, NEW r \in Slots, BulkMark(r), post'[r] # Idle, post'[r].step = "write"
  PROVE  post[r].session \in Known
  <1> SUFFICES ASSUME post[r].session \notin Known PROVE FALSE
    OBVIOUS
  <1>1. post[r] \in Post /\ Answered(r, "failed")
    BY DEF BulkMark, PostOK, Idle
  <1>2. post'[r].step = "failed"
    BY <1>1, AnsweredIs
  <1> QED BY <1>2

\* One mark is written: it is one of those left, and no longer left.
LEMMA UpsertIs ==
  ASSUME PostOK, NEW r \in Slots, UpsertMark(r)
  PROVE  /\ PostOK' /\ \A q \in Slots \ {r} : post'[q] = post[q]
         /\ post[r] \in Post /\ post[r].step = "write" /\ post'[r] \in Post
         /\ post'[r].session = post[r].session /\ post'[r].records = post[r].records
         /\ post'[r].for = post[r].for /\ post'[r].start = post[r].start
         /\ \E l \in DOMAIN post[r].records :
               /\ post'[r].left = post[r].left \ {l}
               /\ post'[r].step = IF post[r].left = {l} THEN "bump" ELSE "write"
               /\ l \in post[r].left /\ <<post[r].session, l>> \in Key /\ post[r].records[l] \in Statuses
               /\ mark' = [mark EXCEPT ![<<post[r].session, l>>] = Upserted(@, post[r].records[l], post[r].start)]
  <1>1. post[r] \in Post /\ post[r].step = "write"
    BY DEF UpsertMark, PostOK, Idle
  <1>2. PICK l \in post[r].left :
          /\ mark' = [mark EXCEPT ![<<post[r].session, l>>] = Upserted(@, post[r].records[l], post[r].start)]
          /\ post' = [post EXCEPT ![r].left = @ \ {l},
                                  ![r].step = IF post[r].left = {l} THEN "bump" ELSE "write"]
    BY DEF UpsertMark
  <1>3. post[r].left \subseteq DOMAIN post[r].records
    BY <1>1, PostIs DEF PostOK, SlotOK
  <1>4. l \in DOMAIN post[r].records /\ <<post[r].session, l>> \in Key /\ post[r].records[l] \in Statuses
    BY <1>1, <1>2, <1>3, PostIs DEF Key
  <1> DEFINE x == IF post[r].left = {l} THEN "bump" ELSE "write"
             p == [post[r] EXCEPT !.left = @ \ {l}, !.step = x]
  <1>5. post' = [post EXCEPT ![r] = p]
    BY <1>2
  <1>6. /\ p \in Post /\ p.step = x /\ p.for = post[r].for /\ p.session = post[r].session
        /\ p.records = post[r].records /\ p.left = post[r].left \ {l} /\ p.start = post[r].start
    BY <1>1 DEF Post
  <1>7. SlotOK(p)
    BY <1>3, <1>6 DEF SlotOK
  <1> HIDE DEF p
  <1> QED BY <1>1, <1>2, <1>3, <1>4, <1>5, <1>6, <1>7 DEF PostOK

\* A request that has counted its marks is answered.
LEMMA BumpIs ==
  ASSUME PostOK, NEW r \in Slots, BumpUsersLastActive(r)
  PROVE  /\ PostOK' /\ \A q \in Slots \ {r} : post'[q] = post[q]
         /\ post[r] \in Post /\ post[r].step = "bump"
         /\ post'[r] = Idle \/ (Continues(post[r], post'[r]) /\ post'[r].step = "ok"
                                /\ post'[r].for = post[r].for)
  <1>1. post[r] \in Post /\ post[r].step = "bump"
    BY DEF BumpUsersLastActive, PostOK, Idle
  <1> QED BY <1>1, AnsweredIs DEF BumpUsersLastActive

\* A request that fails is answered, or ends silently.
LEMMA FailPostIs ==
  ASSUME PostOK, NEW r \in Slots, FailPost(r)
  PROVE  /\ PostOK' /\ \A q \in Slots \ {r} : post'[q] = post[q]
         /\ post[r] \in Post
         /\ post'[r] = Idle \/ (Continues(post[r], post'[r]) /\ post'[r].step = "failed"
                                /\ post'[r].for = post[r].for)
  <1>1. post[r] \in Post
    BY DEF FailPost, PostOK, Idle
  <1> QED BY <1>1, AnsweredIs DEF FailPost

\* An answer frees its slot.
LEMMA GetAnswerIs ==
  ASSUME PostOK, NEW r \in Slots, GetAnswer(r)
  PROVE  /\ PostOK' /\ post'[r] = Idle /\ \A q \in Slots \ {r} : post'[q] = post[q]
         /\ post[r] \in Post /\ post[r].step \in {"ok", "failed"} /\ post[r].for # "nobody"
  <1>1. post[r] \in Post /\ post[r].step \in {"ok", "failed"}
    BY DEF GetAnswer, PostOK, Idle
  <1>2. post[r].for # "nobody"
    BY <1>1, PostIs DEF PostOK, SlotOK
  <1>3. SlotOK(Idle)
    BY DEF SlotOK
  <1> QED BY <1>1, <1>2, <1>3 DEF GetAnswer, PostOK

\* A request whose client gave up is answered already, lost, or goes on.
LEMMA GiveUpIs ==
  ASSUME PostOK, NEW r \in Slots, GiveUp(r)
  PROVE  /\ PostOK' /\ \A q \in Slots \ {r} : post'[q] = post[q]
         /\ post[r] \in Post /\ post[r].for # "nobody"
         /\ \/ post'[r] = Idle /\ post[r].step \in {"ok", "failed", "sent"}
            \/ /\ Continues(post[r], post'[r]) /\ post'[r].start = post[r].start
               /\ post'[r].step = post[r].step /\ post'[r].for = "nobody"
  <1>1. post[r] \in Post /\ post[r].for # "nobody"
    BY DEF GiveUp, PostOK
  <1>2. PICK p : /\ post' = [post EXCEPT ![r] = p]
                 /\ \/ p = Idle /\ post[r].step \in {"ok", "failed", "sent"}
                    \/ p = Abandoned(post[r]) /\ post[r].step \notin {"ok", "failed"}
    <2> DEFINE S == IF post[r].step \in {"ok", "failed"} THEN {Idle}
                    ELSE {[post[r] EXCEPT !.for = "nobody"]}
                         \cup (IF post[r].step = "sent" THEN {Idle} ELSE {})
    <2>1. PICK x \in S : post' = [post EXCEPT ![r] = x]
      BY DEF GiveUp
    <2>2. CASE x = Idle
      <3>1. post[r].step \in {"ok", "failed", "sent"}
        <4> SUFFICES ASSUME post[r].step \notin {"ok", "failed", "sent"} PROVE FALSE
          OBVIOUS
        <4>1. x = Abandoned(post[r])
          BY <2>1 DEF Abandoned
        <4> QED BY <4>1, <2>2, <1>1, PostLeft, PostIs DEF Continues
      <3> QED BY <2>1, <2>2, <3>1
    <2>3. CASE x # Idle
      <3>1. x = [post[r] EXCEPT !.for = "nobody"] /\ post[r].step \notin {"ok", "failed"}
        BY <2>3
      <3> QED BY <2>1, <3>1 DEF Abandoned
    <2> QED BY <2>2, <2>3
  <1>3. CASE p = Idle /\ post[r].step \in {"ok", "failed", "sent"}
    <2>1. SlotOK(Idle)
      BY DEF SlotOK
    <2> QED BY <1>1, <1>2, <1>3, <2>1 DEF PostOK
  <1>4. CASE p = Abandoned(post[r]) /\ post[r].step \notin {"ok", "failed"}
    <2>1. Continues(post[r], p) /\ p.start = post[r].start /\ p.step = post[r].step /\ p.for = "nobody"
      BY <1>1, <1>4, PostLeft
    <2>2. post[r].left \subseteq DOMAIN post[r].records
      BY <1>1, PostIs DEF PostOK, SlotOK
    <2>3. SlotOK(p)
      BY <1>1, <1>4, <2>1, <2>2, PostIs DEF SlotOK, Continues
    <2> QED BY <1>1, <1>2, <2>1, <2>3 DEF PostOK, Continues
  <1> QED BY <1>2, <1>3, <1>4

\* After a restart of the app no request is waited for by the device.
LEMMA RestartIs ==
  ASSUME PostOK, RestartApp
  PROVE  /\ PostOK'
         /\ \A r \in Slots :
               \/ post'[r] = post[r] /\ (post[r] # Idle => post[r].for \notin {"flush", "panel"})
               \/ post[r] \in Post /\ post'[r] = Idle /\ post[r].step \in {"ok", "failed"}
               \/ /\ post[r] \in Post /\ Continues(post[r], post'[r])
                  /\ post'[r].start = post[r].start
                  /\ post'[r].step = post[r].step /\ post'[r].for = "nobody"
  <1> DEFINE p(r) == IF post[r] = Idle \/ post[r].for \notin {"flush", "panel"} THEN post[r]
                     ELSE IF post[r].step \in {"ok", "failed"} THEN Idle
                     ELSE Abandoned(post[r])
  <1>1. post' = [r \in Slots |-> p(r)]
    BY DEF RestartApp, Abandoned
  <1>2. ASSUME NEW r \in Slots
        PROVE  /\ SlotOK(p(r)) /\ p(r) \in Post \cup {Idle}
               /\ \/ p(r) = post[r] /\ (post[r] # Idle => post[r].for \notin {"flush", "panel"})
                  \/ post[r] \in Post /\ p(r) = Idle /\ post[r].step \in {"ok", "failed"}
                  \/ /\ post[r] \in Post /\ Continues(post[r], p(r))
                     /\ p(r).start = post[r].start
                     /\ p(r).step = post[r].step /\ p(r).for = "nobody"
    <2>1. post[r] \in Post \cup {Idle} /\ SlotOK(post[r]) /\ SlotOK(Idle)
      BY DEF PostOK, SlotOK
    <2>2. CASE post[r] = Idle \/ post[r].for \notin {"flush", "panel"}
      BY <2>1, <2>2
    <2>3. CASE post[r] \in Post /\ post[r].for \in {"flush", "panel"} /\ post[r].step \in {"ok", "failed"}
      BY <2>1, <2>3, PostIs
    <2>4. CASE post[r] \in Post /\ post[r].for \in {"flush", "panel"} /\ post[r].step \notin {"ok", "failed"}
      <3>1. p(r) = Abandoned(post[r])
        BY <2>4, PostIs
      <3>2. Continues(post[r], p(r)) /\ p(r).start = post[r].start /\ p(r).step = post[r].step /\ p(r).for = "nobody"
        BY <2>4, <3>1, PostLeft
      <3>3. post[r].left \subseteq DOMAIN post[r].records
        BY <2>1, <2>4, PostIs DEF SlotOK
      <3> HIDE DEF p
      <3> QED BY <2>4, <3>2, <3>3, PostIs DEF SlotOK, Continues
    <2> QED BY <2>1, <2>2, <2>3, <2>4
  <1> HIDE DEF p
  <1> QED BY <1>1, <1>2 DEF PostOK

-----------------------------------------------------------------------------
(* Rows.                                                                    *)

\* A row is not the missing row.
LEMMA RowIs ==
  ASSUME NEW row \in Row
  PROVE  /\ row # NoRow /\ row.status \in Statuses /\ row.batch \in Exports \cup {"none"}
         /\ row.sync \in {"PENDING", "EXPORTING", "EXPORTED"} /\ row.held \in {0} \cup Times
  <1>1. "unmarked" \notin Statuses
    BY AttendanceAssumption
  <1> QED BY <1>1 DEF Row, NoRow

\* An upsert sets the status and leaves the export columns of a row alone.
LEMMA UpsertedIs ==
  ASSUME NEW row \in Row \cup {NoRow}, NEW status \in Statuses, NEW held \in {0} \cup Times
  PROVE  /\ Upserted(row, status, held) \in Row
         /\ Upserted(row, status, held).status = status /\ Upserted(row, status, held).held = held
         /\ row = NoRow => /\ Upserted(row, status, held).sync = "PENDING"
                           /\ Upserted(row, status, held).batch = "none"
         /\ row \in Row => /\ Upserted(row, status, held).sync = row.sync
                           /\ Upserted(row, status, held).batch = row.batch
  <1>1. row \in Row => row # NoRow
    BY RowIs
  <1> QED BY <1>1 DEF Upserted, Row

Claimed(row, e) == [row EXCEPT !.sync = "EXPORTING", !.batch = e]
Settled(row)    == [row EXCEPT !.sync = "EXPORTED"]

\* Claiming and settling a row change nothing but its export columns.
LEMMA ExportColumns ==
  ASSUME NEW row \in Row
  PROVE  /\ \A e \in Exports : /\ Claimed(row, e) \in Row /\ Claimed(row, e).status = row.status
                               /\ Claimed(row, e).held = row.held
                               /\ Claimed(row, e).sync = "EXPORTING" /\ Claimed(row, e).batch = e
         /\ Settled(row) \in Row /\ Settled(row).status = row.status /\ Settled(row).held = row.held
         /\ Settled(row).sync = "EXPORTED" /\ Settled(row).batch = row.batch
  BY DEF Row, Claimed, Settled

\* An export claims marks only: no row is ever deleted.
IdsMarked == \A e \in Exports : export[e].ids \subseteq Marked

\* Writing a mark touches one row, and makes it a row.
LEMMA UpsertRow ==
  ASSUME ServerOK, PostOK, NEW r \in Slots, UpsertMark(r)
  PROVE  /\ mark' \in [Key -> Row \cup {NoRow}]
         /\ \E l \in post[r].left :
               LET k == <<post[r].session, l>> IN
               /\ k \in Key /\ mark'[k] \in Row /\ mark'[k].status = post[r].records[l]
               /\ mark'[k].held = post[r].start
               /\ mark[k] = NoRow => mark'[k].sync = "PENDING" /\ mark'[k].batch = "none"
               /\ mark[k] # NoRow => mark'[k].sync = mark[k].sync /\ mark'[k].batch = mark[k].batch
               /\ \A j \in Key \ {k} : mark'[j] = mark[j]
               /\ l \in DOMAIN post[r].records /\ post'[r].left = post[r].left \ {l}
               /\ post'[r].step = IF post[r].left = {l} THEN "bump" ELSE "write"
  <1>1. PICK l \in DOMAIN post[r].records :
               /\ post'[r].left = post[r].left \ {l}
               /\ post'[r].step = IF post[r].left = {l} THEN "bump" ELSE "write"
               /\ l \in post[r].left /\ <<post[r].session, l>> \in Key /\ post[r].records[l] \in Statuses
               /\ mark' = [mark EXCEPT ![<<post[r].session, l>>] = Upserted(@, post[r].records[l], post[r].start)]
    BY UpsertIs
  <1> DEFINE k == <<post[r].session, l>>
  <1>2. PICK row : row = Upserted(mark[k], post[r].records[l], post[r].start)
    OBVIOUS
  <1>3. /\ row \in Row /\ row.status = post[r].records[l] /\ row.held = post[r].start
        /\ mark[k] = NoRow => row.sync = "PENDING" /\ row.batch = "none"
        /\ mark[k] # NoRow => row.sync = mark[k].sync /\ row.batch = mark[k].batch
    <2>1. PICK was \in Row \cup {NoRow}, status \in Statuses, held \in {0} \cup Times :
             was = mark[k] /\ status = post[r].records[l] /\ held = post[r].start
      BY <1>1, UpsertIs, PostIs DEF ServerOK
    <2>2. row = Upserted(was, status, held)
      BY <1>2, <2>1
    <2>3. /\ row \in Row /\ row.status = status /\ row.held = held
          /\ was = NoRow => row.sync = "PENDING" /\ row.batch = "none"
          /\ was \in Row => row.sync = was.sync /\ row.batch = was.batch
      BY <2>2, UpsertedIs
    <2> QED BY <2>1, <2>3
  <1>4. mark' = [mark EXCEPT ![k] = row]
    BY <1>1, <1>2
  <1>5. /\ mark' \in [Key -> Row \cup {NoRow}] /\ mark'[k] = row
        /\ \A j \in Key \ {k} : mark'[j] = mark[j]
    BY <1>1, <1>3, <1>4 DEF ServerOK
  <1> QED BY <1>1, <1>3, <1>5

\* A claim takes pending rows only.
LEMMA ClaimRows ==
  ASSUME ServerOK, IdsMarked, NEW e \in Exports, ClaimBatch(e)
  PROVE  /\ mark' \in [Key -> Row \cup {NoRow}]
         /\ \A k \in Key :
               \/ mark'[k] = mark[k]
               \/ /\ mark[k] \in Row /\ mark[k].sync = "PENDING" /\ mark'[k] \in Row
                  /\ mark'[k].status = mark[k].status /\ mark'[k].held = mark[k].held
                  /\ mark'[k].sync = "EXPORTING" /\ mark'[k].batch = e
  <1>1. \A k \in Claimable(e) : k \in Key /\ mark[k] \in Row /\ mark[k].sync = "PENDING"
    BY DEF Claimable, IdsMarked, Marked, ServerOK
  <1>2. mark' = [k \in Key |-> IF k \in Claimable(e) THEN Claimed(mark[k], e) ELSE mark[k]]
    BY DEF ClaimBatch, Claimed
  <1>3. ASSUME NEW k \in Key
        PROVE  /\ mark'[k] \in Row \cup {NoRow}
               /\ \/ mark'[k] = mark[k]
                  \/ /\ mark[k] \in Row /\ mark[k].sync = "PENDING" /\ mark'[k] \in Row
                     /\ mark'[k].status = mark[k].status /\ mark'[k].held = mark[k].held
                     /\ mark'[k].sync = "EXPORTING" /\ mark'[k].batch = e
    <2>1. CASE k \in Claimable(e)
      <3>1. mark'[k] = Claimed(mark[k], e)
        BY <1>2, <2>1
      <3> QED BY <1>1, <2>1, <3>1, ExportColumns
    <2>2. CASE k \notin Claimable(e)
      BY <1>2, <2>2 DEF ServerOK
    <2> QED BY <2>1, <2>2
  <1> QED BY <1>2, <1>3

\* Settling a batch changes nothing but the sync status.
LEMMA ExportedRows ==
  ASSUME ServerOK, NEW e \in Exports, MarkExported(e)
  PROVE  /\ mark' \in [Key -> Row \cup {NoRow}]
         /\ \A k \in Key :
               \/ mark'[k] = mark[k]
               \/ /\ mark[k] \in Row /\ mark'[k] \in Row /\ mark'[k].status = mark[k].status
                  /\ mark'[k].held = mark[k].held
                  /\ mark'[k].sync = "EXPORTED" /\ mark'[k].batch = mark[k].batch
  <1>1. \A k \in Batch(e) : k \in Key /\ mark[k] \in Row
    BY DEF Batch, Marked, ServerOK
  <1>2. mark' = [k \in Key |-> IF k \in Batch(e) THEN Settled(mark[k]) ELSE mark[k]]
    BY DEF MarkExported, Settled
  <1>3. ASSUME NEW k \in Key
        PROVE  /\ mark'[k] \in Row \cup {NoRow}
               /\ \/ mark'[k] = mark[k]
                  \/ /\ mark[k] \in Row /\ mark'[k] \in Row /\ mark'[k].status = mark[k].status
                     /\ mark'[k].held = mark[k].held
                     /\ mark'[k].sync = "EXPORTED" /\ mark'[k].batch = mark[k].batch
    <2>1. CASE k \in Batch(e)
      <3>1. mark'[k] = Settled(mark[k])
        BY <1>2, <2>1
      <3> QED BY <1>1, <2>1, <3>1, ExportColumns
    <2>2. CASE k \notin Batch(e)
      BY <1>2, <2>2 DEF ServerOK
    <2> QED BY <2>1, <2>2
  <1> QED BY <1>2, <1>3

\* Only sessions that exist are marked, or about to be.
KnownOnly ==
    /\ \A k \in Marked : k[1] \in Known
    /\ \A r \in Slots : post[r] # Idle /\ post[r].step = "write" => post[r].session \in Known

\* An imported session is new: its marks are rows where none was, of no batch.
LEMMA ImportRows ==
  ASSUME ServerOK, KnownOnly, ImportHistory
  PROVE  /\ mark' \in [Key -> Row \cup {NoRow}]
         /\ \A k \in Key :
               \/ mark'[k] = mark[k]
               \/ /\ mark[k] = NoRow /\ mark'[k] \in Row /\ k[1] \in Known'
                  /\ mark'[k].sync = "PENDING" /\ mark'[k].batch = "none" /\ mark'[k].held = 0
         /\ roster' \in [Sessions -> SUBSET Learners] /\ refused' \subseteq Sessions
         /\ start' \in [Sessions -> {0} \cup Times] /\ Known \subseteq Known'
  <1>1. PICK s \in Sessions \ Known, at \in Times, students \in SUBSET Learners :
           \E records \in Sheets(students) :
             /\ start' = [start EXCEPT ![s] = at]
             /\ roster' = [roster EXCEPT ![s] = students]
             /\ refused' \in {refused, refused \cup {s}}
             /\ mark' = [k \in Key |-> IF k[1] = s /\ k[2] \in students
                                        THEN Upserted(NoRow, records[k[2]], 0) ELSE mark[k]]
    BY DEF ImportHistory
  <1>2. PICK records \in Sheets(students) :
             /\ start' = [start EXCEPT ![s] = at]
             /\ roster' = [roster EXCEPT ![s] = students]
             /\ refused' \in {refused, refused \cup {s}}
             /\ mark' = [k \in Key |-> IF k[1] = s /\ k[2] \in students
                                        THEN Upserted(NoRow, records[k[2]], 0) ELSE mark[k]]
    BY <1>1
  <1>3. /\ start' \in [Sessions -> {0} \cup Times] /\ Known \subseteq Known' /\ s \in Known'
    BY <1>2, AttendanceAssumption DEF ServerOK, Known
  <1>4. roster' \in [Sessions -> SUBSET Learners] /\ refused' \subseteq Sessions
    BY <1>2 DEF ServerOK
  <1>5. ASSUME NEW k \in Key
        PROVE  /\ mark'[k] \in Row \cup {NoRow}
               /\ \/ mark'[k] = mark[k]
                  \/ /\ mark[k] = NoRow /\ mark'[k] \in Row /\ k[1] \in Known'
                     /\ mark'[k].sync = "PENDING" /\ mark'[k].batch = "none" /\ mark'[k].held = 0
    <2>1. CASE k[1] = s /\ k[2] \in students
      <3>1. records[k[2]] \in Statuses
        BY <1>2, <2>1 DEF Sheets
      <3>2. mark[k] = NoRow
        BY <1>2, <2>1 DEF KnownOnly, Marked
      <3>3. mark'[k] = Upserted(NoRow, records[k[2]], 0)
        BY <1>2, <2>1
      <3> QED BY <1>3, <2>1, <3>1, <3>2, <3>3, UpsertedIs
    <2>2. CASE ~(k[1] = s /\ k[2] \in students)
      BY <1>2, <2>2 DEF ServerOK
    <2> QED BY <2>1, <2>2
  <1> QED BY <1>2, <1>3, <1>4, <1>5

-----------------------------------------------------------------------------
(* Which actions change the rows, and which the requests.                   *)

\* Rows are written by upserts, claims, settlements and imports only.
LEMMA MarkSteps ==
  ASSUME [Next]_vars
  PROVE  \/ UNCHANGED mark
         \/ \E r \in Slots : UpsertMark(r)
         \/ \E e \in Exports : ClaimBatch(e) \/ MarkExported(e)
         \/ ImportHistory
  <1>1. ASSUME ServerNext
        PROVE  \/ UNCHANGED mark
               \/ \E r \in Slots : UpsertMark(r)
               \/ \E e \in Exports : ClaimBatch(e) \/ MarkExported(e)
               \/ ImportHistory
    BY <1>1 DEF ServerNext, BulkMark, BumpUsersLastActive, FailPost, FindPendingIds, FindExportRows,
                AbortExport, ChangeRoster, MoveSession, DeleteUser, serverVars
  <1>2. Device \/ Page \/ (\E r \in Slots : GetAnswer(r) \/ GiveUp(r)) \/ UNCHANGED vars => UNCHANGED mark
    BY DEF Device, Page, GoOffline, GoOnline, OpenPanel, SubmitOffline, StartFlush, RestartApp, SubmitOnline,
           FlushGroup, SelectSchedule, UpdateRecord, DoClose, LoadRoster, LoadFails, HandleSubmit, GetAnswer,
           GiveUp, serverVars, vars
  <1> QED BY <1>1, <1>2 DEF Next

\* The actions that change a request.
LEMMA PostSteps ==
  ASSUME [Next]_vars
  PROVE  \/ UNCHANGED post
         \/ \E r \in Slots : \/ BulkMark(r) \/ UpsertMark(r) \/ BumpUsersLastActive(r) \/ FailPost(r)
                             \/ GetAnswer(r) \/ GiveUp(r) \/ SubmitOnline(r) \/ FlushGroup(r)
                             \/ HandleSubmit(r)
         \/ RestartApp
  <1>1. ServerNext => \/ UNCHANGED post
                      \/ \E r \in Slots : BulkMark(r) \/ UpsertMark(r) \/ BumpUsersLastActive(r) \/ FailPost(r)
    BY DEF ServerNext, FindPendingIds, ClaimBatch, FindExportRows, MarkExported, AbortExport,
           ChangeRoster, MoveSession, ImportHistory, DeleteUser
  <1>2. Device => UNCHANGED post \/ RestartApp \/ \E r \in Slots : SubmitOnline(r) \/ FlushGroup(r)
    BY DEF Device, GoOffline, GoOnline, OpenPanel, SubmitOffline, StartFlush
  <1>3. Page => UNCHANGED post \/ \E r \in Slots : HandleSubmit(r)
    BY DEF Page, SelectSchedule, UpdateRecord, DoClose, LoadRoster, LoadFails
  <1>4. UNCHANGED vars => UNCHANGED post
    BY DEF vars
  <1> QED BY <1>1, <1>2, <1>3, <1>4 DEF Next

\* Only the bump of a request changes a last activity.
LEMMA ActiveSteps ==
  ASSUME [Next]_vars
  PROVE  UNCHANGED active \/ \E r \in Slots : BumpUsersLastActive(r)
  <1>1. ServerNext => UNCHANGED active \/ \E r \in Slots : BumpUsersLastActive(r)
    BY DEF ServerNext, BulkMark, UpsertMark, FailPost, FindPendingIds, ClaimBatch, FindExportRows,
           MarkExported, AbortExport, ChangeRoster, MoveSession, ImportHistory, DeleteUser, serverVars
  <1>2. Device \/ Page \/ (\E r \in Slots : GetAnswer(r) \/ GiveUp(r)) \/ UNCHANGED vars => UNCHANGED active
    BY DEF Device, Page, GoOffline, GoOnline, OpenPanel, SubmitOffline, StartFlush, RestartApp, SubmitOnline,
           FlushGroup, SelectSchedule, UpdateRecord, DoClose, LoadRoster, LoadFails, HandleSubmit, GetAnswer,
           GiveUp, serverVars, vars
  <1> QED BY <1>1, <1>2 DEF Next

\* A failure is never forgotten.
LEMMA FaultySteps ==
  ASSUME [Next]_vars
  PROVE  UNCHANGED faulty \/ faulty' = TRUE
  <1>1. ServerNext => UNCHANGED faulty \/ faulty' = TRUE
    BY DEF ServerNext, BulkMark, UpsertMark, BumpUsersLastActive, FailPost, FindPendingIds, ClaimBatch,
           FindExportRows, MarkExported, AbortExport, ChangeRoster, MoveSession, ImportHistory, DeleteUser, serverVars
  <1>2. Device \/ Page \/ (\E r \in Slots : GetAnswer(r) \/ GiveUp(r)) \/ UNCHANGED vars => UNCHANGED faulty
    BY DEF Device, Page, GoOffline, GoOnline, OpenPanel, SubmitOffline, StartFlush, RestartApp, SubmitOnline,
           FlushGroup, SelectSchedule, UpdateRecord, DoClose, LoadRoster, LoadFails, HandleSubmit, GetAnswer,
           GiveUp, serverVars, vars
  <1> QED BY <1>1, <1>2 DEF Next

-----------------------------------------------------------------------------
(* Types.                                                                   *)

DeviceOK ==
    /\ online \in BOOLEAN
    /\ cached \in [Sessions -> (SUBSET Learners) \cup {NoRoster}]
    /\ panel \in [open : {TRUE}, session : Sessions, seen : SUBSET Learners] \cup {Closed}
    /\ queue \in Files
    /\ flush \in [step : {"next", "wait"}, rows : Files] \cup {Resting}
    /\ told \subseteq Key

\* What the attendance page may show.
Pages == [selected : Sessions \cup {"nothing"}, dirty : BOOLEAN,
          sheet : [of : Sessions \cup {"nothing"}, records : Payloads]]

PageOK == page \in Pages /\ loads \subseteq Sessions

\* The flush waits for at most one request, and no request is one of a flush
\* that has ended.
FlushPosts == {r \in Slots : post[r] # Idle /\ post[r].for = "flush"}
FlushAlone ==
    /\ FlushPosts # {} => flush # Resting /\ flush.step = "wait"
    /\ \A q, r \in FlushPosts : q = r

Typed == ServerOK /\ PostOK /\ DeviceOK /\ PageOK /\ FlushAlone /\ IdsMarked /\ KnownOnly

\* The invariant says more than the types.
LEMMA TypedIsTypeOK == Typed => TypeOK
  BY DEF Typed, ServerOK, PostOK, DeviceOK, PageOK, Pages, TypeOK, AttendanceTypeOK, ClientTypeOK

\* The rows read by an export make a file.
LEMMA ExportFile ==
  ASSUME ServerOK, NEW e \in Exports
  PROVE  [k \in {x \in Batch(e) : x[2] \notin gone} |-> mark[k].status] \in Files
  <1> DEFINE D == {x \in Batch(e) : x[2] \notin gone}
  <1>1. D \in SUBSET Key
    BY DEF Batch, Marked
  <1>2. \A k \in D : mark[k].status \in Statuses
    BY RowIs DEF Batch, Marked, ServerOK
  <1>3. [k \in D |-> mark[k].status] \in [D -> Statuses]
    BY <1>2
  <1> QED BY <1>1, <1>3, FileIs

\* An export keeps its record of steps, claims and file.
LEMMA ExportTyping ==
  ASSUME ServerOK, [Next]_vars
  PROVE  /\ export' \in [Exports -> Export]
         /\ \A e \in Exports : export'[e].ids = export[e].ids \/ export'[e].ids \subseteq Marked
         /\ \A e \in Exports : \/ export'[e].file = export[e].file
                               \/ DOMAIN export'[e].file \subseteq Batch(e) /\ UNCHANGED mark
  <1> DEFINE Kept(e) ==
               /\ export' \in [Exports -> Export]
               /\ \A d \in Exports \ {e} : export'[d] = export[d]
               /\ export'[e].ids = export[e].ids \/ export'[e].ids \subseteq Marked
               /\ \/ export'[e].file = export[e].file
                  \/ DOMAIN export'[e].file \subseteq Batch(e) /\ UNCHANGED mark
  <1>1. ASSUME NEW e \in Exports, FindPendingIds(e) PROVE Kept(e)
    <2>1. {k \in Marked : mark[k].sync = "PENDING"} \in SUBSET Key
      BY DEF Marked
    <2> QED BY <1>1, <2>1 DEF FindPendingIds, Become, ServerOK, Export
  <1>2. ASSUME NEW e \in Exports, ClaimBatch(e) PROVE Kept(e)
    BY <1>2 DEF ClaimBatch, Become, ServerOK, Export
  <1>3. ASSUME NEW e \in Exports, FindExportRows(e) PROVE Kept(e)
    <2> DEFINE f == [k \in {x \in Batch(e) : x[2] \notin gone} |-> mark[k].status]
    <2>1. f \in Files /\ DOMAIN f \subseteq Batch(e)
      BY ExportFile
    <2>2. export' = [export EXCEPT ![e] = [export[e] EXCEPT !.step = "mark", !.file = f]] /\ UNCHANGED mark
      BY <1>3 DEF FindExportRows, Become
    <2> HIDE DEF f
    <2> QED BY <2>1, <2>2 DEF ServerOK, Export
  <1>4. ASSUME NEW e \in Exports, MarkExported(e) PROVE Kept(e)
    BY <1>4 DEF MarkExported, Become, ServerOK, Export
  <1>5. ASSUME NEW e \in Exports, AbortExport(e) PROVE Kept(e)
    BY <1>5 DEF AbortExport, Become, ServerOK, Export
  <1>6. ServerNext => UNCHANGED export
                      \/ \E e \in Exports : FindPendingIds(e) \/ ClaimBatch(e) \/ FindExportRows(e)
                                            \/ MarkExported(e) \/ AbortExport(e)
    BY DEF ServerNext, BulkMark, UpsertMark, BumpUsersLastActive, FailPost, ChangeRoster, MoveSession, ImportHistory, DeleteUser, serverVars
  <1>7. Device \/ Page \/ (\E r \in Slots : GetAnswer(r) \/ GiveUp(r)) \/ UNCHANGED vars => UNCHANGED export
    BY DEF Device, Page, GoOffline, GoOnline, OpenPanel, SubmitOffline, StartFlush, RestartApp, SubmitOnline,
           FlushGroup, SelectSchedule, UpdateRecord, DoClose, LoadRoster, LoadFails, HandleSubmit, GetAnswer,
           GiveUp, serverVars, vars
  <1>8. CASE UNCHANGED export
    BY <1>8 DEF ServerOK
  <1>9. CASE \E e \in Exports : Kept(e)
    BY <1>9
  <1> QED BY <1>1, <1>2, <1>3, <1>4, <1>5, <1>6, <1>7, <1>8, <1>9 DEF Next

\* A row, once written, stays, and so does the batch that claimed it.
LEMMA RowsStay ==
  ASSUME ServerOK, PostOK, IdsMarked, KnownOnly, [Next]_vars
  PROVE  /\ mark' \in [Key -> Row \cup {NoRow}]
         /\ Marked \subseteq Marked'
  <1>1. CASE UNCHANGED mark
    BY <1>1 DEF ServerOK, Marked
  <1>2. ASSUME NEW r \in Slots, UpsertMark(r)
        PROVE  mark' \in [Key -> Row \cup {NoRow}] /\ Marked \subseteq Marked'
    <2>1. \A k \in Key : mark'[k] = mark[k] \/ mark'[k] \in Row
      BY <1>2, UpsertRow
    <2> QED BY <1>2, <2>1, UpsertRow, RowIs DEF Marked
  <1>3. ASSUME NEW e \in Exports, ClaimBatch(e) \/ MarkExported(e)
        PROVE  mark' \in [Key -> Row \cup {NoRow}] /\ Marked \subseteq Marked'
    <2>1. \A k \in Key : mark'[k] = mark[k] \/ mark'[k] \in Row
      BY <1>3, ClaimRows, ExportedRows
    <2> QED BY <1>3, <2>1, ClaimRows, ExportedRows, RowIs DEF Marked
  <1>4. CASE ImportHistory
    BY <1>4, ImportRows, RowIs DEF Marked
  <1> QED BY <1>1, <1>2, <1>3, <1>4, MarkSteps

\* Sessions are moved and imported, never deleted while they have marks.
LEMMA KnownStays ==
  ASSUME ServerOK, KnownOnly, [Next]_vars
  PROVE  start' \in [Sessions -> {0} \cup Times] /\ Known \subseteq Known'
  <1>1. CASE MoveSession
    <2>1. PICK s \in Known, at \in Times : start' = [start EXCEPT ![s] = at]
      BY <1>1 DEF MoveSession
    <2> QED BY <2>1, AttendanceAssumption DEF ServerOK, Known
  <1>2. CASE ImportHistory
    BY <1>2, ImportRows
  <1>3. ServerNext => UNCHANGED start \/ MoveSession \/ ImportHistory
    BY DEF ServerNext, BulkMark, UpsertMark, BumpUsersLastActive, FailPost, FindPendingIds, ClaimBatch,
           FindExportRows, MarkExported, AbortExport, ChangeRoster, DeleteUser, serverVars
  <1>4. Device \/ Page \/ (\E r \in Slots : GetAnswer(r) \/ GiveUp(r)) \/ UNCHANGED vars => UNCHANGED start
    BY DEF Device, Page, GoOffline, GoOnline, OpenPanel, SubmitOffline, StartFlush, RestartApp, SubmitOnline,
           FlushGroup, SelectSchedule, UpdateRecord, DoClose, LoadRoster, LoadFails, HandleSubmit, GetAnswer,
           GiveUp, serverVars, vars
  <1> QED BY <1>1, <1>2, <1>3, <1>4 DEF Next, ServerOK, Known

\* The tables of the server and the exports keep their types.
LEMMA ServerTyping ==
  ASSUME Typed, [Next]_vars
  PROVE  ServerOK' /\ IdsMarked'
  <1> USE DEF Typed
  <1>1. mark' \in [Key -> Row \cup {NoRow}] /\ Marked \subseteq Marked'
    BY RowsStay
  <1>2. export' \in [Exports -> Export] /\ IdsMarked'
    BY <1>1, ExportTyping DEF IdsMarked
  <1>3. roster' \in [Sessions -> SUBSET Learners] /\ refused' \subseteq Sessions /\ gone' \subseteq Learners
    <2>1. CASE ChangeRoster
      BY <2>1 DEF ChangeRoster, ServerOK, Known
    <2>2. CASE DeleteUser
      BY <2>2 DEF DeleteUser, ServerOK
    <2>3. CASE MoveSession
      BY <2>3 DEF MoveSession, ServerOK, Known
    <2>4. CASE ImportHistory
      <3>1. UNCHANGED gone
        BY <2>4 DEF ImportHistory
      <3> QED BY <2>4, <3>1, ImportRows DEF ServerOK
    <2>5. ServerNext => \/ UNCHANGED <<roster, refused, gone>>
                        \/ ChangeRoster \/ DeleteUser \/ MoveSession \/ ImportHistory
      BY DEF ServerNext, BulkMark, UpsertMark, BumpUsersLastActive, FailPost, FindPendingIds, ClaimBatch,
             FindExportRows, MarkExported, AbortExport, serverVars
    <2>6. Device \/ Page \/ (\E r \in Slots : GetAnswer(r) \/ GiveUp(r)) \/ UNCHANGED vars
             => UNCHANGED <<roster, refused, gone>>
      BY DEF Device, Page, GoOffline, GoOnline, OpenPanel, SubmitOffline, StartFlush, RestartApp, SubmitOnline,
             FlushGroup, SelectSchedule, UpdateRecord, DoClose, LoadRoster, LoadFails, HandleSubmit, GetAnswer,
             GiveUp, serverVars, vars
    <2>7. CASE UNCHANGED <<roster, refused, gone>>
      BY <2>7 DEF ServerOK
    <2> QED BY <2>1, <2>2, <2>3, <2>4, <2>5, <2>6, <2>7 DEF Next
  <1>4. active' \in [Learners -> {0} \cup Times]
    <2>1. ASSUME NEW r \in Slots, BumpUsersLastActive(r)
          PROVE  active' \in [Learners -> {0} \cup Times]
      <3>1. post[r].start \in {0} \cup Times
        BY <2>1, BumpIs, PostIs
      <3>2. \A l \in Learners : Greatest(active[l], post[r].start) \in {0} \cup Times
        BY <3>1 DEF Greatest, ServerOK
      <3>3. \A l \in Learners : active[l] \in {0} \cup Times
        BY DEF ServerOK
      <3> QED BY <2>1, <3>2, <3>3 DEF BumpUsersLastActive
    <2> QED BY <2>1, ActiveSteps DEF ServerOK
  <1>5. events' \in 0 .. MaxEvents
    <2>1. UNCHANGED events \/ Event
      <3>1. ServerNext => UNCHANGED events \/ Event
        BY DEF ServerNext, BulkMark, UpsertMark, BumpUsersLastActive, FailPost, FindPendingIds, ClaimBatch,
               FindExportRows, MarkExported, AbortExport, ChangeRoster, MoveSession, ImportHistory, DeleteUser
      <3>2. Device \/ Page => UNCHANGED events \/ Event
        BY DEF Device, Page, GoOffline, GoOnline, OpenPanel, SubmitOffline, StartFlush, RestartApp, SubmitOnline,
               FlushGroup, SelectSchedule, UpdateRecord, DoClose, LoadRoster, LoadFails, HandleSubmit
      <3>3. ASSUME NEW r \in Slots, GetAnswer(r) \/ GiveUp(r) PROVE UNCHANGED events \/ Event
        BY <3>3 DEF GetAnswer, GiveUp
      <3>4. UNCHANGED vars => UNCHANGED events
        BY DEF vars
      <3> QED BY <3>1, <3>2, <3>3, <3>4 DEF Next
    <2> QED BY <2>1, AttendanceAssumption DEF Event, ServerOK
  <1>6. faulty' \in BOOLEAN
    BY FaultySteps DEF ServerOK
  <1>7. start' \in [Sessions -> {0} \cup Times]
    BY KnownStays
  <1> QED BY <1>1, <1>2, <1>3, <1>4, <1>5, <1>6, <1>7 DEF ServerOK

\* An open panel is that of a session.
LEMMA PanelIs ==
  ASSUME DeviceOK, panel.open
  PROVE  panel.session \in Sessions /\ panel.seen \subseteq Learners
  <1>1. panel # Closed
    BY DEF Closed
  <1>2. panel \in [open : {TRUE}, session : Sessions, seen : SUBSET Learners]
    BY <1>1 DEF DeviceOK
  <1> QED BY <1>2

\* What the clients send are payloads, and the device flushes one request at a time.
LEMMA SubmitIs ==
  ASSUME Typed, NEW r \in Slots, SubmitOnline(r)
  PROVE  /\ PostOK' /\ \A q \in Slots \ {r} : post'[q] = post[q]
         /\ post[r] = Idle /\ post'[r] \in Post /\ post'[r].step = "sent" /\ post'[r].for = "panel"
         /\ post'[r].left = DOMAIN post'[r].records
  <1>1. panel.session \in Sessions /\ panel.seen \subseteq Learners
    BY PanelIs DEF SubmitOnline, Typed
  <1>2. PICK records \in Sheets(panel.seen) : Send(r, "panel", panel.session, records)
    BY DEF SubmitOnline
  <1>3. records \in Payloads
    BY <1>1, <1>2, PayloadIs DEF Sheets
  <1> QED BY <1>1, <1>2, <1>3, SendIs DEF Typed, Clients

\* The flush sends the queued rows of one session, and waits.
LEMMA FlushIs ==
  ASSUME Typed, NEW r \in Slots, FlushGroup(r)
  PROVE  /\ PostOK' /\ \A q \in Slots \ {r} : post'[q] = post[q]
         /\ post[r] = Idle /\ post'[r] \in Post /\ post'[r].step = "sent" /\ post'[r].for = "flush"
         /\ post'[r].left = DOMAIN post'[r].records
         /\ flush.step = "next" /\ flush'.step = "wait" /\ flush' # Resting
         /\ flush' \in [step : {"next", "wait"}, rows : Files]
  <1>1. flush.step = "next" /\ flush.rows \in Files /\ flush \in [step : {"next", "wait"}, rows : Files]
    BY DEF FlushGroup, Typed, DeviceOK, Resting
  <1>2. PICK s \in Queued(flush.rows) : Send(r, "flush", s, Records(flush.rows, s))
    BY DEF FlushGroup
  <1>3. s \in Sessions /\ Records(flush.rows, s) \in Payloads
    BY <1>1, <1>2, RecordsIs
  <1>4. flush' \in [step : {"next", "wait"}, rows : Files] /\ flush'.step = "wait" /\ flush' # Resting
    BY <1>1 DEF FlushGroup, Resting
  <1> QED BY <1>1, <1>2, <1>3, <1>4, SendIs DEF Typed, Clients

\* The page sends the sheet it shows.
LEMMA HandleSubmitIs ==
  ASSUME Typed, NEW r \in Slots, HandleSubmit(r)
  PROVE  /\ PostOK' /\ \A q \in Slots \ {r} : post'[q] = post[q]
         /\ post[r] = Idle /\ post'[r] \in Post /\ post'[r].step = "sent" /\ post'[r].for = "page"
         /\ post'[r].left = DOMAIN post'[r].records
  <1>1. page.selected \in Sessions /\ page.sheet.records \in Payloads
    BY DEF HandleSubmit, Typed, PageOK, Pages
  <1> QED BY <1>1, SendIs DEF HandleSubmit, Typed, Clients

\* Every request keeps its type.
LEMMA PostTyping ==
  ASSUME Typed, [Next]_vars
  PROVE  PostOK'
  <1>1. CASE UNCHANGED post
    BY <1>1 DEF Typed, PostOK
  <1>2. ASSUME NEW r \in Slots,
               \/ BulkMark(r) \/ UpsertMark(r) \/ BumpUsersLastActive(r) \/ FailPost(r)
               \/ GetAnswer(r) \/ GiveUp(r) \/ SubmitOnline(r) \/ FlushGroup(r) \/ HandleSubmit(r)
        PROVE  PostOK'
    BY <1>2, BulkMarkIs, UpsertIs, BumpIs, FailPostIs, GetAnswerIs, GiveUpIs, SubmitIs, FlushIs,
       HandleSubmitIs DEF Typed
  <1>3. CASE RestartApp
    BY <1>3, RestartIs DEF Typed
  <1> QED BY <1>1, <1>2, <1>3, PostSteps

\* A mark is written, and a request begins to write, in sessions that exist.
LEMMA KnownTyping ==
  ASSUME Typed, [Next]_vars
  PROVE  KnownOnly'
  <1> USE DEF Typed
  <1>1. Known \subseteq Known'
    BY KnownStays
  <1>2. ASSUME NEW k \in Marked' PROVE k[1] \in Known'
    <2>1. k \in Key /\ mark'[k] # NoRow
      BY DEF Marked
    <2>2. CASE k \in Marked
      BY <1>1, <2>2 DEF KnownOnly
    <2>3. CASE k \notin Marked
      <3>1. mark[k] = NoRow /\ mark'[k] # mark[k] /\ mark[k] \notin Row
        BY <2>1, <2>3, RowIs DEF Marked
      <3>2. ASSUME NEW r \in Slots, UpsertMark(r) PROVE k[1] \in Known'
        <4>1. post[r] \in Post /\ post[r].step = "write"
          BY <3>2, UpsertIs
        <4>2. PICK l \in post[r].left : \A j \in Key \ {<<post[r].session, l>>} : mark'[j] = mark[j]
          BY <3>2, UpsertRow
        <4>3. k[1] = post[r].session
          BY <2>1, <3>1, <4>2
        <4> QED BY <1>1, <4>1, <4>3, PostIs DEF KnownOnly
      <3>3. CASE ImportHistory
        BY <2>1, <3>1, <3>3, ImportRows
      <3> QED BY <2>1, <3>1, <3>2, <3>3, MarkSteps, ClaimRows, ExportedRows
    <2> QED BY <2>2, <2>3
  <1>3. ASSUME NEW r \in Slots, post'[r] # Idle, post'[r].step = "write" PROVE post'[r].session \in Known'
    <2>1. CASE post'[r] = post[r]
      BY <1>1, <1>3, <2>1 DEF KnownOnly
    <2>2. CASE post[r] \in Post /\ Continues(post[r], post'[r]) /\ post[r].step = "write"
      BY <1>1, <2>2, PostIs DEF KnownOnly, Continues
    <2>3. CASE BulkMark(r)
      BY <1>1, <1>3, <2>3, BulkKnown, BulkMarkIs DEF Continues
    <2>4. CASE UpsertMark(r)
      BY <1>1, <2>4, UpsertIs, PostIs DEF KnownOnly
    <2>5. CASE BumpUsersLastActive(r) \/ FailPost(r) \/ GetAnswer(r) \/ SubmitOnline(r) \/ FlushGroup(r) \/ HandleSubmit(r)
      BY <1>3, <2>5, BumpIs, FailPostIs, GetAnswerIs, SubmitIs, FlushIs, HandleSubmitIs
    <2>6. CASE GiveUp(r) \/ RestartApp
      <3>1. post'[r] = post[r] \/ (post[r] \in Post /\ Continues(post[r], post'[r]) /\ post'[r].step = post[r].step)
        BY <1>3, <2>6, GiveUpIs, RestartIs
      <3> QED BY <1>3, <2>1, <2>2, <3>1
    <2>7. ASSUME NEW q \in Slots, q # r,
                 \/ BulkMark(q) \/ UpsertMark(q) \/ BumpUsersLastActive(q) \/ FailPost(q)
                 \/ GetAnswer(q) \/ GiveUp(q) \/ SubmitOnline(q) \/ FlushGroup(q) \/ HandleSubmit(q)
          PROVE  post'[r] = post[r]
      BY <2>7, BulkMarkIs, UpsertIs, BumpIs, FailPostIs, GetAnswerIs, GiveUpIs, SubmitIs, FlushIs,
         HandleSubmitIs
    <2> QED BY <2>1, <2>3, <2>4, <2>5, <2>6, <2>7, PostSteps
  <1> QED BY <1>2, <1>3 DEF KnownOnly

\* What an answer, or giving up, does to the queue and the flush.
LEMMA HandleIs ==
  ASSUME Typed, NEW r \in Slots, post[r] \in Post, post[r].for # "nobody",
         NEW outcome \in {"ok", "failed"}, Handle(r, outcome)
  PROVE  /\ queue' \in Files
         /\ flush' \in [step : {"next", "wait"}, rows : Files] \cup {Resting}
         /\ told' \subseteq Key
         /\ page' = page \/ page' = [page EXCEPT !.dirty = @ /\ outcome # "ok"]
         /\ post[r].for # "flush" => flush' = flush
         /\ DOMAIN queue \subseteq DOMAIN queue' \cup (IF outcome = "ok" /\ post[r].for = "flush"
                                                      THEN Keys(post[r].session, post[r].records) ELSE {})
         /\ told' \subseteq told \cup (IF outcome = "ok"
                                      THEN Keys(post[r].session, post[r].records) ELSE DOMAIN queue')
  <1> DEFINE s == post[r].session
             records == post[r].records
             K == Keys(s, records)
  <1>1. s \in Sessions /\ records \in Payloads /\ post[r].for \in {"flush", "panel", "page"}
    BY PostIs DEF Clients
  <1>2. queue \in Files /\ told \subseteq Key /\ flush \in [step : {"next", "wait"}, rows : Files] \cup {Resting}
    BY DEF Typed, DeviceOK
  <1>3. /\ Enqueued(s, records) \in Files /\ DOMAIN Enqueued(s, records) = DOMAIN queue \cup K
        /\ K \subseteq Key /\ Without(queue, K) \in Files /\ DOMAIN Without(queue, K) = DOMAIN queue \ K
    BY <1>1, <1>2, QueueIs, WithoutIs
  <1>4. CASE post[r].for = "flush"
    <2>1. queue' = Accepted(s, records, outcome) /\ flush' = AfterGroup(s, outcome) /\ UNCHANGED <<told, page>>
      BY <1>4 DEF Handle
    <2>2. r \in FlushPosts
      BY <1>4, PostIs DEF FlushPosts
    <2>3. flush \in [step : {"next", "wait"}, rows : Files]
      BY <1>2, <2>2 DEF Typed, FlushAlone
    <2>4. AfterGroup(s, outcome) \in [step : {"next", "wait"}, rows : Files] \cup {Resting}
      <3>1. Without(flush.rows, Group(flush.rows, s)) \in Files
        BY <2>3, WithoutIs
      <3> QED BY <3>1 DEF AfterGroup
    <2> QED BY <1>2, <1>3, <1>4, <2>1, <2>4 DEF Accepted
  <1>5. CASE post[r].for = "panel"
    <2>1. /\ queue' = IF outcome = "ok" THEN queue ELSE Enqueued(s, records)
          /\ told' = told \cup K /\ UNCHANGED <<flush, page>>
      BY <1>5 DEF Handle
    <2> QED BY <1>2, <1>3, <1>5, <2>1
  <1>6. CASE post[r].for = "page"
    <2>1. page' = [page EXCEPT !.dirty = @ /\ outcome # "ok"] /\ UNCHANGED <<queue, flush, told>>
      BY <1>6 DEF Handle
    <2> QED BY <1>2, <1>6, <2>1
  <1> QED BY <1>1, <1>4, <1>5, <1>6

\* A client handles the outcome the server gave, or a failure.
LEMMA AnswerIs ==
  ASSUME NEW r \in Slots, GetAnswer(r) \/ GiveUp(r)
  PROVE  \E outcome \in {"ok", "failed"} :
            /\ Handle(r, outcome) /\ (outcome = "ok" => post[r].step = "ok")
            /\ UNCHANGED <<serverVars, online, cached, panel, loads>>
  <1>1. CASE GetAnswer(r)
    <2>1. /\ Handle(r, post[r].step) /\ post[r].step \in {"ok", "failed"}
          /\ UNCHANGED <<serverVars, online, cached, panel, loads>>
      BY <1>1 DEF GetAnswer
    <2>2. CASE post[r].step = "ok"
      <3>1. Handle(r, "ok")
        BY <2>1, <2>2
      <3> QED BY <2>1, <2>2, <3>1
    <2>3. CASE post[r].step = "failed"
      <3>1. Handle(r, "failed")
        BY <2>1, <2>3
      <3> QED BY <2>1, <3>1
    <2> QED BY <2>1, <2>2, <2>3
  <1>2. CASE GiveUp(r)
    <2>1. Handle(r, "failed") /\ UNCHANGED <<serverVars, online, cached, panel, loads>>
      BY <1>2 DEF GiveUp
    <2> QED BY <2>1
  <1> QED BY <1>1, <1>2

\* The device keeps its types.
LEMMA DeviceTyping ==
  ASSUME Typed, [Next]_vars
  PROVE  DeviceOK'
  <1> USE DEF Typed
  <1>1. ASSUME UNCHANGED deviceVars PROVE DeviceOK'
    BY <1>1 DEF deviceVars, DeviceOK
  <1>2. CASE ServerNext /\ UNCHANGED <<deviceVars, pageVars>>
    BY <1>1, <1>2
  <1>3. CASE Page
    BY <1>1, <1>3 DEF Page, SelectSchedule, UpdateRecord, DoClose, LoadRoster, LoadFails, HandleSubmit
  <1>0. \A connected \in BOOLEAN : Started(connected) \in [step : {"next", "wait"}, rows : Files] \cup {Resting}
    BY DEF Started, DeviceOK
  <1>4. CASE GoOffline \/ GoOnline
    BY <1>0, <1>4 DEF GoOffline, GoOnline, DeviceOK
  <1>5. CASE OpenPanel
    <2>1. PICK s \in Sessions :
            LET seen == IF cached[s] # NoRoster THEN cached[s] ELSE roster[s] IN
            /\ panel' = [open |-> TRUE, session |-> s, seen |-> seen]
            /\ cached' = IF online THEN [cached EXCEPT ![s] = roster[s]] ELSE cached
      BY <1>5 DEF OpenPanel, Known
    <2>2. cached[s] \in (SUBSET Learners) \cup {NoRoster} /\ roster[s] \in SUBSET Learners
      BY DEF DeviceOK, ServerOK
    <2>3. cached' \in [Sessions -> (SUBSET Learners) \cup {NoRoster}]
      BY <2>1, <2>2 DEF DeviceOK
    <2>4. panel' \in [open : {TRUE}, session : Sessions, seen : SUBSET Learners] \cup {Closed}
      BY <2>1, <2>2
    <2> QED BY <1>5, <2>3, <2>4 DEF OpenPanel, DeviceOK
  <1>6. CASE SubmitOffline
    <2>1. panel.session \in Sessions /\ panel.seen \subseteq Learners
      BY <1>6, PanelIs DEF SubmitOffline
    <2>2. PICK records \in Sheets(panel.seen) :
             queue' = Enqueued(panel.session, records) /\ told' = told \cup Keys(panel.session, records)
      BY <1>6 DEF SubmitOffline
    <2>3. records \in Payloads
      BY <2>1, <2>2, PayloadIs DEF Sheets
    <2>4. queue' \in Files /\ told' \subseteq Key
      BY <2>1, <2>2, <2>3, QueueIs DEF DeviceOK
    <2> QED BY <1>6, <2>4 DEF SubmitOffline, DeviceOK
  <1>7. CASE StartFlush
    BY <1>0, <1>7 DEF StartFlush, DeviceOK
  <1>8. CASE RestartApp
    BY <1>0, <1>8 DEF RestartApp, DeviceOK
  <1>9. ASSUME NEW r \in Slots, SubmitOnline(r) PROVE DeviceOK'
    BY <1>9 DEF SubmitOnline, DeviceOK
  <1>10. ASSUME NEW r \in Slots, FlushGroup(r) PROVE DeviceOK'
    <2>1. flush' \in [step : {"next", "wait"}, rows : Files]
      BY <1>10, FlushIs
    <2> QED BY <1>10, <2>1 DEF FlushGroup, DeviceOK
  <1>11. ASSUME NEW r \in Slots, GetAnswer(r) \/ GiveUp(r) PROVE DeviceOK'
    <2>1. PICK outcome \in {"ok", "failed"} : Handle(r, outcome) /\ UNCHANGED <<online, cached, panel>>
      BY <1>11, AnswerIs
    <2>2. post[r] \in Post /\ post[r].for # "nobody"
      BY <1>11, GetAnswerIs, GiveUpIs
    <2> QED BY <2>1, <2>2, HandleIs DEF DeviceOK
  <1>12. CASE UNCHANGED vars
    BY <1>1, <1>12 DEF vars
  <1> QED BY <1>2, <1>3, <1>4, <1>5, <1>6, <1>7, <1>8, <1>9, <1>10, <1>11, <1>12 DEF Next, Device

\* The sheet of a session is a payload.
LEMMA SheetIs ==
  ASSUME ServerOK, NEW s \in Sessions
  PROVE  Sheet(s) \in Payloads
  <1>1. roster[s] \in SUBSET Learners
    BY DEF ServerOK
  <1>2. \A l \in roster[s] : (IF <<s, l>> \in Marked THEN mark[<<s, l>>].status ELSE "P") \in Statuses
    BY AttendanceAssumption, RowIs DEF Marked, ServerOK
  <1>3. Sheet(s) \in [roster[s] -> Statuses]
    BY <1>2 DEF Sheet
  <1> QED BY <1>1, <1>3, PayloadIs

\* The page has no sheet, or the sheet of the session it shows; the answers of
\* earlier clicks bring their own session along.
PageMatches == page.selected = page.sheet.of \/ page.sheet = NoSheet

\* Every answer, click and edit keeps the page in its type and its sheet with its session.
LEMMA PageTyping ==
  ASSUME Typed, PageMatches, [Next]_vars
  PROVE  PageOK' /\ PageMatches'
  <1> USE DEF Typed
  <1>0. /\ NoPage \in Pages /\ NoPage.sheet = NoSheet /\ NoSheet \in [of : {"nothing"}, records : Payloads]
        /\ DOMAIN NoSheet.records = {}
    BY NothingIs DEF Pages, NoPage, NoSheet
  <1>1. ASSUME UNCHANGED pageVars PROVE PageOK' /\ PageMatches'
    BY <1>1 DEF pageVars, PageOK, PageMatches
  <1>2. CASE ServerNext /\ UNCHANGED <<deviceVars, pageVars>>
    BY <1>1, <1>2
  <1>3. CASE Device
    BY <1>1, <1>3 DEF Device, GoOffline, GoOnline, OpenPanel, SubmitOffline, StartFlush, RestartApp,
                      SubmitOnline, FlushGroup
  <1>4. CASE SelectSchedule
    <2>1. PICK s \in Sessions : page' = [NoPage EXCEPT !.selected = s] /\ loads' = loads \cup {s}
      BY <1>4 DEF SelectSchedule, Known
    <2>2. page' \in Pages /\ page'.sheet = NoSheet
      BY <1>0, <2>1 DEF Pages
    <2> QED BY <2>1, <2>2 DEF PageOK, PageMatches
  <1>5. ASSUME NEW s \in Sessions, LoadRoster(s) PROVE PageOK' /\ PageMatches'
    <2> DEFINE sheet == [of |-> s, records |-> Sheet(s)]
    <2>1. page' = [page EXCEPT !.selected = s, !.sheet = sheet] /\ loads' \subseteq loads
      BY <1>5 DEF LoadRoster, Loaded
    <2>2. sheet \in [of : Sessions \cup {"nothing"}, records : Payloads] /\ sheet.of = s
      BY SheetIs
    <2> HIDE DEF sheet
    <2> QED BY <2>1, <2>2 DEF PageOK, Pages, PageMatches
  <1>6. ASSUME NEW s \in Sessions, LoadFails(s) PROVE PageOK' /\ PageMatches'
    BY <1>6 DEF LoadFails, PageOK, PageMatches
  <1>7. CASE UpdateRecord
    <2>1. PICK records \in Sheets(DOMAIN page.sheet.records) :
             page' = [page EXCEPT !.sheet.records = records, !.dirty = TRUE]
      BY <1>7 DEF UpdateRecord
    <2>2. page \in Pages /\ page.sheet.records \in Payloads
      BY DEF PageOK, Pages
    <2>3. records \in Payloads
      BY <2>2, PayloadIs DEF Sheets
    <2>4. page.selected = page.sheet.of
      BY <1>0, <1>7 DEF UpdateRecord, PageMatches
    <2>5. page' \in Pages /\ page'.selected = page'.sheet.of
      BY <2>1, <2>2, <2>3, <2>4 DEF Pages
    <2> QED BY <1>7, <2>5 DEF UpdateRecord, PageOK, PageMatches
  <1>8. CASE DoClose
    BY <1>0, <1>8 DEF DoClose, PageOK, PageMatches
  <1>9. ASSUME NEW r \in Slots, HandleSubmit(r) PROVE PageOK' /\ PageMatches'
    BY <1>1, <1>9 DEF HandleSubmit
  <1>10. ASSUME NEW r \in Slots, GetAnswer(r) \/ GiveUp(r) PROVE PageOK' /\ PageMatches'
    <2>1. PICK outcome \in {"ok", "failed"} : Handle(r, outcome) /\ UNCHANGED loads
      BY <1>10, AnswerIs
    <2>2. post[r] \in Post /\ post[r].for # "nobody"
      BY <1>10, GetAnswerIs, GiveUpIs
    <2>3. page' = page \/ page' = [page EXCEPT !.dirty = @ /\ outcome # "ok"]
      BY <2>1, <2>2, HandleIs
    <2>4. page' \in Pages /\ page'.selected = page.selected /\ page'.sheet = page.sheet
      BY <2>3 DEF PageOK, Pages
    <2> QED BY <2>1, <2>4 DEF PageOK, PageMatches
  <1>11. CASE UNCHANGED vars
    BY <1>1, <1>11 DEF vars
  <1> QED BY <1>2, <1>3, <1>4, <1>5, <1>6, <1>7, <1>8, <1>9, <1>10, <1>11 DEF Next, Page

\* A request of a flush is sent while the flush waits for it, and for no other.
LEMMA FlushTyping ==
  ASSUME Typed, [Next]_vars
  PROVE  FlushAlone'
  <1> USE DEF Typed
  <1>1. ASSUME FlushPosts' \subseteq FlushPosts, FlushPosts' = {} \/ UNCHANGED flush PROVE FlushAlone'
    BY <1>1 DEF FlushAlone
  <1>2. CASE UNCHANGED <<post, flush>>
    BY <1>1, <1>2 DEF FlushPosts
  <1>3. ASSUME NEW r \in Slots,
               \/ BulkMark(r) \/ UpsertMark(r) \/ BumpUsersLastActive(r) \/ FailPost(r)
               \/ SubmitOnline(r) \/ HandleSubmit(r),
               UNCHANGED flush
        PROVE  FlushAlone'
    <2>1. \A q \in Slots \ {r} : post'[q] = post[q]
      BY <1>3, BulkMarkIs, UpsertIs, BumpIs, FailPostIs, SubmitIs, HandleSubmitIs
    <2>2. post'[r] # Idle /\ post'[r].for = "flush" => post[r] # Idle /\ post[r].for = "flush"
      BY <1>3, BulkMarkIs, UpsertIs, BumpIs, FailPostIs, SubmitIs, HandleSubmitIs, PostIs
    <2> QED BY <1>1, <1>3, <2>1, <2>2 DEF FlushPosts
  <1>4. ASSUME NEW r \in Slots, FlushGroup(r) PROVE FlushAlone'
    <2>1. /\ post[r] = Idle /\ \A q \in Slots \ {r} : post'[q] = post[q]
          /\ flush.step = "next" /\ flush'.step = "wait" /\ flush' # Resting
      BY <1>4, FlushIs
    <2>2. FlushPosts = {}
      BY <2>1 DEF FlushAlone
    <2>3. FlushPosts' \subseteq {r}
      BY <2>1, <2>2 DEF FlushPosts
    <2> QED BY <2>1, <2>3 DEF FlushAlone
  <1>5. ASSUME NEW r \in Slots, GetAnswer(r) \/ GiveUp(r) PROVE FlushAlone'
    <2>1. /\ post[r] \in Post /\ post[r].for # "nobody" /\ \A q \in Slots \ {r} : post'[q] = post[q]
          /\ post'[r] # Idle => post'[r].for = "nobody"
      BY <1>5, GetAnswerIs, GiveUpIs
    <2>2. post[r].for # "flush" => UNCHANGED flush
      BY <1>5, <2>1, AnswerIs, HandleIs
    <2>3. FlushPosts' = FlushPosts \ {r}
      BY <2>1 DEF FlushPosts
    <2>4. post[r].for = "flush" => FlushPosts' = {}
      BY <2>1, <2>3, PostIs DEF FlushPosts, FlushAlone
    <2> QED BY <1>1, <2>2, <2>3, <2>4
  <1>6. CASE RestartApp
    <2>1. FlushPosts' = {}
      BY <1>6, RestartIs DEF FlushPosts
    <2> QED BY <1>1, <2>1
  <1>7. \/ UNCHANGED <<post, flush>> \/ RestartApp
        \/ \E r \in Slots : \/ FlushGroup(r) \/ GetAnswer(r) \/ GiveUp(r)
                            \/ /\ \/ BulkMark(r) \/ UpsertMark(r) \/ BumpUsersLastActive(r) \/ FailPost(r)
                                  \/ SubmitOnline(r) \/ HandleSubmit(r)
                               /\ UNCHANGED flush
        \/ StartFlush \/ GoOnline
    <2>1. ServerNext /\ UNCHANGED <<deviceVars, pageVars>>
             => \/ UNCHANGED <<post, flush>>
                \/ \E r \in Slots : /\ BulkMark(r) \/ UpsertMark(r) \/ BumpUsersLastActive(r) \/ FailPost(r)
                                    /\ UNCHANGED flush
      BY DEF ServerNext, FindPendingIds, ClaimBatch, FindExportRows, MarkExported, AbortExport,
             ChangeRoster, MoveSession, ImportHistory, DeleteUser, deviceVars
    <2>2. Device => \/ UNCHANGED <<post, flush>> \/ RestartApp \/ StartFlush \/ GoOnline
                    \/ \E r \in Slots : FlushGroup(r) \/ (SubmitOnline(r) /\ UNCHANGED flush)
      BY DEF Device, GoOffline, OpenPanel, SubmitOffline, SubmitOnline
    <2>3. Page => UNCHANGED <<post, flush>> \/ \E r \in Slots : HandleSubmit(r) /\ UNCHANGED flush
      BY DEF Page, SelectSchedule, UpdateRecord, DoClose, LoadRoster, LoadFails, HandleSubmit, deviceVars
    <2>4. UNCHANGED vars => UNCHANGED <<post, flush>>
      BY DEF vars, deviceVars
    <2> QED BY <2>1, <2>2, <2>3, <2>4 DEF Next
  <1>8. CASE StartFlush
    <2>1. FlushPosts' = FlushPosts /\ flush = Resting
      BY <1>8 DEF StartFlush, FlushPosts
    <2> QED BY <1>1, <2>1 DEF FlushAlone
  <1>9. CASE GoOnline
    <2>1. FlushPosts' = FlushPosts /\ (flush = Resting \/ UNCHANGED flush)
      BY <1>9 DEF GoOnline, FlushPosts
    <2> QED BY <1>1, <2>1 DEF FlushAlone
  <1> QED BY <1>2, <1>3, <1>4, <1>5, <1>6, <1>7, <1>8, <1>9

\* The first state.
LEMMA TypedInit == Init => Typed /\ PageMatches
  <1> SUFFICES ASSUME Init PROVE Typed /\ PageMatches
    OBVIOUS
  <1> USE DEF Init, AttendanceInit
  <1>1. ServerOK /\ IdsMarked
    <2>1. export \in [Exports -> Export]
      BY NothingIs DEF Export
    <2>2. mark \in [Key -> Row \cup {NoRow}] /\ \A e \in Exports : export[e].ids \subseteq Marked
      OBVIOUS
    <2>3. active \in [Learners -> {0} \cup Times]
      OBVIOUS
    <2>4. /\ roster \in [Sessions -> SUBSET Learners] /\ start \in [Sessions -> {0} \cup Times]
          /\ events \in 0 .. MaxEvents
      BY AttendanceAssumption
    <2>5. refused \subseteq Sessions /\ gone \subseteq Learners /\ faulty \in BOOLEAN
      BY DEF Known
    <2> QED BY <2>1, <2>2, <2>3, <2>4, <2>5 DEF ServerOK, IdsMarked
  <1>2. PostOK /\ FlushAlone /\ KnownOnly
    BY DEF PostOK, SlotOK, FlushAlone, FlushPosts, KnownOnly, Marked
  <1>3. DeviceOK
    BY NothingIs DEF DeviceOK
  <1>4. PageOK /\ PageMatches
    BY NothingIs DEF PageOK, Pages, NoPage, NoSheet, PageMatches
  <1> QED BY <1>1, <1>2, <1>3, <1>4 DEF Typed

TypedMatched == Typed /\ PageMatches

\* The types hold throughout.
LEMMA TypedHolds == Spec => []TypedMatched
  <1>1. Init => TypedMatched
    BY TypedInit DEF TypedMatched
  <1>2. TypedMatched /\ [Next]_vars => TypedMatched'
    BY ServerTyping, PostTyping, KnownTyping, DeviceTyping, PageTyping, FlushTyping DEF Typed, TypedMatched
  <1> QED BY <1>1, <1>2, PTL DEF Spec

\* Requests, exports, the device and the page keep every variable in its type.
THEOREM Typing == Spec => []TypeOK
  <1>1. TypedMatched => TypeOK
    BY TypedIsTypeOK DEF TypedMatched
  <1> QED BY <1>1, TypedHolds, PTL

\* The sheet on the attendance page is that of the selected session, however
\* late the rosters of earlier clicks arrive.
THEOREM SheetMatches == Spec => []SheetMatchesSession
  <1>1. TypedMatched => SheetMatchesSession
    BY DEF TypedMatched, PageMatches, SheetMatchesSession
  <1> QED BY <1>1, TypedHolds, PTL

-----------------------------------------------------------------------------
(* Exports.                                                                 *)

\* A row that was claimed is never pending again, and the file of an export
\* holds only marks of its batch.
Filed ==
    /\ \A k \in Marked : mark[k].sync = "PENDING" => mark[k].batch = "none"
    /\ \A e \in Exports : \A k \in DOMAIN export[e].file : k \in Marked /\ mark[k].batch = e

\* A batch, once given, stays.
LEMMA BatchStays ==
  ASSUME Typed, Filed, [Next]_vars, NEW k \in Marked
  PROVE  /\ k \in Marked' /\ (mark[k].batch # "none" => mark'[k].batch = mark[k].batch)
         /\ mark'[k].sync = "PENDING" => mark[k].sync = "PENDING" /\ mark'[k].batch = mark[k].batch
  <1> USE DEF Typed
  <1>1. k \in Key /\ k \in Marked' /\ mark[k] \in Row /\ mark[k] # NoRow
    BY RowsStay DEF Marked, ServerOK
  <1>2. CASE UNCHANGED mark
    BY <1>1, <1>2
  <1>3. ASSUME NEW r \in Slots, UpsertMark(r)
        PROVE  mark'[k].sync = mark[k].sync /\ mark'[k].batch = mark[k].batch
    BY <1>1, <1>3, UpsertRow
  <1>4. ASSUME NEW e \in Exports, ClaimBatch(e) \/ MarkExported(e)
        PROVE  /\ mark[k].batch # "none" => mark'[k].batch = mark[k].batch
               /\ mark'[k].sync = "PENDING" => mark[k].sync = "PENDING" /\ mark'[k].batch = mark[k].batch
    <2>1. CASE ClaimBatch(e)
      BY <1>1, <2>1, ClaimRows DEF Filed
    <2>2. CASE MarkExported(e)
      BY <1>1, <2>2, ExportedRows
    <2> QED BY <1>4, <2>1, <2>2
  <1>5. ImportHistory => mark'[k] = mark[k]
    BY <1>1, ImportRows
  <1> QED BY <1>1, <1>2, <1>3, <1>4, <1>5, MarkSteps

\* What is in a file belongs to its export for good.
LEMMA FiledSteps ==
  ASSUME Typed, Filed, [Next]_vars
  PROVE  Filed'
  <1> USE DEF Typed
  <1>1. ASSUME NEW k \in Marked', mark'[k].sync = "PENDING" PROVE mark'[k].batch = "none"
    <2>1. k \in Key
      BY DEF Marked
    <2>2. CASE k \in Marked
      BY <1>1, <2>2, BatchStays DEF Filed
    <2>3. CASE k \notin Marked
      <3>1. mark[k] = NoRow /\ mark'[k] # mark[k] /\ mark[k] \notin Row
        BY <2>1, <2>3, RowIs DEF Marked
      <3>2. ImportHistory \/ \E r \in Slots : UpsertMark(r)
        BY <2>1, <3>1, MarkSteps, ClaimRows, ExportedRows
      <3> QED BY <1>1, <2>1, <3>1, <3>2, UpsertRow, ImportRows
    <2> QED BY <2>2, <2>3
  <1>2. ASSUME NEW e \in Exports, NEW k \in DOMAIN export'[e].file PROVE k \in Marked' /\ mark'[k].batch = e
    <2>1. k \in Marked /\ mark[k].batch = e
      <3>1. CASE export'[e].file = export[e].file
        BY <3>1 DEF Filed
      <3>2. CASE DOMAIN export'[e].file \subseteq Batch(e)
        BY <3>2 DEF Batch
      <3> QED BY <3>1, <3>2, ExportTyping
    <2>2. e # "none"
      BY AttendanceAssumption
    <2> QED BY <2>1, <2>2, BatchStays
  <1> QED BY <1>1, <1>2 DEF Filed

\* No mark is in the files of two exports, whatever the order of their scans,
\* claims and failures, and however often marks are corrected meanwhile.
THEOREM ExportedOnceHolds == Spec => []ExportedOnce
  <1>1. Init => Filed
    BY NothingIs DEF Init, AttendanceInit, Filed, Marked
  <1>2. TypedMatched /\ Filed /\ [Next]_vars => Filed'
    BY FiledSteps DEF TypedMatched
  <1>3. Filed => ExportedOnce
    BY DEF Filed, ExportedOnce
  <1> QED BY <1>1, <1>2, <1>3, TypedHolds, PTL DEF Spec

-----------------------------------------------------------------------------
(* Marks that were submitted.                                               *)

\* The marks a request has written are rows, and an accepted request has
\* written all of its marks.
WrittenOK(p) ==
    p # Idle =>
        /\ \A l \in DOMAIN p.records \ p.left : <<p.session, l>> \in Marked
        /\ p.step \in {"bump", "ok"} => p.left = {}

Written == \A r \in Slots : WrittenOK(post[r])

\* A request goes on only when the mark it leaves behind is a row.
LEMMA WrittenSteps ==
  ASSUME Typed, Written, [Next]_vars
  PROVE  Written'
  <1> USE DEF Typed
  <1>1. Marked \subseteq Marked'
    BY RowsStay
  <1>2. ASSUME NEW r \in Slots, post'[r] = post[r] \/ post'[r] = Idle PROVE WrittenOK(post[r])'
    BY <1>1, <1>2 DEF Written, WrittenOK
  <1>3. ASSUME NEW r \in Slots, post[r] \in Post, Continues(post[r], post'[r]),
               post'[r].step \in {"bump", "ok"} => post[r].step \in {"bump", "ok"}
        PROVE  WrittenOK(post[r])'
    BY <1>1, <1>3, PostIs DEF Written, WrittenOK, Continues
  <1>4. ASSUME NEW r \in Slots, post'[r] \in Post, post'[r].left = DOMAIN post'[r].records,
               post'[r].step = "sent"
        PROVE  WrittenOK(post[r])'
    BY <1>4 DEF WrittenOK
  <1>5. CASE UNCHANGED post
    BY <1>2, <1>5 DEF Written
  <1>6. CASE RestartApp
    BY <1>2, <1>3, <1>6, RestartIs DEF Written
  <1>7. ASSUME NEW r \in Slots, UpsertMark(r) PROVE Written'
    <2>1. PICK l \in post[r].left :
               /\ l \in DOMAIN post[r].records /\ mark'[<<post[r].session, l>>] \in Row
               /\ <<post[r].session, l>> \in Key
               /\ post'[r].left = post[r].left \ {l}
               /\ post'[r].step = IF post[r].left = {l} THEN "bump" ELSE "write"
      BY <1>7, UpsertRow
    <2>2. <<post[r].session, l>> \in Marked'
      BY <2>1, RowIs DEF Marked
    <2>3. /\ post[r] \in Post /\ post'[r].session = post[r].session /\ post'[r].records = post[r].records
          /\ \A q \in Slots \ {r} : post'[q] = post[q]
      BY <1>7, UpsertIs
    <2>4. \A j \in DOMAIN post[r].records \ post[r].left : <<post[r].session, j>> \in Marked'
      BY <1>1, <2>3, PostIs DEF Written, WrittenOK
    <2>5. WrittenOK(post[r])'
      BY <2>1, <2>2, <2>3, <2>4 DEF WrittenOK
    <2> QED BY <1>2, <2>3, <2>5 DEF Written
  <1>8. ASSUME NEW r \in Slots, BulkMark(r) \/ BumpUsersLastActive(r) \/ FailPost(r) PROVE Written'
    <2>1. /\ post[r] \in Post /\ \A q \in Slots \ {r} : post'[q] = post[q]
          /\ \/ post'[r] = Idle
             \/ /\ Continues(post[r], post'[r])
                /\ post'[r].step \in {"bump", "ok"} => post[r].step \in {"bump", "ok"}
      BY <1>8, BulkMarkIs, BumpIs, FailPostIs
    <2> QED BY <1>2, <1>3, <2>1 DEF Written
  <1>9. ASSUME NEW r \in Slots, GetAnswer(r) \/ GiveUp(r) PROVE Written'
    <2>1. /\ post[r] \in Post /\ \A q \in Slots \ {r} : post'[q] = post[q]
          /\ \/ post'[r] = Idle
             \/ Continues(post[r], post'[r]) /\ post'[r].step = post[r].step
      BY <1>9, GetAnswerIs, GiveUpIs
    <2> QED BY <1>2, <1>3, <2>1 DEF Written
  <1>10. ASSUME NEW r \in Slots, SubmitOnline(r) \/ FlushGroup(r) \/ HandleSubmit(r) PROVE Written'
    <2>1. /\ \A q \in Slots \ {r} : post'[q] = post[q]
          /\ post'[r] \in Post /\ post'[r].left = DOMAIN post'[r].records /\ post'[r].step = "sent"
      BY <1>10, SubmitIs, FlushIs, HandleSubmitIs
    <2> QED BY <1>2, <1>4, <2>1 DEF Written
  <1> QED BY <1>5, <1>6, <1>7, <1>8, <1>9, <1>10, PostSteps

\* An answer removes from the queue only what is on the server, and the teacher
\* is told of nothing else than what is there or in the queue.
LEMMA KeptSteps ==
  ASSUME Typed, Written, SubmittedIsKept, [Next]_vars
  PROVE  SubmittedIsKept'
  <1> USE DEF Typed
  <1>1. Marked \subseteq Marked'
    BY RowsStay
  <1>2. CASE UNCHANGED <<queue, told>>
    BY <1>1, <1>2 DEF SubmittedIsKept
  <1>3. CASE SubmitOffline
    <2>1. panel.session \in Sessions /\ panel.seen \subseteq Learners
      BY <1>3, PanelIs DEF SubmitOffline
    <2>2. PICK records \in Sheets(panel.seen) :
             queue' = Enqueued(panel.session, records) /\ told' = told \cup Keys(panel.session, records)
      BY <1>3 DEF SubmitOffline
    <2>3. records \in Payloads
      BY <2>1, <2>2, PayloadIs DEF Sheets
    <2>4. DOMAIN queue' = DOMAIN queue \cup Keys(panel.session, records)
      BY <2>1, <2>2, <2>3, QueueIs DEF DeviceOK
    <2> QED BY <1>1, <2>2, <2>4 DEF SubmittedIsKept
  <1>4. ASSUME NEW r \in Slots, GetAnswer(r) \/ GiveUp(r) PROVE SubmittedIsKept'
    <2>1. PICK outcome \in {"ok", "failed"} : Handle(r, outcome) /\ (outcome = "ok" => post[r].step = "ok")
      BY <1>4, AnswerIs
    <2>2. post[r] \in Post /\ post[r].for # "nobody"
      BY <1>4, GetAnswerIs, GiveUpIs
    <2>3. outcome = "ok" => Keys(post[r].session, post[r].records) \subseteq Marked
      BY <2>1, <2>2, PostIs DEF Written, WrittenOK, Keys
    <2>4. /\ DOMAIN queue \subseteq DOMAIN queue' \cup (IF outcome = "ok" /\ post[r].for = "flush"
                                                      THEN Keys(post[r].session, post[r].records) ELSE {})
          /\ told' \subseteq told \cup (IF outcome = "ok"
                                       THEN Keys(post[r].session, post[r].records) ELSE DOMAIN queue')
      BY <2>1, <2>2, HandleIs
    <2> QED BY <1>1, <2>3, <2>4 DEF SubmittedIsKept
  <1>5. UNCHANGED <<queue, told>> \/ SubmitOffline \/ \E r \in Slots : GetAnswer(r) \/ GiveUp(r)
    <2>1. Device => UNCHANGED <<queue, told>> \/ SubmitOffline
      BY DEF Device, GoOffline, GoOnline, OpenPanel, StartFlush, RestartApp, SubmitOnline, FlushGroup
    <2>2. Page => UNCHANGED <<queue, told>>
      BY DEF Page, SelectSchedule, UpdateRecord, DoClose, LoadRoster, LoadFails, HandleSubmit, deviceVars
    <2> QED BY <2>1, <2>2 DEF Next, deviceVars, vars
  <1> QED BY <1>2, <1>3, <1>4, <1>5

\* What the teacher was told is synced or saved is on the server or still in
\* the queue, through lost answers, restarts, refusals and re-marks.
THEOREM SubmittedKept == Spec => []SubmittedIsKept
  <1>1. Init => Written /\ SubmittedIsKept
    BY DEF Init, AttendanceInit, Written, WrittenOK, SubmittedIsKept
  <1>2. TypedMatched /\ Written /\ SubmittedIsKept /\ [Next]_vars => Written' /\ SubmittedIsKept'
    BY WrittenSteps, KeptSteps DEF TypedMatched
  <1> QED BY <1>1, <1>2, TypedHolds, PTL DEF Spec

-----------------------------------------------------------------------------
(* The last activity of a learner.                                          *)

\* A request still has to count the mark it has written under key k for a
\* session that began at a given time.
CountsFor(p, k, at) ==
    /\ p \in Post /\ p.step \in {"write", "bump"} /\ p.session = k[1] /\ p.start = at
    /\ k[2] \in DOMAIN p.records \ p.left /\ p.records[k[2]] \in {"P", "L"}

Covered(k, at) ==
    \/ faulty \/ at <= active[k[2]]
    \/ \E r \in Slots : CountsFor(post[r], k, at)

CoverInv == \A k \in Marked : mark[k].status \in {"P", "L"} => Covered(k, mark[k].held)

\* No step takes the cover from a mark.
LEMMA CoverStays ==
  ASSUME Typed, [Next]_vars, NEW k \in Key, NEW at \in Nat, Covered(k, at)
  PROVE  Covered(k, at)'
  <1> USE DEF Typed
  <1>0. k[1] \in Sessions /\ k[2] \in Learners
    BY DEF Key
  <1>1. /\ active \in [Learners -> Nat] /\ active' \in [Learners -> Nat]
        /\ \A l \in Learners : active[l] <= active'[l]
    <2>1. active \in [Learners -> Nat] /\ active' \in [Learners -> Nat]
      BY ServerTyping, TimesAre DEF ServerOK
    <2>2. ASSUME NEW r \in Slots, BumpUsersLastActive(r), NEW l \in Learners PROVE active[l] <= active'[l]
      <3>1. post[r].start \in Nat
        BY <2>2, BumpIs, PostIs, TimesAre
      <3> QED BY <2>1, <2>2, <3>1 DEF BumpUsersLastActive, Greatest
    <2>3. UNCHANGED active \/ \E r \in Slots : BumpUsersLastActive(r)
      BY ActiveSteps
    <2> QED BY <2>1, <2>2, <2>3
  <1>2. faulty => faulty'
    BY FaultySteps
  <1>3. CASE faulty \/ at <= active[k[2]]
    BY <1>0, <1>1, <1>2, <1>3 DEF Covered
  <1>4. ASSUME NEW r \in Slots, CountsFor(post[r], k, at) PROVE Covered(k, at)'
    <2>1. CASE post'[r] = post[r]
      BY <1>4, <2>1 DEF Covered, CountsFor
    <2>2. CASE Continues(post[r], post'[r]) /\ post'[r].start = post[r].start /\ post'[r].step \in {"write", "bump"}
      BY <1>4, <2>2 DEF Covered, CountsFor, Continues
    <2>3. CASE UpsertMark(r)
      BY <1>4, <2>3, UpsertIs DEF Covered, CountsFor
    <2>4. CASE BumpUsersLastActive(r)
      <3>1. at <= Greatest(active[k[2]], at)
        BY <1>0, <1>1 DEF Greatest
      <3>2. active'[k[2]] = Greatest(active[k[2]], at)
        BY <1>0, <1>4, <2>4 DEF BumpUsersLastActive, CountsFor
      <3> QED BY <3>1, <3>2 DEF Covered
    <2>5. CASE FailPost(r)
      BY <2>5 DEF FailPost, Covered
    <2>6. CASE BulkMark(r) \/ GetAnswer(r)
      BY <1>4, <2>6, BulkMarkIs, GetAnswerIs DEF CountsFor
    <2>7. CASE GiveUp(r) \/ RestartApp
      <3>1. post'[r] = post[r] \/ (Continues(post[r], post'[r]) /\ post'[r].start = post[r].start /\ post'[r].step = post[r].step)
        BY <1>4, <2>7, GiveUpIs, RestartIs DEF CountsFor
      <3> QED BY <1>4, <2>1, <2>2, <3>1 DEF CountsFor
    <2>8. CASE SubmitOnline(r) \/ FlushGroup(r) \/ HandleSubmit(r)
      BY <1>4, <2>8, SubmitIs, FlushIs, HandleSubmitIs, PostIs DEF CountsFor
    <2>9. ASSUME NEW q \in Slots, q # r,
                 \/ BulkMark(q) \/ UpsertMark(q) \/ BumpUsersLastActive(q) \/ FailPost(q)
                 \/ GetAnswer(q) \/ GiveUp(q) \/ SubmitOnline(q) \/ FlushGroup(q) \/ HandleSubmit(q)
          PROVE  post'[r] = post[r]
      BY <2>9, BulkMarkIs, UpsertIs, BumpIs, FailPostIs, GetAnswerIs, GiveUpIs, SubmitIs, FlushIs,
         HandleSubmitIs
    <2> QED BY <2>1, <2>3, <2>4, <2>5, <2>6, <2>7, <2>8, <2>9, PostSteps
  <1> QED BY <1>3, <1>4 DEF Covered

\* A mark is covered from the upsert that writes it.
LEMMA CoverSteps ==
  ASSUME Typed, CoverInv, [Next]_vars
  PROVE  CoverInv'
  <1> USE DEF Typed
  <1> SUFFICES ASSUME NEW k \in Marked', mark'[k].status \in {"P", "L"} PROVE Covered(k, mark[k].held)'
    BY DEF CoverInv
  <1>1. k \in Key /\ (mark[k] \in Row => mark[k].held \in Nat)
    BY RowIs, TimesAre DEF Marked
  <1>2. CASE mark'[k] = mark[k]
    <2>1. PICK at \in Nat : at = mark[k].held /\ mark[k].status \in {"P", "L"} /\ k \in Marked
      BY <1>1, <1>2 DEF Marked, ServerOK
    <2>2. Covered(k, at) /\ at = mark'[k].held
      BY <1>2, <2>1 DEF CoverInv
    <2>3. Covered(k, at)'
      BY <1>1, <2>2, CoverStays
    <2> QED BY <2>2, <2>3
  <1>3. ASSUME NEW r \in Slots, UpsertMark(r), mark'[k] # mark[k] PROVE Covered(k, mark[k].held)'
    <2>1. PICK l \in post[r].left :
               /\ l \in DOMAIN post[r].records /\ mark'[<<post[r].session, l>>].status = post[r].records[l]
               /\ mark'[<<post[r].session, l>>].held = post[r].start
               /\ <<post[r].session, l>> \in Key /\ \A j \in Key \ {<<post[r].session, l>>} : mark'[j] = mark[j]
               /\ post'[r].left = post[r].left \ {l}
               /\ post'[r].step = IF post[r].left = {l} THEN "bump" ELSE "write"
      BY <1>3, UpsertRow
    <2>2. k = <<post[r].session, l>>
      BY <1>1, <1>3, <2>1
    <2>3. /\ post'[r] \in Post /\ post'[r].session = post[r].session /\ post'[r].records = post[r].records
          /\ post'[r].start = post[r].start
      BY <1>3, UpsertIs
    <2>4. CountsFor(post[r], k, mark[k].held)'
      BY <2>1, <2>2, <2>3 DEF CountsFor
    <2> QED BY <2>4 DEF Covered
  <1>4. ASSUME NEW e \in Exports, ClaimBatch(e) \/ MarkExported(e), mark'[k] # mark[k] PROVE Covered(k, mark[k].held)'
    <2>1. mark[k] \in Row /\ mark'[k].status = mark[k].status /\ mark'[k].held = mark[k].held
      BY <1>1, <1>4, ClaimRows, ExportedRows
    <2>2. PICK at \in Nat : at = mark[k].held
      BY <1>1, <2>1
    <2>3. Covered(k, at)
      BY <1>1, <2>1, <2>2, RowIs DEF CoverInv, Marked
    <2>4. Covered(k, at)'
      BY <1>1, <2>3, CoverStays
    <2> QED BY <2>1, <2>2, <2>4
  <1>5. ASSUME ImportHistory, mark'[k] # mark[k] PROVE Covered(k, mark[k].held)'
    <2>1. mark'[k].held = 0
      BY <1>1, <1>5, ImportRows
    <2>2. active'[k[2]] \in Nat
      <3>1. k[2] \in Learners /\ active' \in [Learners -> {0} \cup Times]
        BY <1>1, ServerTyping DEF ServerOK, Key
      <3> QED BY <3>1, TimesAre
    <2> QED BY <2>1, <2>2 DEF Covered
  <1> QED BY <1>2, <1>3, <1>4, <1>5, MarkSteps

\* Once every marking request has ended, a learner's last activity is no
\* earlier than the start that each session which marks her present or late had
\* when a request marked her, in whatever order the sessions were marked,
\* re-marked and moved. Imported marks make no claim: no request wrote them.
THEOREM ActivityCovers == Spec => []ActiveCovers
  <1>1. Init => CoverInv
    BY DEF Init, AttendanceInit, CoverInv, Marked
  <1>2. TypedMatched /\ CoverInv /\ [Next]_vars => CoverInv'
    BY CoverSteps DEF TypedMatched
  <1>3. CoverInv => ActiveCovers
    BY DEF CoverInv, Covered, CountsFor, ActiveCovers
  <1> QED BY <1>1, <1>2, <1>3, TypedHolds, PTL DEF Spec

=============================================================================
