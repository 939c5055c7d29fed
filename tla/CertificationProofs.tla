------------------------ MODULE CertificationProofs ------------------------
(***************************************************************************)
(* Proofs about certificates and the assessment engine, for any number of  *)
(* learners, attempts, requests handled together and days.                 *)
(***************************************************************************)
EXTENDS Certification, FiniteSetTheorems, SequenceTheorems, TLAPS

Request == {Idle} \cup QuizRequest \cup CertRequest

\* The rows a request remembers are rows that exist.
Refers(q, certs, rows) ==
    /\ q.step \in {"recert", "source"} => q.todo \subseteq certs
    /\ q.step \in {"source", "revoke"} => q.id \in certs
    /\ q.step \in {"scan", "mail", "finish"} => q.todo \subseteq rows

-----------------------------------------------------------------------------
(* Requests.                                                               *)

\* What the fields of a request are, by the statement it is about to make:
\* those of the assessment engine ...
LEMMA QuizFields ==
  ASSUME NEW q \in Request
  PROVE  /\ q.step \in {"count", "create"} =>
              q.who \in Learners /\ q.mark \in Marks /\ q.limit \in Limits
         /\ q.step \in {"mark", "grade"} =>
              /\ q.id \in Attempts /\ q.was \in Attempt
              /\ q.yes \subseteq Items /\ q.no \subseteq Items
         /\ q.step = "grade" => q.mark \in Marks
  BY DEF Request, Idle, QuizRequest, CertRequest

\* ... those of issuing, revoking and recertification ...
LEMMA IssueFields ==
  ASSUME NEW q \in Request
  PROVE  /\ q.step = "evaluate" =>
              q.who \in Learners /\ q.unread \subseteq Evidence /\ q.seen \subseteq Evidence
         /\ q.step \in {"number", "insert"} => q.who \in Learners
         /\ q.step = "insert" => q.number \in Nat
         /\ q.step = "revoke" => q.id \in Nat
         /\ q.step \in {"recert", "source"} => q.todo \subseteq Nat
         /\ q.step = "source" => q.id \in Nat
  BY DEF Request, Idle, QuizRequest, CertRequest

\* ... and those of the scans.
LEMMA ScanFields ==
  ASSUME NEW q \in Request
  PROVE  /\ q.step \in {"scan", "mail", "finish"} =>
              /\ q.type \in Scans /\ q.day \in Days /\ q.todo \subseteq Nat
              /\ q.keys \subseteq Key /\ q.digest \in BOOLEAN
         /\ q.step \in {"mail", "finish"} => q.key \in Key
         /\ q.step = "finish" => q.result \in {"sent", "failed"}
  BY DEF Request, Idle, QuizRequest, CertRequest

\* What a request becomes is a request.
LEMMA Replaced ==
  ASSUME op \in [Operators -> Request],
         \A r \in Operators : Refers(op[r], DOMAIN cert, DOMAIN assignment),
         NEW p \in Operators, NEW q \in Request, Become(p, q),
         Refers(q, DOMAIN cert', DOMAIN assignment'),
         DOMAIN cert \subseteq DOMAIN cert', DOMAIN assignment \subseteq DOMAIN assignment'
  PROVE  /\ op' \in [Operators -> Request]
         /\ \A r \in Operators : Refers(op'[r], DOMAIN cert', DOMAIN assignment')
  BY DEF Become, Refers

\* The end of a request.
LEMMA IdleRequest ==
  /\ Idle \in Request
  /\ \A certs, rows : Refers(Idle, certs, rows)
  BY DEF Idle, Request, Refers

\* The requests of the assessment engine refer to no row that could vanish.
LEMMA QuizRequests ==
  ASSUME NEW q \in QuizRequest
  PROVE  q \in Request /\ \A certs, rows : Refers(q, certs, rows)
  BY DEF QuizRequest, Request, Refers

\* An answer that got its point is one of the items, so their number is a mark.
LEMMA GradedType ==
  ASSUME NEW x \in Learners, NEW earned \in SUBSET Items, NEW mark \in Marks
  PROVE  Graded(x, earned, mark) \in Attempt
<1>1. IsFiniteSet(Items)
  BY AssessmentAssumption
<1>2. Cardinality(earned) \in Nat /\ Cardinality(Items) \in Nat
      /\ Cardinality(earned) <= Cardinality(Items)
  BY <1>1, FS_Subset, FS_CardinalityType
<1>3. Cardinality(earned) \in Marks
  BY <1>2 DEF Marks
<1>4. (Cardinality(earned) >= mark) \in BOOLEAN
  BY <1>2 DEF Marks
<1> QED
  BY <1>3, <1>4 DEF Graded, Attempt

-----------------------------------------------------------------------------
(* Types of the tables.                                                    *)

Tables ==
    /\ QuizTypeOK
    /\ today \in Days
    /\ met \in [Learners -> SUBSET (Evidence \ {"attempt"})]
    /\ address \in [Learners -> Addresses]
    /\ counter \in Nat
    /\ cert \in Seq(Certificate)
    /\ assignment \in Seq(Assignment)
    /\ DOMAIN log \subseteq Key
    /\ \A k \in DOMAIN log : log[k] \in {"pending", "sent", "failed", "skipped"}
    /\ mail \in [DOMAIN log -> Nat]

Sourcing == \A j \in DOMAIN assignment : assignment[j].source \in DOMAIN cert
Remembered ==
    /\ op \in [Operators -> Request]
    /\ \A p \in Operators : Refers(op[p], DOMAIN cert, DOMAIN assignment)

Typed == Tables /\ Sourcing /\ Remembered

\* It includes the type invariant.
LEMMA TypedOK == Typed => TypeOK
  BY DEF Typed, TypeOK, Tables, Remembered, Request

\* A request begins within its bound.
LEMMA BegunType ==
  ASSUME begun \in 0 .. MaxRequests, NEW p, NEW kind, Begin(p, kind)
  PROVE  begun' \in 0 .. MaxRequests
  BY AssessmentAssumption DEF Begin

\* Requests may be replaced while the tables stay as they are.
LEMMA OnlyRequest ==
  ASSUME Typed, NEW p \in Operators, NEW q \in Request, Become(p, q),
         Refers(q, DOMAIN cert, DOMAIN assignment), begun' \in 0 .. MaxRequests,
         UNCHANGED <<quiz, attempt, certVars>>
  PROVE  Typed'
<1>1. UNCHANGED <<quiz, attempt, today, met, address, counter, cert, assignment, log, mail>>
  BY DEF certVars
<1>2. Tables'
  BY <1>1 DEF Typed, Tables, QuizTypeOK
<1>3. Sourcing'
  BY <1>1 DEF Typed, Sourcing
<1>4. Remembered'
  BY <1>1,  Replaced DEF Typed, Remembered
<1> QED
  BY <1>2, <1>3, <1>4 DEF Typed

\* A grade changes the row of an attempt and nothing of a place without one.
LEMMA RegradedRow ==
  ASSUME NEW r \in Row \cup {NoRow}, NEW row \in Attempt
  PROVE  [r EXCEPT !.row = row] \in Row \cup {NoRow}
<1>1. CASE r \in Row
  BY <1>1 DEF Row
<1>2. CASE r = NoRow
  <2>1. [NoRow EXCEPT !.row = row] = NoRow
    <3>1. "row" \notin DOMAIN NoRow
      BY DEF NoRow
    <3> QED
      BY <3>1 DEF NoRow
  <2> QED
    BY <2>1, <1>2
<1> QED
  BY <1>1, <1>2

\* The mark of the quiz is within its items.
LEMMA QuizAttempts ==
  ASSUME Typed, NEW p \in Operators, QuizStep(p), UNCHANGED certVars
  PROVE  Typed'
<1> USE DEF QuizTypeOK
<1>0. /\ UNCHANGED <<today, met, address, counter, cert, assignment, log, mail>>
      /\ quiz \in Quiz /\ begun \in 0 .. MaxRequests
      /\ attempt \in [Attempts -> Row \cup {NoRow}]
      /\ op \in [Operators -> Request] /\ op[p] \in Request
  BY DEF Typed, certVars, Tables, Remembered
<1>1. CASE UpdateAssessment(p) \/ ArchiveAssessment(p)
  <2>1. UNCHANGED <<attempt, op>> /\ quiz' \in Quiz
    <3>1. quiz.limits \in SUBSET Limits
      BY <1>0 DEF Quiz
    <3>2. CASE UpdateAssessment(p)
      <4>1. PICK published \in BOOLEAN, mark \in Marks, limit \in Limits :
              quiz' = [live |-> TRUE, published |-> published, mark |-> mark, limit |-> limit,
                       limits |-> quiz.limits \cup {limit}]
        BY <3>2 DEF UpdateAssessment
      <4>2. quiz.limits \cup {limit} \in SUBSET Limits
        BY <3>1
      <4> QED
        BY <3>2, <4>1, <4>2 DEF UpdateAssessment, Quiz
    <3>3. CASE ArchiveAssessment(p)
      BY <3>3, <1>0 DEF ArchiveAssessment, Quiz
    <3> QED
      BY <1>1, <3>2, <3>3
  <2>2. begun' \in 0 .. MaxRequests
    BY <1>1, <1>0, BegunType DEF UpdateAssessment, ArchiveAssessment
  <2> QED
    BY <2>1, <2>2, <1>0 DEF Typed, Tables, Sourcing, Remembered
<1>2. CASE FindAssessment(p)
  <2> DEFINE q(x) == [step |-> "count", who |-> x, mark |-> quiz.mark, limit |-> quiz.limit]
  <2>1. PICK x \in Learners : Become(p, q(x))
    BY <1>2 DEF FindAssessment
  <2>2. q(x) \in QuizRequest
    BY <1>0 DEF Quiz, QuizRequest
  <2>3. begun' \in 0 .. MaxRequests /\ UNCHANGED <<quiz, attempt>>
    BY <1>2, <1>0, BegunType DEF FindAssessment, quizVars
  <2> QED
    BY <2>1, <2>2, <2>3, QuizRequests, OnlyRequest
<1>3. CASE CountAttempts(p)
  <2>1. [op[p] EXCEPT !.step = "create"] \in QuizRequest
    <3>1. op[p] \in [step : {"count", "create"}, who : Learners, mark : Marks, limit : Limits]
      BY <1>3, <1>0 DEF CountAttempts, Request, Idle, QuizRequest, CertRequest
    <3> QED
      BY <3>1 DEF QuizRequest
  <2>2. Become(p, [op[p] EXCEPT !.step = "create"]) /\ UNCHANGED <<quiz, attempt, begun>>
    BY <1>3 DEF CountAttempts, quizVars
  <2> QED
    BY <2>1, <2>2, <1>0, QuizRequests, OnlyRequest
<1>4. CASE CreateAttempt(p)
  <2>1. PICK a \in Attempts \ Filed, earned \in SUBSET Items :
          attempt' = [attempt EXCEPT ![a] =
              [filed |-> TRUE, row |-> Graded(op[p].who, earned, op[p].mark)]]
    BY <1>4 DEF CreateAttempt
  <2>2. op[p].who \in Learners /\ op[p].mark \in Marks
    BY <1>4, <1>0, QuizFields DEF CreateAttempt
  <2>3. [filed |-> TRUE, row |-> Graded(op[p].who, earned, op[p].mark)] \in Row
    BY <2>2, GradedType DEF Row
  <2>4. attempt' \in [Attempts -> Row \cup {NoRow}]
    BY <2>1, <2>3, <1>0
  <2>5. Become(p, Idle) /\ UNCHANGED <<quiz, begun>>
    BY <1>4 DEF CreateAttempt
  <2>6. Remembered'
    BY <2>5, <1>0,  IdleRequest, Replaced DEF Typed, Remembered
  <2> QED
    BY <2>4, <2>5, <2>6, <1>0 DEF Typed, Tables, Sourcing
<1>5. CASE FindAttempt(p)
  <2>1. PICK a \in Filed, yes \in SUBSET ShortText, no \in SUBSET ShortText :
          Become(p, [step |-> "mark", id |-> a, was |-> attempt[a].row, yes |-> yes, no |-> no])
    BY <1>5 DEF FindAttempt
  <2>2. a \in Attempts /\ attempt[a].row \in Attempt
    <3>1. a \in Attempts /\ attempt[a].filed
      BY DEF Filed
    <3>2. attempt[a] # NoRow
      BY <3>1 DEF NoRow
    <3> QED
      BY <3>1, <3>2, <1>0 DEF Row
  <2>3. [step |-> "mark", id |-> a, was |-> attempt[a].row, yes |-> yes, no |-> no] \in QuizRequest
    BY <2>2, AssessmentAssumption DEF QuizRequest
  <2>4. begun' \in 0 .. MaxRequests /\ UNCHANGED <<quiz, attempt>>
    BY <1>5, <1>0, BegunType DEF FindAttempt, quizVars
  <2> QED
    BY <2>1, <2>3, <2>4, QuizRequests, OnlyRequest
<1>6. CASE FindMark(p)
  <2> DEFINE r == [step |-> "grade", id |-> op[p].id, was |-> op[p].was, yes |-> op[p].yes,
                   no |-> op[p].no, mark |-> quiz.mark]
  <2>1. r \in QuizRequest
    BY <1>6, <1>0, QuizFields DEF FindMark, QuizRequest, Quiz
  <2>2. Become(p, r) /\ UNCHANGED <<quiz, attempt, begun>>
    BY <1>6 DEF FindMark, quizVars
  <2> HIDE DEF r
  <2> QED
    BY <2>1, <2>2, <1>0, QuizRequests, OnlyRequest
<1>7. CASE UpdateAttemptGrade(p)
  <2> DEFINE row == Regraded(attempt[op[p].id].row, op[p])
  <2>1. op[p].id \in Attempts /\ row \in Attempt
    <3>1. /\ op[p].id \in Attempts /\ op[p].was \in Attempt
          /\ op[p].yes \subseteq Items /\ op[p].no \subseteq Items /\ op[p].mark \in Marks
      BY <1>7, <1>0, QuizFields DEF UpdateAttemptGrade
    <3>2. /\ op[p].was.who \in Learners
          /\ ((op[p].was.earned \ op[p].no) \cup op[p].yes) \in SUBSET Items
      BY <3>1 DEF Attempt
    <3> QED
      BY <3>1, <3>2, GradedType DEF Regraded
  <2>2. attempt' = [attempt EXCEPT ![op[p].id].row = row]
    BY <1>7 DEF UpdateAttemptGrade
  <2>3. Become(p, Idle) /\ UNCHANGED <<quiz, begun>>
    BY <1>7 DEF UpdateAttemptGrade
  <2> HIDE DEF row
  <2>4. attempt' \in [Attempts -> Row \cup {NoRow}]
    <3>1. [attempt[op[p].id] EXCEPT !.row = row] \in Row \cup {NoRow}
      BY <2>1, <1>0, RegradedRow
    <3>2. attempt' = [attempt EXCEPT ![op[p].id] = [attempt[op[p].id] EXCEPT !.row = row]]
      BY <2>2
    <3> QED
      BY <3>1, <3>2, <1>0, <2>1
  <2>5. Remembered'
    BY <2>3, <1>0,  IdleRequest, Replaced DEF Typed, Remembered
  <2> QED
    BY <2>3, <2>4, <2>5, <1>0 DEF Typed, Tables, Sourcing
<1> QED
  BY <1>1, <1>2, <1>3, <1>4, <1>5, <1>6, <1>7 DEF QuizStep

\* Evidence, addresses and the calendar.
LEMMA SurroundingsTyped ==
  ASSUME Typed,
         NextDay \/ ArchiveAssignment \/ \E p \in Operators : RecordEvidence(p) \/ ChangeAddress(p)
  PROVE  Typed'
<1>0. /\ Tables /\ Sourcing /\ Remembered
      /\ UNCHANGED <<quiz, attempt, op, counter, cert, log, mail>>
  BY DEF Typed, NextDay, ArchiveAssignment, RecordEvidence, ChangeAddress, quizVars
<1>1. CASE NextDay
  <2>1. today' \in Days
    BY <1>0, <1>1, CertificationAssumption DEF NextDay, Tables, Days
  <2> QED
    BY <1>0, <1>1, <2>1 DEF NextDay, Typed, Tables, QuizTypeOK, Sourcing, Remembered
<1>2. CASE ArchiveAssignment
  <2>1. PICK j \in DOMAIN assignment :
          assignment' = [assignment EXCEPT ![j].status = "archived"]
    BY <1>2 DEF ArchiveAssignment
  <2>2. assignment \in Seq(Assignment)
    BY <1>0 DEF Tables
  <2>3. /\ assignment' \in Seq(Assignment) /\ DOMAIN assignment' = DOMAIN assignment
        /\ \A i \in DOMAIN assignment : assignment'[i].source = assignment[i].source
    <3> DEFINE row == [assignment[j] EXCEPT !.status = "archived"]
    <3>1. assignment[j] \in Assignment
      BY <2>2
    <3>2. row \in Assignment /\ row.source = assignment[j].source
      BY <3>1 DEF Assignment
    <3>3. assignment' = [assignment EXCEPT ![j] = row]
      BY <2>1
    <3> HIDE DEF row
    <3> QED
      BY <2>2, <3>2, <3>3, ExceptSeq
  <2> QED
    BY <1>0, <1>2, <2>3 DEF ArchiveAssignment, Typed, Tables, QuizTypeOK, Sourcing, Remembered
<1>3. ASSUME NEW p \in Operators, RecordEvidence(p)
      PROVE  Typed'
  <2>1. met' \in [Learners -> SUBSET (Evidence \ {"attempt"})]
    BY <1>0, <1>3 DEF RecordEvidence, Tables, Evidence
  <2>2. begun' \in 0 .. MaxRequests
    BY <1>0, <1>3, BegunType DEF RecordEvidence, Tables, QuizTypeOK
  <2> QED
    BY <1>0, <1>3, <2>1, <2>2 DEF RecordEvidence, Typed, Tables, QuizTypeOK, Sourcing, Remembered
<1>4. ASSUME NEW p \in Operators, ChangeAddress(p)
      PROVE  Typed'
  <2>1. address' \in [Learners -> Addresses]
    BY <1>0, <1>4 DEF ChangeAddress, Tables
  <2>2. begun' \in 0 .. MaxRequests
    BY <1>0, <1>4, BegunType DEF ChangeAddress, Tables, QuizTypeOK
  <2> QED
    BY <1>0, <1>4, <2>1, <2>2 DEF ChangeAddress, Typed, Tables, QuizTypeOK, Sourcing, Remembered
<1> QED
  BY <1>1, <1>2, <1>3, <1>4

Evaluating == [step : {"evaluate"}, who : Learners, unread : SUBSET Evidence, seen : SUBSET Evidence]
Reading(q, e, found) == [q EXCEPT !.unread = @ \ {e}, !.seen = @ \cup found]

\* An evaluation that has read one more piece of evidence is still one.
LEMMA ReadingType ==
  ASSUME NEW q \in Evaluating, NEW e, NEW found \in SUBSET Evidence
  PROVE  Reading(q, e, found) \in Request /\ \A certs, rows : Refers(Reading(q, e, found), certs, rows)
<1>1. Reading(q, e, found) \in Evaluating
  BY DEF Reading, Evaluating
<1> QED
  BY <1>1 DEF Evaluating, Request, CertRequest, Refers

\* Issuing and revoking: a row is appended, or changes its status.
LEMMA IssueTyped ==
  ASSUME Typed, NEW p \in Operators,
         \/ IssueCertificate(p) \/ ReadEvidence(p) \/ FindActiveCertificate(p)
         \/ NextCertificateNumber(p) \/ CreateCertificate(p)
         \/ RevokeCertificate(p) \/ MarkRevoked(p)
  PROVE  Typed'
<1>0. /\ Tables /\ Sourcing /\ Remembered
      /\ op \in [Operators -> Request] /\ op[p] \in Request
      /\ Refers(op[p], DOMAIN cert, DOMAIN assignment)
      /\ cert \in Seq(Certificate) /\ today \in Nat /\ counter \in Nat
      /\ begun \in 0 .. MaxRequests
  BY CertificationAssumption DEF Typed, Remembered, Tables, QuizTypeOK, Days
<1>1. CASE IssueCertificate(p)
  <2>1. PICK x \in Learners :
          Become(p, [step |-> "evaluate", who |-> x, unread |-> Policy, seen |-> {}])
    BY <1>1 DEF IssueCertificate
  <2> DEFINE r == [step |-> "evaluate", who |-> x, unread |-> Policy, seen |-> {}]
  <2>2. r \in Request /\ Refers(r, DOMAIN cert, DOMAIN assignment)
    BY CertificationAssumption DEF Request, CertRequest, Refers
  <2>3. begun' \in 0 .. MaxRequests /\ UNCHANGED <<quiz, attempt, certVars>>
    BY <1>0, <1>1, BegunType DEF IssueCertificate, quizVars
  <2> HIDE DEF r
  <2> QED
    BY <2>1, <2>2, <2>3, OnlyRequest DEF r
<1>2. CASE ReadEvidence(p)
  <2>1. PICK e \in op[p].unread :
          Become(p, [op[p] EXCEPT !.unread = @ \ {e},
                                  !.seen = @ \cup (Holds(op[p].who) \cap {e})])
    BY <1>2 DEF ReadEvidence
  <2> DEFINE r == Reading(op[p], e, Holds(op[p].who) \cap {e})
  <2>2. op[p] \in Evaluating
    <3>1. op[p].step = "evaluate"
      BY <1>2 DEF ReadEvidence
    <3>2. op[p] \in [step : {"evaluate"}, who : Learners, unread : SUBSET Evidence,
                     seen : SUBSET Evidence]
      BY <1>0, <3>1 DEF Request, Idle, QuizRequest, CertRequest
    <3> QED
      BY <3>2 DEF Evaluating
  <2>3. Holds(op[p].who) \cap {e} \subseteq Evidence
    BY <2>2 DEF Evaluating
  <2>4. r \in Request /\ Refers(r, DOMAIN cert, DOMAIN assignment)
    BY <2>2, <2>3, ReadingType
  <2>5. UNCHANGED <<quiz, attempt, begun, certVars>>
    BY <1>2 DEF ReadEvidence, quizVars
  <2>6. Become(p, r)
    BY <2>1 DEF Reading
  <2> HIDE DEF r
  <2> QED
    BY <1>0, <2>4, <2>5, <2>6, OnlyRequest
<1>3. CASE FindActiveCertificate(p)
  <2> DEFINE r == [step |-> "number", who |-> op[p].who]
  <2>1. r \in Request /\ Refers(r, DOMAIN cert, DOMAIN assignment)
    BY <1>0, <1>3, IssueFields DEF FindActiveCertificate, Request, CertRequest, Refers
  <2>2. Become(p, r) /\ UNCHANGED <<quiz, attempt, begun, certVars>>
    BY <1>3 DEF FindActiveCertificate, quizVars
  <2> HIDE DEF r
  <2> QED
    BY <1>0, <2>1, <2>2, OnlyRequest
<1>4. CASE NextCertificateNumber(p)
  <2> DEFINE r == [step |-> "insert", who |-> op[p].who, number |-> counter']
  <2>1. counter' \in Nat
    BY <1>0, <1>4 DEF NextCertificateNumber, NextNumber
  <2>2. r \in Request /\ Refers(r, DOMAIN cert', DOMAIN assignment')
    BY <1>0, <1>4, <2>1, IssueFields DEF NextCertificateNumber, Request, CertRequest, Refers
  <2>3. Become(p, r)
    BY <1>4 DEF NextCertificateNumber
  <2>4. UNCHANGED <<quiz, attempt, begun, today, met, address, cert, assignment, log, mail>>
    BY <1>4 DEF NextCertificateNumber, quizVars
  <2> HIDE DEF r
  <2>5. Remembered'
    BY <1>0, <2>2, <2>3, <2>4, Replaced DEF Remembered
  <2> QED
    BY <1>0, <2>1, <2>4, <2>5 DEF Typed, Tables, QuizTypeOK, Sourcing
<1>5. CASE CreateCertificate(p)
  <2> DEFINE c == [who |-> op[p].who, number |-> op[p].number,
                   until |-> today + Validity, status |-> "Issued"]
  <2>1. c \in Certificate
    BY <1>0, <1>5, IssueFields, CertificationAssumption DEF CreateCertificate, Certificate
  <2>2. cert' = Append(cert, c) /\ Become(p, Idle)
    BY <1>5 DEF CreateCertificate
  <2>3. UNCHANGED <<quiz, attempt, begun, today, met, address, counter, assignment, log, mail>>
    BY <1>5 DEF CreateCertificate, quizVars
  <2> HIDE DEF c
  <2>4. cert' \in Seq(Certificate) /\ DOMAIN cert \subseteq DOMAIN cert'
    BY <1>0, <2>1, <2>2
  <2>5. Remembered'
    BY <1>0, <2>2, <2>3, <2>4, IdleRequest, Replaced DEF Remembered
  <2> QED
    BY <1>0, <2>3, <2>4, <2>5 DEF Typed, Tables, QuizTypeOK, Sourcing
<1>6. CASE RevokeCertificate(p)
  <2>1. PICK i \in Issued : Become(p, [step |-> "revoke", id |-> i])
    BY <1>6 DEF RevokeCertificate
  <2>2. i \in DOMAIN cert /\ i \in Nat
    BY <1>0 DEF Issued
  <2> DEFINE r == [step |-> "revoke", id |-> i]
  <2>3. r \in Request /\ Refers(r, DOMAIN cert, DOMAIN assignment)
    BY <2>2 DEF Request, CertRequest, Refers
  <2>4. begun' \in 0 .. MaxRequests /\ UNCHANGED <<quiz, attempt, certVars>>
    BY <1>0, <1>6, BegunType DEF RevokeCertificate, quizVars
  <2> HIDE DEF r
  <2> QED
    BY <2>1, <2>3, <2>4, OnlyRequest DEF r
<1>7. CASE MarkRevoked(p)
  <2>1. cert' = [cert EXCEPT ![op[p].id].status = "Revoked"] /\ Become(p, Idle)
    BY <1>7 DEF MarkRevoked
  <2>2. UNCHANGED <<quiz, attempt, begun, today, met, address, counter, assignment, log, mail>>
    BY <1>7 DEF MarkRevoked, quizVars
  <2>3. cert' \in Seq(Certificate) /\ DOMAIN cert' = DOMAIN cert
    <3>1. op[p].id \in DOMAIN cert
      BY <1>0, <1>7 DEF MarkRevoked, Refers
    <3> DEFINE row == [cert[op[p].id] EXCEPT !.status = "Revoked"]
    <3>2. cert[op[p].id] \in Certificate
      BY <1>0, <3>1
    <3>3. row \in Certificate
      BY <3>2 DEF Certificate
    <3>4. cert' = [cert EXCEPT ![op[p].id] = row]
      BY <2>1
    <3> HIDE DEF row
    <3> QED
      BY <1>0, <3>1, <3>3, <3>4, ExceptSeq
  <2>4. Remembered'
    BY <1>0, <2>1, <2>2, <2>3, IdleRequest, Replaced DEF Remembered
  <2> QED
    BY <1>0, <2>2, <2>3, <2>4 DEF Typed, Tables, QuizTypeOK, Sourcing
<1> QED
  BY <1>1, <1>2, <1>3, <1>4, <1>5, <1>6, <1>7

\* Recertification: a row is appended for a certificate that exists.
LEMMA RecertifyTyped ==
  ASSUME Typed, NEW p \in Operators,
         CreateRecertificationAssignments(p) \/ FindSource(p) \/ CreateAssignment(p)
  PROVE  Typed'
<1>0. /\ Tables /\ Sourcing /\ Remembered
      /\ op \in [Operators -> Request] /\ op[p] \in Request
      /\ Refers(op[p], DOMAIN cert, DOMAIN assignment)
      /\ cert \in Seq(Certificate) /\ assignment \in Seq(Assignment)
      /\ DOMAIN cert \subseteq Nat
      /\ begun \in 0 .. MaxRequests
  BY DEF Typed, Remembered, Tables, QuizTypeOK
<1>1. CASE CreateRecertificationAssignments(p)
  <2> DEFINE r == [step |-> "recert", todo |-> Expiring]
  <2>1. Expiring \subseteq DOMAIN cert
    BY DEF Expiring, Issued
  <2>2. r \in Request /\ Refers(r, DOMAIN cert, DOMAIN assignment)
    BY <1>0, <2>1 DEF Request, CertRequest, Refers
  <2>3. begun' \in 0 .. MaxRequests /\ UNCHANGED <<quiz, attempt, certVars>>
    BY <1>0, <1>1, BegunType DEF CreateRecertificationAssignments, quizVars
  <2>4. Become(p, r)
    BY <1>1 DEF CreateRecertificationAssignments
  <2> HIDE DEF r
  <2> QED
    BY <2>2, <2>3, <2>4, OnlyRequest
<1>2. CASE FindSource(p)
  <2>1. PICK i \in op[p].todo :
          Become(p, IF Sourced(i) THEN [op[p] EXCEPT !.todo = @ \ {i}]
                    ELSE [step |-> "source", todo |-> op[p].todo \ {i}, id |-> i])
    BY <1>2 DEF FindSource
  <2>2. /\ op[p] \in [step : {"recert"}, todo : SUBSET Nat]
        /\ op[p].todo \subseteq DOMAIN cert /\ i \in DOMAIN cert /\ i \in Nat
    BY <1>0, <1>2 DEF FindSource, Request, Idle, QuizRequest, CertRequest, Refers
  <2> DEFINE less == [op[p] EXCEPT !.todo = @ \ {i}]
             next == [step |-> "source", todo |-> op[p].todo \ {i}, id |-> i]
  <2>3. less \in Request /\ Refers(less, DOMAIN cert, DOMAIN assignment)
    <3>1. less \in [step : {"recert"}, todo : SUBSET Nat] /\ less.todo \subseteq op[p].todo
      BY <2>2
    <3> HIDE DEF less
    <3> QED
      BY <2>2, <3>1 DEF Request, CertRequest, Refers
  <2>4. next \in Request /\ Refers(next, DOMAIN cert, DOMAIN assignment)
    BY <2>2 DEF Request, CertRequest, Refers
  <2>5. UNCHANGED <<quiz, attempt, begun, certVars>>
    BY <1>2 DEF FindSource, quizVars
  <2>6. Become(p, IF Sourced(i) THEN less ELSE next)
    BY <2>1
  <2> HIDE DEF less, next
  <2> QED
    BY <1>0, <2>3, <2>4, <2>5, <2>6, OnlyRequest
<1>3. CASE CreateAssignment(p)
  <2> DEFINE row == [source |-> op[p].id, due |-> cert[op[p].id].until, status |-> "active"]
             r == [step |-> "recert", todo |-> op[p].todo]
  <2>1. op[p].id \in DOMAIN cert /\ op[p].todo \subseteq DOMAIN cert
    BY <1>0, <1>3 DEF CreateAssignment, Refers
  <2>2. row \in Assignment /\ row.source \in DOMAIN cert
    <3>1. cert[op[p].id] \in Certificate
      BY <1>0, <2>1
    <3>2. cert[op[p].id].until \in Nat /\ op[p].id \in Nat
      BY <1>0, <2>1, <3>1 DEF Certificate
    <3> QED
      BY <2>1, <3>2 DEF Assignment
  <2>3. r \in Request /\ Refers(r, DOMAIN cert, DOMAIN assignment) 
    BY <1>0, <2>1 DEF Request, CertRequest, Refers
  <2>4. /\ assignment' = IF Sourced(op[p].id) THEN assignment ELSE Append(assignment, row)
        /\ Become(p, r)
        /\ UNCHANGED <<quiz, attempt, begun, today, met, address, counter, cert, log, mail>>
    BY <1>3 DEF CreateAssignment, quizVars
  <2> HIDE DEF row, r
  <2>5. /\ assignment' \in Seq(Assignment)
        /\ DOMAIN assignment \subseteq DOMAIN assignment'
        /\ \A j \in DOMAIN assignment' : assignment'[j].source \in DOMAIN cert
    BY <1>0, <2>2, <2>4 DEF Sourcing
  <2>6. Refers(r, DOMAIN cert', DOMAIN assignment')
    BY <2>3, <2>4, <2>5 DEF Refers, r
  <2>7. Remembered'
    BY <1>0, <2>3, <2>4, <2>5, <2>6, Replaced DEF Remembered
  <2> QED
    BY <1>0, <2>4, <2>5, <2>7 DEF Typed, Tables, QuizTypeOK, Sourcing
<1> QED
  BY <1>1, <1>2, <1>3

\* A notice has a key: the two kinds of a certificate's, ...
LEMMA ExpiryKeysTyped ==
  ASSUME Typed
  PROVE  ExpiryKeys \subseteq Key
<1> SUFFICES ASSUME NEW i \in Expiring
             PROVE  [type |-> "expiring", to |-> address[cert[i].who], about |-> i,
                     cadence |-> Bucket(i, today)] \in Key
  BY DEF ExpiryKeys
<1>1. i \in DOMAIN cert /\ i \in Nat /\ cert[i] \in Certificate
  BY DEF Expiring, Issued, Typed, Tables
<1>2. address[cert[i].who] \in Addresses
  BY <1>1 DEF Certificate, Typed, Tables
<1>3. Bucket(i, today) \in Int
  BY CertificationAssumption DEF Bucket
<1> QED
  BY <1>1, <1>2, <1>3 DEF Key, Scans

\* ... a day of an assignment's cadence, ...
LEMMA CadenceType ==
  ASSUME NEW due \in Nat, NEW day \in Days
  PROVE  Cadence(due, day) \subseteq Int
<1>1. day \in Nat /\ Every \in Nat /\ Every > 0 /\ DueSoon \subseteq Nat
  BY CertificationAssumption DEF Days
<1>2. CASE due < day
  <2>1. (day - due - 1) \div Every \in Int
    BY <1>1, <1>2
  <2>2. ((day - due - 1) \div Every) * Every \in Int
    BY <1>1, <2>1
  <2> QED
    BY <1>2, <2>2 DEF Cadence
<1> QED
  BY <1>1, <1>2 DEF Cadence

\* ... and the week of a digest.
LEMMA UpcomingTyped ==
  ASSUME NEW q \in Request, q.step = "scan"
  PROVE  Upcoming(q) \subseteq Key
<1>1. q.keys \subseteq Key /\ q.type \in Scans /\ q.day \in Nat /\ Week \in Nat /\ Week > 0
  BY ScanFields, CertificationAssumption DEF Days
<1>2. q.day \div Week \in Int
  BY <1>1
<1>3. DigestKey(q) \in Key
  BY <1>1, <1>2 DEF DigestKey, Key
<1> QED
  BY <1>1, <1>3 DEF Upcoming

\* A row of the log, or a count of e-mails, for a key without one.
LEMMA Recorded ==
  ASSUME NEW f, NEW k, NEW v, k \notin DOMAIN f
  PROVE  /\ DOMAIN With(f, k, v) = DOMAIN f \cup {k}
         /\ \A n \in DOMAIN f : With(f, k, v)[n] = f[n]
         /\ With(f, k, v)[k] = v
  BY DEF With

Scanning == [step : {"scan"}, type : Scans, day : Days, todo : SUBSET Nat, keys : SUBSET Key,
             digest : BOOLEAN]

\* A scan without the assignment or the notice it has dealt with.
Without(q, j) == [q EXCEPT !.todo = @ \ {j}]
Noticed(q, j, keys, late) == [q EXCEPT !.todo = @ \ {j}, !.keys = keys, !.digest = @ \/ late]
Taken(q, k) == [q EXCEPT !.keys = @ \ {k}, !.digest = q.keys # {} /\ @]

\* What a scan goes on as is a scan of no more assignments.
LEMMA ScanGoesOn ==
  ASSUME NEW q \in Scanning, NEW j, NEW keys \in SUBSET Key, NEW late \in BOOLEAN, NEW k
  PROVE  /\ Without(q, j) \in Scanning /\ Without(q, j).todo \subseteq q.todo
         /\ Noticed(q, j, keys, late) \in Scanning /\ Noticed(q, j, keys, late).todo \subseteq q.todo
         /\ Taken(q, k) \in Scanning /\ Taken(q, k).todo = q.todo
<1>1. Without(q, j) \in Scanning /\ Without(q, j).todo \subseteq q.todo
  BY DEF Scanning, Without
<1>2. /\ Noticed(q, j, keys, late) \in Scanning
      /\ Noticed(q, j, keys, late).todo \subseteq q.todo
  BY DEF Scanning, Noticed
<1>3. Taken(q, k) \in Scanning /\ Taken(q, k).todo = q.todo
  BY DEF Scanning, Taken
<1> QED
  BY <1>1, <1>2, <1>3

\* A scan in its list of assignments.
LEMMA ScanRequest ==
  ASSUME NEW q \in Scanning, NEW certs, NEW rows, q.todo \subseteq rows
  PROVE  q \in Request /\ Refers(q, certs, rows)
  BY DEF Scanning, Request, CertRequest, Refers

\* A request of a scan is one.
LEMMA IsScan ==
  ASSUME NEW q \in Request, q.step = "scan"
  PROVE  q \in Scanning
<1>1. q \in [step : {"scan"}, type : Scans, day : Days, todo : SUBSET Nat, keys : SUBSET Key,
             digest : BOOLEAN]
  BY DEF Request, Idle, QuizRequest, CertRequest
<1> QED
  BY <1>1 DEF Scanning

\* A scan begins, and goes through its assignments.
LEMMA ScanTyped ==
  ASSUME Typed, NEW p \in Operators,
         \/ SendCertificateExpiryReminders(p) \/ SendAssignmentReminders(p)
         \/ ResolveStatus(p) \/ EndScan(p) \/ Fail(p)
  PROVE  Typed'
<1>0. /\ Tables /\ Sourcing /\ Remembered
      /\ op \in [Operators -> Request] /\ op[p] \in Request
      /\ Refers(op[p], DOMAIN cert, DOMAIN assignment)
      /\ cert \in Seq(Certificate) /\ assignment \in Seq(Assignment)
      /\ DOMAIN assignment \subseteq Nat /\ today \in Days
      /\ begun \in 0 .. MaxRequests
  BY DEF Typed, Remembered, Tables, QuizTypeOK
<1>1. ASSUME NEW type \in Scans, NEW todo \in SUBSET DOMAIN assignment, NEW keys \in SUBSET Key,
             NEW digest \in BOOLEAN, Scan(p, type, todo, keys, digest),
             begun' \in 0 .. MaxRequests, UNCHANGED <<quizVars, certVars>>
      PROVE  Typed'
  <2> DEFINE r == [step |-> "scan", type |-> type, day |-> today, todo |-> todo, keys |-> keys,
                   digest |-> digest]
  <2>1. r \in Scanning /\ r.todo = todo
    BY <1>0, <1>1 DEF Scanning
  <2>2. Become(p, r) /\ UNCHANGED <<quiz, attempt, certVars>>
    BY <1>1 DEF Scan, quizVars
  <2> HIDE DEF r
  <2> QED
    BY <1>1, <2>1, <2>2, ScanRequest, OnlyRequest
<1>2. CASE SendCertificateExpiryReminders(p)
  <2>1. (Expiring # {}) \in BOOLEAN /\ "expiring" \in Scans /\ {} \subseteq DOMAIN assignment
    BY DEF Scans
  <2>2. begun' \in 0 .. MaxRequests
    BY <1>0, <1>2, BegunType DEF SendCertificateExpiryReminders
  <2> QED
    BY <1>1, <1>2, <2>1, <2>2, ExpiryKeysTyped DEF SendCertificateExpiryReminders
<1>3. CASE SendAssignmentReminders(p)
  <2>1. begun' \in 0 .. MaxRequests
    BY <1>0, <1>3, BegunType DEF SendAssignmentReminders
  <2>2. {j \in DOMAIN assignment : assignment[j].status = "active"} \subseteq DOMAIN assignment
    OBVIOUS
  <2>3. "assignment" \in Scans /\ FALSE \in BOOLEAN /\ {} \subseteq Key
    BY DEF Scans
  <2> QED
    BY <1>1, <1>3, <2>1, <2>2, <2>3 DEF SendAssignmentReminders
<1>4. CASE ResolveStatus(p)
  <2> DEFINE q == op[p]
             keys(j) == {[type |-> "assignment", to |-> address[cert[assignment[j].source].who],
                          about |-> j, cadence |-> c] : c \in Cadence(assignment[j].due, q.day)}
             late(j) == assignment[j].due < q.day
  <2>1. PICK j \in q.todo :
          Become(p, IF HasCompletedProgram(cert[assignment[j].source].who) THEN Without(q, j)
                    ELSE Noticed(q, j, keys(j), late(j)))
    BY <1>4 DEF ResolveStatus, Without, Noticed
  <2>2. q \in Scanning /\ q.todo \subseteq DOMAIN assignment /\ q.day \in Days
    <3>1. q.step = "scan"
      BY <1>4 DEF ResolveStatus
    <3> QED
      BY <1>0, <3>1, IsScan DEF Refers, Scanning
  <2>3. j \in DOMAIN assignment /\ assignment[j] \in Assignment /\ j \in Nat
    BY <1>0, <2>2
  <2>4. assignment[j].source \in DOMAIN cert /\ assignment[j].due \in Nat
    BY <1>0, <2>3 DEF Sourcing, Assignment
  <2>5. keys(j) \subseteq Key
    <3>1. cert[assignment[j].source].who \in Learners
      <4>1. cert[assignment[j].source] \in Certificate
        BY <1>0, <2>4
      <4> QED
        BY <4>1 DEF Certificate
    <3>2. address[cert[assignment[j].source].who] \in Addresses
      BY <1>0, <3>1 DEF Tables
    <3>3. Cadence(assignment[j].due, q.day) \subseteq Int
      BY <2>2, <2>4, CadenceType
    <3> QED
      BY <2>3, <3>2, <3>3 DEF Key, Scans
  <2>6. late(j) \in BOOLEAN
    OBVIOUS
  <2>7. UNCHANGED <<quiz, attempt, begun, certVars>>
    BY <1>4 DEF ResolveStatus, quizVars
  <2> HIDE DEF q, keys, late
  <2>8. /\ Without(q, j) \in Request /\ Refers(Without(q, j), DOMAIN cert, DOMAIN assignment)
        /\ Noticed(q, j, keys(j), late(j)) \in Request
        /\ Refers(Noticed(q, j, keys(j), late(j)), DOMAIN cert, DOMAIN assignment)
    <3>1. /\ Without(q, j) \in Scanning /\ Without(q, j).todo \subseteq q.todo
          /\ Noticed(q, j, keys(j), late(j)) \in Scanning
          /\ Noticed(q, j, keys(j), late(j)).todo \subseteq q.todo
      BY <2>2, <2>5, <2>6, ScanGoesOn
    <3> QED
      BY <3>1, <2>2, ScanRequest
  <2> QED
    BY <1>0, <2>1, <2>7, <2>8, OnlyRequest
<1>5. CASE EndScan(p) \/ Fail(p)
  <2>1. Become(p, Idle) /\ UNCHANGED <<quiz, attempt, begun, certVars>>
    BY <1>5 DEF EndScan, Fail, quizVars
  <2> QED
    BY <1>0, <2>1, IdleRequest, OnlyRequest
<1> QED
  BY <1>2, <1>3, <1>4, <1>5

\* A notice: its row, its e-mail, its result.
LEMMA NoticeTyped ==
  ASSUME Typed, NEW p \in Operators, InsertLog(p) \/ SendMail(p) \/ FinishLog(p)
  PROVE  Typed'
<1>0. /\ Tables /\ Sourcing /\ Remembered
      /\ op \in [Operators -> Request] /\ op[p] \in Request
      /\ Refers(op[p], DOMAIN cert, DOMAIN assignment)
      /\ mail \in [DOMAIN log -> Nat] /\ DOMAIN log \subseteq Key
      /\ \A k \in DOMAIN log : log[k] \in {"pending", "sent", "failed", "skipped"}
      /\ UNCHANGED <<quiz, attempt, begun, today, met, address, counter, cert, assignment>>
  BY DEF Typed, Remembered, Tables, InsertLog, SendMail, FinishLog, quizVars
<1> DEFINE q == op[p]
<1>1. ASSUME NEW r \in Request, Refers(r, DOMAIN cert, DOMAIN assignment), Become(p, r),
             mail' \in [DOMAIN log' -> Nat], DOMAIN log' \subseteq Key,
             \A k \in DOMAIN log' : log'[k] \in {"pending", "sent", "failed", "skipped"}
      PROVE  Typed'
  <2>1. Remembered'
    BY <1>0, <1>1, Replaced DEF Remembered
  <2> QED
    BY <1>0, <1>1, <2>1 DEF Typed, Tables, QuizTypeOK, Sourcing
<1>2. CASE InsertLog(p)
  <2>1. PICK k \in Upcoming(q) :
          LET rest == Taken(q, k) IN
          /\ Become(p, IF Unlogged(k) /\ k.to # NoAddress
                       THEN [step |-> "mail", type |-> q.type, day |-> q.day, todo |-> q.todo,
                             keys |-> rest.keys, digest |-> rest.digest, key |-> k]
                       ELSE rest)
          /\ log' = IF ~ Unlogged(k) THEN log
                    ELSE With(log, k, IF k.to = NoAddress THEN "skipped" ELSE "pending")
          /\ mail' = IF k \in DOMAIN mail THEN mail ELSE With(mail, k, 0)
    BY <1>2 DEF InsertLog, Taken
  <2> DEFINE rest == Taken(q, k)
             send == [step |-> "mail", type |-> q.type, day |-> q.day, todo |-> q.todo,
                      keys |-> rest.keys, digest |-> rest.digest, key |-> k]
  <2>2. q.step = "scan" /\ q \in Scanning /\ k \in Key /\ q.todo \subseteq DOMAIN assignment
    <3>1. q.step = "scan"
      BY <1>2 DEF InsertLog
    <3> QED
      BY <1>0, <3>1, IsScan, UpcomingTyped DEF Refers
  <2>3. rest \in Scanning /\ rest.todo = q.todo
    <3>1. {} \in SUBSET Key /\ FALSE \in BOOLEAN
      OBVIOUS
    <3> QED
      BY <2>2, <3>1, ScanGoesOn
  <2>4. rest \in Request /\ Refers(rest, DOMAIN cert, DOMAIN assignment)
    BY <2>2, <2>3, ScanRequest
  <2>5. send \in Request /\ Refers(send, DOMAIN cert, DOMAIN assignment)
    <3>1. rest.keys \subseteq Key /\ rest.digest \in BOOLEAN
      BY <2>3 DEF Scanning
    <3> HIDE DEF rest
    <3> QED
      BY <2>2, <3>1 DEF Scanning, Request, CertRequest, Refers
  <2>6. /\ mail' \in [DOMAIN log' -> Nat] /\ DOMAIN log' \subseteq Key
        /\ \A n \in DOMAIN log' : log'[n] \in {"pending", "sent", "failed", "skipped"}
    <3>1. CASE k \in DOMAIN log
      BY <1>0, <2>1, <3>1 DEF Unlogged
    <3>2. CASE k \notin DOMAIN log
      <4>1. /\ log' = With(log, k, IF k.to = NoAddress THEN "skipped" ELSE "pending")
            /\ mail' = With(mail, k, 0)
        BY <1>0, <2>1, <3>2 DEF Unlogged
      <4>2. mail' \in [DOMAIN log' -> Nat]
        BY <1>0, <4>1 DEF With
      <4> QED
        BY <1>0, <2>2, <4>1, <4>2 DEF With
    <3> QED
      BY <3>1, <3>2
  <2>7. Become(p, IF Unlogged(k) /\ k.to # NoAddress THEN send ELSE rest)
    BY <2>1
  <2> HIDE DEF rest, send
  <2> QED
    BY <1>1, <2>4, <2>5, <2>6, <2>7
<1>3. CASE SendMail(p)
  <2>1. PICK accepted \in BOOLEAN, result \in {"sent", "failed"} :
          /\ mail' = IF accepted THEN [mail EXCEPT ![q.key] = @ + 1] ELSE mail
          /\ Become(p, [step |-> "finish", type |-> q.type, day |-> q.day, todo |-> q.todo,
                        keys |-> q.keys, digest |-> q.digest, key |-> q.key, result |-> result])
    BY <1>3 DEF SendMail, Reports
  <2> DEFINE r == [step |-> "finish", type |-> q.type, day |-> q.day, todo |-> q.todo,
                   keys |-> q.keys, digest |-> q.digest, key |-> q.key, result |-> result]
  <2>2. q.step = "mail" /\ log' = log
    BY <1>3 DEF SendMail
  <2>3. r \in Request /\ Refers(r, DOMAIN cert, DOMAIN assignment)
    BY <1>0, <2>2, ScanFields DEF Request, CertRequest, Refers
  <2>4. mail' \in [DOMAIN log' -> Nat]
    <3>1. CASE q.key \in DOMAIN log
      <4>1. mail[q.key] + 1 \in Nat
        BY <1>0, <3>1
      <4> QED
        BY <1>0, <2>1, <2>2, <4>1
    <3>2. CASE q.key \notin DOMAIN log
      <4>1. [mail EXCEPT ![q.key] = @ + 1] = mail
        BY <1>0, <3>2
      <4> QED
        BY <1>0, <2>1, <2>2, <4>1
    <3> QED
      BY <3>1, <3>2
  <2>5. Become(p, r)
    BY <2>1
  <2> HIDE DEF r
  <2> QED
    BY <1>0, <1>1, <2>2, <2>3, <2>4, <2>5
<1>4. CASE FinishLog(p)
  <2> DEFINE r == [step |-> "scan", type |-> q.type, day |-> q.day, todo |-> q.todo,
                   keys |-> q.keys, digest |-> q.digest]
  <2>1. /\ q.step = "finish" /\ mail' = mail /\ Become(p, r)
        /\ log' = [log EXCEPT ![q.key] = q.result]
    BY <1>4 DEF FinishLog
  <2>2. r \in Request /\ Refers(r, DOMAIN cert, DOMAIN assignment)
    BY <1>0, <2>1, ScanFields DEF Request, CertRequest, Refers
  <2>3. q.result \in {"sent", "failed"}
    BY <1>0, <2>1, ScanFields
  <2>4. /\ DOMAIN log' = DOMAIN log
        /\ \A n \in DOMAIN log' : log'[n] \in {"pending", "sent", "failed", "skipped"}
    BY <1>0, <2>1, <2>3
  <2> HIDE DEF r
  <2> QED
    BY <1>0, <1>1, <2>1, <2>2, <2>4
<1> QED
  BY <1>2, <1>3, <1>4

\* No row yet, and no request.
LEMMA InitTyped == Init => Typed
<1> SUFFICES ASSUME Init PROVE Typed
  OBVIOUS
<1>1. quiz \in Quiz
  BY DEF Init, QuizInit, Quiz, Marks
<1>2. /\ attempt \in [Attempts -> Row \cup {NoRow}] /\ begun \in 0 .. MaxRequests
  BY AssessmentAssumption DEF Init, QuizInit
<1>3. /\ today \in Days /\ met \in [Learners -> SUBSET (Evidence \ {"attempt"})]
      /\ address \in [Learners -> Addresses] /\ counter \in Nat
  BY CertificationAssumption DEF Init, Days
<1>4. cert \in Seq(Certificate) /\ assignment \in Seq(Assignment) /\ DOMAIN assignment = {}
  BY DEF Init
<1>5. DOMAIN log = {} /\ mail \in [DOMAIN log -> Nat]
  BY DEF Init
<1>6. Remembered
  BY IdleRequest DEF Init, QuizInit, Remembered
<1> QED
  BY <1>1, <1>2, <1>3, <1>4, <1>5, <1>6 DEF Typed, Tables, QuizTypeOK, Sourcing

\* Every step keeps the types.
LEMMA NextTyped == Typed /\ [Next]_vars => Typed'
<1> SUFFICES ASSUME Typed, [Next]_vars PROVE Typed'
  OBVIOUS
<1>1. CASE UNCHANGED vars
  BY <1>1 DEF vars, quizVars, certVars, Typed, Tables, QuizTypeOK, Sourcing, Remembered
<1>2. ASSUME NEW p \in Operators, QuizStep(p), UNCHANGED certVars
      PROVE  Typed'
  BY <1>2, QuizAttempts
<1>3. ASSUME NEW p \in Operators, CertStep(p)
      PROVE  Typed'
  BY <1>3, SurroundingsTyped, IssueTyped, RecertifyTyped, ScanTyped, NoticeTyped DEF CertStep
<1>4. CASE ArchiveAssignment \/ NextDay
  BY <1>4, SurroundingsTyped
<1> QED
  BY <1>1, <1>2, <1>3, <1>4 DEF Next

\* Every table, and every request, stays within its type.
THEOREM Typing == Spec => []TypeOK
  BY InitTyped, NextTyped, TypedOK, PTL DEF Spec

-----------------------------------------------------------------------------
(* One active certificate, one recertification.                            *)

\* The rows of certificates change at an INSERT and at a revocation ...
LEMMA CertSteps ==
  ASSUME [Next]_vars
  PROVE  cert' = cert \/ \E p \in Operators : CreateCertificate(p) \/ MarkRevoked(p)
  BY DEF Next, CertStep, vars, certVars, NextDay, ArchiveAssignment, IssueCertificate, ReadEvidence,
         FindActiveCertificate, NextCertificateNumber, RevokeCertificate,
         CreateRecertificationAssignments, FindSource, CreateAssignment,
         SendCertificateExpiryReminders, SendAssignmentReminders, ResolveStatus, InsertLog,
         SendMail, FinishLog, EndScan, RecordEvidence, ChangeAddress, Fail

\* ... and those of assignments at an INSERT and at an archival.
LEMMA AssignmentSteps ==
  ASSUME [Next]_vars
  PROVE  assignment' = assignment \/ ArchiveAssignment \/ \E p \in Operators : CreateAssignment(p)
  BY DEF Next, CertStep, vars, certVars, NextDay, IssueCertificate, ReadEvidence,
         FindActiveCertificate, NextCertificateNumber, RevokeCertificate, CreateCertificate,
         CreateRecertificationAssignments, FindSource, MarkRevoked,
         SendCertificateExpiryReminders, SendAssignmentReminders, ResolveStatus, InsertLog,
         SendMail, FinishLog, EndScan, RecordEvidence, ChangeAddress, Fail

\* A learner never holds two certificates: at the INSERT the unique index finds
\* none that is issued, and a revocation makes none.
THEOREM OneActive == Spec => []OneActiveCertificate
<1>1. Init => Typed /\ OneActiveCertificate
  <2>1. Init => OneActiveCertificate
    BY DEF Init, OneActiveCertificate, Issued
  <2> QED
    BY <2>1, InitTyped
<1>2. Typed /\ OneActiveCertificate /\ [Next]_vars => (Typed /\ OneActiveCertificate)'
  <2> SUFFICES ASSUME Typed, OneActiveCertificate, [Next]_vars
               PROVE  OneActiveCertificate'
    BY NextTyped
  <2>0. cert \in Seq(Certificate)
    BY DEF Typed, Tables
  <2>1. CASE cert' = cert
    BY <2>1 DEF OneActiveCertificate, Issued
  <2>2. ASSUME NEW p \in Operators, CreateCertificate(p)
        PROVE  OneActiveCertificate'
    <3> DEFINE c == [who |-> op[p].who, number |-> op[p].number,
                     until |-> today + Validity, status |-> "Issued"]
    <3>1. cert' = Append(cert, c) /\ c.who = op[p].who
          /\ \A i \in DOMAIN cert : cert[i].status = "Issued" => cert[i].who # op[p].who
      BY <2>2 DEF CreateCertificate, Active, Issued
    <3> HIDE DEF c
    <3>2. /\ DOMAIN cert' = DOMAIN cert \cup {Len(cert) + 1}
          /\ \A i \in DOMAIN cert : cert'[i] = cert[i]
          /\ cert'[Len(cert) + 1] = c
          /\ \A i \in DOMAIN cert : i # Len(cert) + 1
      BY <2>0, <3>1
    <3> QED
      BY <3>1, <3>2 DEF OneActiveCertificate, Issued
  <2>3. ASSUME NEW p \in Operators, MarkRevoked(p)
        PROVE  OneActiveCertificate'
    <3>1. op[p].id \in DOMAIN cert
      BY <2>3 DEF MarkRevoked, Typed, Remembered, Refers
    <3>2. cert' = [cert EXCEPT ![op[p].id].status = "Revoked"]
      BY <2>3 DEF MarkRevoked
    <3>3. cert[op[p].id] \in Certificate
      BY <2>0, <3>1
    <3>4. cert'[op[p].id].status = "Revoked"
      BY <3>1, <3>2, <3>3 DEF Certificate
    <3>5. /\ DOMAIN cert' = DOMAIN cert
          /\ \A i \in DOMAIN cert \ {op[p].id} : cert'[i] = cert[i]
      BY <3>2
    <3> QED
      BY <3>4, <3>5 DEF OneActiveCertificate, Issued
  <2> QED
    BY <2>1, <2>2, <2>3, CertSteps
<1> QED
  BY <1>1, <1>2, PTL DEF Spec

\* A certificate gets one recertification assignment ever: the INSERT is refused
\* while any row, an archived one included, has the same source.
THEOREM Recertified == Spec => []RecertifiedOnce
<1>1. Init => Typed /\ RecertifiedOnce
  <2>1. Init => RecertifiedOnce
    BY DEF Init, RecertifiedOnce
  <2> QED
    BY <2>1, InitTyped
<1>2. Typed /\ RecertifiedOnce /\ [Next]_vars => (Typed /\ RecertifiedOnce)'
  <2> SUFFICES ASSUME Typed, RecertifiedOnce, [Next]_vars
               PROVE  RecertifiedOnce'
    BY NextTyped
  <2>0. assignment \in Seq(Assignment)
    BY DEF Typed, Tables
  <2>1. CASE assignment' = assignment
    BY <2>1 DEF RecertifiedOnce
  <2>2. CASE ArchiveAssignment
    <3>1. PICK j \in DOMAIN assignment :
            assignment' = [assignment EXCEPT ![j].status = "archived"]
      BY <2>2 DEF ArchiveAssignment
    <3>2. assignment[j] \in Assignment
      BY <2>0
    <3>3. assignment'[j].source = assignment[j].source
      BY <3>1, <3>2 DEF Assignment
    <3>4. /\ DOMAIN assignment' = DOMAIN assignment
          /\ \A i \in DOMAIN assignment \ {j} : assignment'[i] = assignment[i]
      BY <3>1
    <3> QED
      BY <3>3, <3>4 DEF RecertifiedOnce
  <2>3. ASSUME NEW p \in Operators, CreateAssignment(p)
        PROVE  RecertifiedOnce'
    <3> DEFINE row == [source |-> op[p].id, due |-> cert[op[p].id].until, status |-> "active"]
    <3>1. /\ assignment' = IF Sourced(op[p].id) THEN assignment ELSE Append(assignment, row)
          /\ row.source = op[p].id
      BY <2>3 DEF CreateAssignment
    <3> HIDE DEF row
    <3>2. CASE Sourced(op[p].id)
      BY <3>1, <3>2 DEF RecertifiedOnce
    <3>3. CASE ~ Sourced(op[p].id)
      <4>1. /\ DOMAIN assignment' = DOMAIN assignment \cup {Len(assignment) + 1}
            /\ \A i \in DOMAIN assignment : assignment'[i] = assignment[i]
            /\ assignment'[Len(assignment) + 1] = row
        BY <2>0, <3>1, <3>3
      <4>2. \A i \in DOMAIN assignment : assignment[i].source # row.source
        BY <3>1, <3>3 DEF Sourced
      <4> QED
        BY <4>1, <4>2 DEF RecertifiedOnce
    <3> QED
      BY <3>2, <3>3
  <2> QED
    BY <2>1, <2>2, <2>3, AssignmentSteps
<1> QED
  BY <1>1, <1>2, PTL DEF Spec

-----------------------------------------------------------------------------
(* Which statement a request is at.                                        *)

\* A request that changes is the only one that does.
LEMMA OthersStay ==
  ASSUME op \in [Operators -> Request], NEW p \in Operators, NEW r, Become(p, r)
  PROVE  \A q \in Operators : op'[q] = IF q = p THEN r ELSE op[q]
  BY DEF Become

\* A scan comes to an e-mail by inserting its row, and no step of a certificate's
\* component brings a request to counting, inserting or grading an attempt.
LEMMA CertRequests ==
  ASSUME Typed, NEW p \in Operators, CertStep(p)
  PROVE  \A q \in Operators :
           /\ op'[q].step \in {"count", "create", "mark", "grade"} => op'[q] = op[q]
           /\ op'[q].step = "mail" /\ ~ InsertLog(p) => op'[q] = op[q]
<1>0. op \in [Operators -> Request] /\ op[p] \in Request
  BY DEF Typed, Remembered
<1>1. ASSUME NEW r, Become(p, r), r.step \notin {"count", "create", "mark", "grade", "mail"}
      PROVE  \A q \in Operators :
               op'[q].step \in {"count", "create", "mark", "grade", "mail"} => op'[q] = op[q]
  BY <1>0, <1>1, OthersStay
<1>2. CASE \/ IssueCertificate(p) \/ FindActiveCertificate(p) \/ NextCertificateNumber(p)
           \/ CreateCertificate(p) \/ RevokeCertificate(p) \/ MarkRevoked(p)
           \/ CreateRecertificationAssignments(p) \/ CreateAssignment(p)
           \/ SendCertificateExpiryReminders(p) \/ SendAssignmentReminders(p)
           \/ SendMail(p) \/ FinishLog(p) \/ EndScan(p) \/ Fail(p)
  <2>1. \E r : Become(p, r) /\ r.step \in {"idle", "evaluate", "number", "insert", "revoke",
                                            "recert", "scan", "finish"}
    <3>1. CASE IssueCertificate(p)
      BY <3>1 DEF IssueCertificate
    <3>2. CASE FindActiveCertificate(p) \/ NextCertificateNumber(p)
      BY <3>2 DEF FindActiveCertificate, NextCertificateNumber
    <3>3. CASE CreateCertificate(p) \/ MarkRevoked(p) \/ EndScan(p) \/ Fail(p)
      BY <3>3 DEF CreateCertificate, MarkRevoked, EndScan, Fail, Idle
    <3>4. CASE RevokeCertificate(p)
      BY <3>4 DEF RevokeCertificate
    <3>5. CASE CreateRecertificationAssignments(p) \/ CreateAssignment(p)
      BY <3>5 DEF CreateRecertificationAssignments, CreateAssignment
    <3>6. CASE SendCertificateExpiryReminders(p) \/ SendAssignmentReminders(p)
      BY <3>6 DEF SendCertificateExpiryReminders, SendAssignmentReminders, Scan
    <3>7. CASE SendMail(p)
      BY <3>7 DEF SendMail
    <3>8. CASE FinishLog(p)
      BY <3>8 DEF FinishLog
    <3> QED
      BY <1>2, <3>1, <3>2, <3>3, <3>4, <3>5, <3>6, <3>7, <3>8
  <2> QED
    BY <1>1, <2>1
<1>3. CASE ReadEvidence(p)
  <2>1. PICK e \in op[p].unread : Become(p, Reading(op[p], e, Holds(op[p].who) \cap {e}))
    BY <1>3 DEF ReadEvidence, Reading
  <2>2. op[p].step = "evaluate" /\ op[p] \in Evaluating
    <3>1. op[p].step = "evaluate"
      BY <1>3 DEF ReadEvidence
    <3>2. op[p] \in [step : {"evaluate"}, who : Learners, unread : SUBSET Evidence,
                     seen : SUBSET Evidence]
      BY <1>0, <3>1 DEF Request, Idle, QuizRequest, CertRequest
    <3> QED
      BY <3>1, <3>2 DEF Evaluating
  <2>3. Reading(op[p], e, Holds(op[p].who) \cap {e}).step = "evaluate"
    BY <2>2 DEF Reading, Evaluating
  <2> QED
    BY <1>1, <2>1, <2>3
<1>4. CASE FindSource(p)
  <2>1. PICK i \in op[p].todo :
          Become(p, IF Sourced(i) THEN Without(op[p], i)
                    ELSE [step |-> "source", todo |-> op[p].todo \ {i}, id |-> i])
    BY <1>4 DEF FindSource, Without
  <2>2. Without(op[p], i).step = "recert"
    <3>1. op[p].step = "recert" /\ op[p] \in [step : {"recert"}, todo : SUBSET Nat]
      BY <1>0, <1>4 DEF FindSource, Request, Idle, QuizRequest, CertRequest
    <3> QED
      BY <3>1 DEF Without
  <2> QED
    BY <1>1, <2>1, <2>2
<1>5. CASE ResolveStatus(p)
  <2>1. op[p] \in Scanning
    BY <1>0, <1>5, IsScan DEF ResolveStatus
  <2>2. \E j, keys, late : Become(p, Without(op[p], j)) \/ Become(p, Noticed(op[p], j, keys, late))
    BY <1>5 DEF ResolveStatus, Without, Noticed
  <2>3. \A j, keys, late : /\ Without(op[p], j).step = "scan"
                           /\ Noticed(op[p], j, keys, late).step = "scan"
    BY <2>1 DEF Scanning, Without, Noticed
  <2> QED
    BY <1>1, <2>2, <2>3
<1>6. CASE InsertLog(p)
  <2>1. op[p] \in Scanning
    BY <1>0, <1>6, IsScan DEF InsertLog
  <2>2. \E r, k : Become(p, r) /\ (r.step = "mail" \/ r = Taken(op[p], k))
    <3>1. PICK k \in Upcoming(op[p]) :
            \/ Become(p, [step |-> "mail", type |-> op[p].type, day |-> op[p].day,
                          todo |-> op[p].todo, keys |-> Taken(op[p], k).keys,
                          digest |-> Taken(op[p], k).digest, key |-> k])
            \/ Become(p, Taken(op[p], k))
      BY <1>6 DEF InsertLog, Taken
    <3> QED
      BY <3>1
  <2>3. \A k : Taken(op[p], k).step = "scan"
    BY <2>1 DEF Scanning, Taken
  <2> QED
    BY <1>0, <1>6, <2>2, <2>3, OthersStay
<1>7. CASE RecordEvidence(p) \/ ChangeAddress(p)
  BY <1>7 DEF RecordEvidence, ChangeAddress
<1> QED
  BY <1>2, <1>3, <1>4, <1>5, <1>6, <1>7 DEF CertStep

\* The assessment engine sends no e-mail.
LEMMA QuizRequestsMail ==
  ASSUME Typed, NEW p \in Operators, QuizStep(p)
  PROVE  \A q \in Operators : op'[q].step = "mail" => op'[q] = op[q]
<1>0. op \in [Operators -> Request] /\ op[p] \in Request
  BY DEF Typed, Remembered
<1>1. CASE CountAttempts(p)
  <2>1. op[p] \in [step : {"count", "create"}, who : Learners, mark : Marks, limit : Limits]
    BY <1>1, <1>0 DEF CountAttempts, Request, Idle, QuizRequest, CertRequest
  <2>2. [op[p] EXCEPT !.step = "create"].step = "create"
    BY <2>1
  <2> QED
    BY <1>0, <1>1, <2>2, OthersStay DEF CountAttempts
<1>2. CASE ~ CountAttempts(p)
  <2>1. op' = op \/ \E r : Become(p, r) /\ r.step \in {"idle", "count", "mark", "grade"}
    <3>1. CASE UpdateAssessment(p) \/ ArchiveAssessment(p)
      BY <3>1 DEF UpdateAssessment, ArchiveAssessment
    <3>2. CASE FindAssessment(p)
      BY <3>2 DEF FindAssessment
    <3>3. CASE CreateAttempt(p) \/ UpdateAttemptGrade(p)
      BY <3>3 DEF CreateAttempt, UpdateAttemptGrade, Idle
    <3>4. CASE FindAttempt(p)
      BY <3>4 DEF FindAttempt
    <3>5. CASE FindMark(p)
      BY <3>5 DEF FindMark
    <3> QED
      BY <1>2, <3>1, <3>2, <3>3, <3>4, <3>5 DEF QuizStep
  <2> QED
    BY <1>0, <2>1, OthersStay
<1> QED
  BY <1>1, <1>2

-----------------------------------------------------------------------------
(* One e-mail per notice.                                                  *)

Sending(p) == op[p].step = "mail"

\* A notice whose e-mail is still to be sent has its row, was not sent before,
\* and is in the hands of one scan.
MailInv ==
    /\ \A p \in Operators : Sending(p) => op[p].key \in DOMAIN mail /\ mail[op[p].key] = 0
    /\ \A p, q \in Operators : Sending(p) /\ Sending(q) /\ op[p].key = op[q].key => p = q
    /\ MailedOnce

\* E-mails are counted where a row is inserted and where one is sent.
LEMMA MailSteps ==
  ASSUME Typed, [Next]_vars
  PROVE  \/ \E p \in Operators : InsertLog(p) \/ SendMail(p)
         \/ mail' = mail /\ \A q \in Operators : op'[q].step = "mail" => op'[q] = op[q]
<1>1. CASE UNCHANGED vars
  BY <1>1 DEF vars, certVars
<1>2. ASSUME NEW p \in Operators, QuizStep(p), UNCHANGED certVars
      PROVE  mail' = mail /\ \A q \in Operators : op'[q].step = "mail" => op'[q] = op[q]
  BY <1>2, QuizRequestsMail DEF certVars
<1>3. ASSUME NEW p \in Operators, CertStep(p), ~ InsertLog(p), ~ SendMail(p)
      PROVE  mail' = mail /\ \A q \in Operators : op'[q].step = "mail" => op'[q] = op[q]
  <2>1. mail' = mail
    BY <1>3 DEF CertStep, certVars, IssueCertificate, ReadEvidence, FindActiveCertificate,
         NextCertificateNumber, CreateCertificate, RevokeCertificate, MarkRevoked,
         CreateRecertificationAssignments, FindSource, CreateAssignment,
         SendCertificateExpiryReminders, SendAssignmentReminders, ResolveStatus,
         FinishLog, EndScan, RecordEvidence, ChangeAddress, Fail
  <2> QED
    BY <1>3, <2>1, CertRequests
<1>4. CASE ArchiveAssignment \/ NextDay
  BY <1>4 DEF ArchiveAssignment, NextDay
<1> QED
  BY <1>1, <1>2, <1>3, <1>4 DEF Next

\* A notice reaches its address at most once: only the scan whose INSERT made
\* the row sends, it sends once, and no row is made a second time, whatever
\* overlaps, fails or dies.
THEOREM Mailed == Spec => []MailedOnce
<1>1. Init => Typed /\ MailInv
  <2>1. Init => MailInv
    BY DEF Init, QuizInit, Idle, MailInv, MailedOnce, Sending
  <2> QED
    BY <2>1, InitTyped
<1>2. Typed /\ MailInv /\ [Next]_vars => (Typed /\ MailInv)'
  <2> SUFFICES ASSUME Typed, MailInv, [Next]_vars
               PROVE  MailInv'
    BY NextTyped
  <2>0. /\ op \in [Operators -> Request] /\ mail \in [DOMAIN log -> Nat]
        /\ \A k \in DOMAIN mail : mail[k] <= 1
    BY DEF Typed, Remembered, Tables, MailInv, MailedOnce
  <2>1. CASE mail' = mail /\ \A q \in Operators : op'[q].step = "mail" => op'[q] = op[q]
    BY <2>1 DEF MailInv, MailedOnce, Sending
  <2>2. ASSUME NEW p \in Operators, InsertLog(p)
        PROVE  MailInv'
    <3>1. PICK k \in Upcoming(op[p]) :
            /\ Become(p, IF Unlogged(k) /\ k.to # NoAddress
                         THEN [step |-> "mail", type |-> op[p].type, day |-> op[p].day,
                               todo |-> op[p].todo, keys |-> Taken(op[p], k).keys,
                               digest |-> Taken(op[p], k).digest, key |-> k]
                         ELSE Taken(op[p], k))
            /\ mail' = IF k \in DOMAIN mail THEN mail ELSE With(mail, k, 0)
      BY <2>2 DEF InsertLog, Taken
    <3>2. Taken(op[p], k).step = "scan"
      <4>1. op[p] \in Scanning
        BY <2>0, <2>2, IsScan DEF InsertLog
      <4> QED
        BY <4>1 DEF Scanning, Taken
    <3>3. /\ DOMAIN mail \subseteq DOMAIN mail' /\ DOMAIN mail' \subseteq DOMAIN mail \cup {k}
          /\ \A n \in DOMAIN mail : mail'[n] = mail[n]
          /\ k \notin DOMAIN mail => k \in DOMAIN mail' /\ mail'[k] = 0
      <4>1. CASE k \in DOMAIN mail
        BY <3>1, <4>1
      <4>2. CASE k \notin DOMAIN mail
        <5>1. mail' = With(mail, k, 0)
          BY <3>1, <4>2
        <5> QED
          BY <4>2, <5>1 DEF With
      <4> QED
        BY <4>1, <4>2
    <3>4. /\ \A q \in Operators \ {p} : op'[q] = op[q]
          /\ op'[p].step = "mail" => op'[p].key = k /\ k \notin DOMAIN mail
      <4> DEFINE send == [step |-> "mail", type |-> op[p].type, day |-> op[p].day,
                          todo |-> op[p].todo, keys |-> Taken(op[p], k).keys,
                          digest |-> Taken(op[p], k).digest, key |-> k]
      <4>1. DOMAIN mail = DOMAIN log
        BY <2>0
      <4>2. send.key = k
        OBVIOUS
      <4>3. Become(p, IF Unlogged(k) /\ k.to # NoAddress THEN send ELSE Taken(op[p], k))
        BY <3>1
      <4> HIDE DEF send
      <4>4. CASE Unlogged(k) /\ k.to # NoAddress
        <5>1. Become(p, send)
          BY <4>3, <4>4
        <5> QED
          BY <2>0, <4>1, <4>2, <4>4, <5>1, OthersStay DEF Unlogged
      <4>5. CASE ~ (Unlogged(k) /\ k.to # NoAddress)
        <5>1. Become(p, Taken(op[p], k))
          BY <4>3, <4>5
        <5> QED
          BY <2>0, <3>2, <5>1, OthersStay
      <4> QED
        BY <4>4, <4>5
    <3>5. MailedOnce'
      BY <2>0, <3>3 DEF MailedOnce
    <3> QED
      BY <3>3, <3>4, <3>5 DEF MailInv, Sending
  <2>3. ASSUME NEW p \in Operators, SendMail(p)
        PROVE  MailInv'
    <3>1. \E accepted \in BOOLEAN : \E r :
            /\ mail' = IF accepted THEN [mail EXCEPT ![op[p].key] = @ + 1] ELSE mail
            /\ Become(p, r) /\ r.step = "finish"
      BY <2>3 DEF SendMail
    <3>2. /\ op'[p].step = "finish"
          /\ \A q \in Operators \ {p} : op'[q] = op[q]
      BY <2>0, <3>1, OthersStay
    <3>3. op[p].key \in DOMAIN mail /\ mail[op[p].key] = 0 /\ Sending(p)
      BY <2>3 DEF SendMail, MailInv, Sending
    <3>4. /\ DOMAIN mail' = DOMAIN mail
          /\ \A n \in DOMAIN mail \ {op[p].key} : mail'[n] = mail[n]
          /\ mail'[op[p].key] \in {0, 1}
      BY <3>1, <3>3
    <3>5. MailedOnce'
      BY <2>0, <3>4 DEF MailedOnce
    <3>6. \A q \in Operators : Sending(q)' => q # p /\ Sending(q) /\ op[q].key # op[p].key
      BY <3>2, <3>3 DEF MailInv, Sending
    <3> QED
      BY <3>2, <3>4, <3>5, <3>6 DEF MailInv, Sending
  <2> QED
    BY <2>1, <2>2, <2>3, MailSteps
<1>3. MailInv => MailedOnce
  BY DEF MailInv
<1> QED
  BY <1>1, <1>2, <1>3, PTL DEF Spec

-----------------------------------------------------------------------------
(* Attempts.                                                               *)

\* The requests that have been counted for a learner and are about to insert.
Creating(x) == {p \in Operators : op[p].step = "create" /\ op[p].who = x}

\* A grade goes to the attempt it was read from.
GradesOwn ==
    \A p \in Operators : op[p].step \in {"mark", "grade"} =>
        op[p].id \in Filed /\ op[p].was.who = attempt[op[p].id].row.who

\* Every limit that a request has read is one that the quiz has had.
LimitsRead ==
    /\ quiz.limits \subseteq Limits /\ quiz.limit \in quiz.limits
    /\ \A p \in Operators : op[p].step = "count" => op[p].limit \in quiz.limits

\* Limit n has room for the attempts of a learner, and for all requests that are
\* about to insert one.
Fits(x, n) ==
    /\ Cardinality(Used(x)) < n + Cardinality(Operators)
    /\ Creating(x) # {} =>
         Cardinality(Used(x)) + Cardinality(Creating(x)) < n + Cardinality(Operators)

\* Some limit of the quiz has had room for all of a learner's requests.
RoomForAll ==
    0 \notin quiz.limits => \A x \in Learners : \E n \in quiz.limits : Fits(x, n)

\* The sets that are counted are finite.
LEMMA Counted ==
  ASSUME NEW x
  PROVE  /\ IsFiniteSet(Used(x)) /\ IsFiniteSet(Creating(x)) /\ IsFiniteSet(Operators)
         /\ Cardinality(Used(x)) \in Nat /\ Cardinality(Creating(x)) \in Nat
         /\ Cardinality(Operators) \in Nat /\ Limits \subseteq Nat
         /\ Cardinality(Creating(x)) <= Cardinality(Operators)
<1>1. /\ IsFiniteSet(Attempts) /\ IsFiniteSet(Operators) /\ Limits \subseteq Nat
      /\ Used(x) \subseteq Attempts /\ Creating(x) \subseteq Operators
  BY AssessmentAssumption DEF Used, Filed, Creating
<1>2. /\ IsFiniteSet(Used(x)) /\ IsFiniteSet(Creating(x))
      /\ Cardinality(Creating(x)) <= Cardinality(Operators)
  BY <1>1, FS_Subset
<1> QED
  BY <1>1, <1>2, FS_CardinalityType

\* The same in the next state.
LEMMA CountedNext ==
  ASSUME NEW x
  PROVE  /\ IsFiniteSet(Used(x)') /\ IsFiniteSet(Creating(x)')
         /\ Cardinality(Used(x)') \in Nat /\ Cardinality(Creating(x)') \in Nat
         /\ Cardinality(Creating(x)') <= Cardinality(Operators)
<1>1. /\ IsFiniteSet(Attempts) /\ IsFiniteSet(Operators)
      /\ Used(x)' \subseteq Attempts /\ Creating(x)' \subseteq Operators
  BY AssessmentAssumption DEF Used, Filed, Creating
<1>2. /\ IsFiniteSet(Used(x)') /\ IsFiniteSet(Creating(x)')
      /\ Cardinality(Creating(x)') <= Cardinality(Operators)
  BY <1>1, FS_Subset
<1> QED
  BY <1>1, <1>2, FS_CardinalityType

\* Fewer requests about to insert, and no attempt more, leave as much room.
LEMMA NoMore ==
  ASSUME LimitsRead, RoomForAll, quiz.limits \subseteq quiz'.limits,
         \A x \in Learners : Used(x)' = Used(x) /\ Creating(x)' \subseteq Creating(x)
  PROVE  RoomForAll'
<1> SUFFICES ASSUME 0 \notin quiz'.limits, NEW x \in Learners
             PROVE  \E n \in quiz'.limits : Fits(x, n)'
  BY DEF RoomForAll
<1>1. PICK n \in quiz.limits : Fits(x, n)
  BY DEF RoomForAll
<1>2. n \in Nat /\ n \in quiz'.limits
  BY Counted DEF LimitsRead
<1>3. Cardinality(Creating(x)') <= Cardinality(Creating(x))
  BY Counted, FS_Subset
<1>4. Creating(x)' # {} => Creating(x) # {}
  OBVIOUS
<1>5. Fits(x, n)'
  BY <1>1, <1>2, <1>3, <1>4, Counted, CountedNext DEF Fits
<1> QED
  BY <1>2, <1>5

\* Attempts are filed, counted and graded in the engine alone.
LEMMA AttemptSteps ==
  ASSUME Typed, [Next]_vars
  PROVE  \/ \E p \in Operators : QuizStep(p)
         \/ /\ attempt' = attempt /\ quiz' = quiz
            /\ \A q \in Operators : op'[q].step \in {"count", "create", "mark", "grade"} => op'[q] = op[q]
<1>1. CASE UNCHANGED vars
  BY <1>1 DEF vars, quizVars
<1>2. ASSUME NEW p \in Operators, CertStep(p)
      PROVE  /\ attempt' = attempt /\ quiz' = quiz
             /\ \A q \in Operators : op'[q].step \in {"count", "create", "mark", "grade"} => op'[q] = op[q]
  <2>1. attempt' = attempt /\ quiz' = quiz
    BY <1>2 DEF CertStep, quizVars, IssueCertificate, ReadEvidence, FindActiveCertificate,
         NextCertificateNumber, CreateCertificate, RevokeCertificate, MarkRevoked,
         CreateRecertificationAssignments, FindSource, CreateAssignment,
         SendCertificateExpiryReminders, SendAssignmentReminders, ResolveStatus,
         InsertLog, SendMail, FinishLog, EndScan, RecordEvidence, ChangeAddress, Fail
  <2> QED
    BY <1>2, <2>1, CertRequests
<1>3. CASE ArchiveAssignment \/ NextDay
  BY <1>3 DEF ArchiveAssignment, NextDay, quizVars
<1> QED
  BY <1>1, <1>2, <1>3 DEF Next

\* An attempt is filed: the place was free, and its request has had its turn.
LEMMA AttemptFiled ==
  ASSUME Typed, GradesOwn, LimitsRead, RoomForAll, NEW p \in Operators, CreateAttempt(p)
  PROVE  (GradesOwn /\ LimitsRead /\ RoomForAll)'
<1>0. op \in [Operators -> Request] /\ op[p] \in Request /\ attempt \in [Attempts -> Row \cup {NoRow}]
  BY DEF Typed, Remembered, Tables, QuizTypeOK
<1>1. PICK a \in Attempts \ Filed, earned \in SUBSET Items :
        attempt' = [attempt EXCEPT ![a] =
            [filed |-> TRUE, row |-> Graded(op[p].who, earned, op[p].mark)]]
  BY DEF CreateAttempt
<1>2. /\ op[p].step = "create"
      /\ op'[p] = Idle /\ \A q \in Operators \ {p} : op'[q] = op[q]
  BY <1>0, OthersStay DEF CreateAttempt
<1>3. /\ attempt'[a].filed /\ attempt'[a].row.who = op[p].who
      /\ \A b \in Attempts \ {a} : attempt'[b] = attempt[b]
  BY <1>0, <1>1 DEF Graded
<1>4. Filed' = Filed \cup {a} /\ a \notin Filed
  BY <1>3 DEF Filed
<1>5. GradesOwn'
  <2>1. \A b \in Filed : b \in Filed' /\ attempt'[b].row.who = attempt[b].row.who
    BY <1>3, <1>4 DEF Filed
  <2>2. \A q \in Operators : op'[q].step \in {"mark", "grade"} => op'[q] = op[q]
    BY <1>2 DEF Idle
  <2> QED
    BY <2>1, <2>2 DEF GradesOwn
<1>6. LimitsRead'
  BY <1>2 DEF LimitsRead, CreateAttempt, Idle
<1>7. RoomForAll'
  <2> SUFFICES ASSUME 0 \notin quiz.limits, NEW x \in Learners
               PROVE  \E n \in quiz.limits : Fits(x, n)'
    BY DEF RoomForAll, CreateAttempt
  <2> PICK n \in quiz.limits : Fits(x, n)
    BY DEF RoomForAll
  <2>0. n \in Nat
    BY Counted DEF LimitsRead
  <2> SUFFICES Fits(x, n)'
    OBVIOUS
  <2>1. Creating(x)' = Creating(x) \ {p}
    BY <1>2 DEF Creating, Idle
  <2>2. CASE x = op[p].who
    <3>1. Used(x)' = Used(x) \cup {a} /\ a \notin Used(x)
      BY <1>3, <1>4, <2>2 DEF Used, Filed
    <3>2. Cardinality(Used(x)') = Cardinality(Used(x)) + 1
      BY <3>1, Counted, FS_AddElement
    <3>3. p \in Creating(x)
      BY <1>2, <2>2 DEF Creating
    <3>4. Cardinality(Creating(x)') = Cardinality(Creating(x)) - 1
      BY <2>1, <3>3, Counted, FS_RemoveElement
    <3>5. Cardinality(Used(x)) + Cardinality(Creating(x)) < n + Cardinality(Operators)
      BY <3>3 DEF Fits
    <3> QED
      BY <2>0, <3>2, <3>4, <3>5, Counted, CountedNext DEF Fits
  <2>3. CASE x # op[p].who
    <3>1. Used(x)' = Used(x)
      BY <1>3, <1>4, <2>3 DEF Used, Filed
    <3>2. Cardinality(Creating(x)') <= Cardinality(Creating(x))
      BY <2>1, Counted, FS_Subset
    <3>3. Creating(x)' # {} => Creating(x) # {}
      BY <2>1
    <3> QED
      BY <2>0, <3>1, <3>2, <3>3, Counted, CountedNext DEF Fits
  <2> QED
    BY <2>2, <2>3
<1> QED
  BY <1>5, <1>6, <1>7

\* A request is counted while there is room for it, and so for as many as there
\* can be.
LEMMA AttemptCounted ==
  ASSUME Typed, GradesOwn, LimitsRead, RoomForAll, NEW p \in Operators, CountAttempts(p)
  PROVE  (GradesOwn /\ LimitsRead /\ RoomForAll)'
<1>0. op \in [Operators -> Request] /\ op[p] \in Request
  BY DEF Typed, Remembered
<1>1. op[p] \in [step : {"count", "create"}, who : Learners, mark : Marks, limit : Limits]
  BY <1>0 DEF CountAttempts, Request, Idle, QuizRequest, CertRequest
<1>2. [op[p] EXCEPT !.step = "create"].step = "create"
      /\ [op[p] EXCEPT !.step = "create"].who = op[p].who
  BY <1>1
<1>3. /\ op'[p].step = "create" /\ op'[p].who = op[p].who
      /\ \A q \in Operators \ {p} : op'[q] = op[q]
      /\ MayTry(op[p].who, op[p].limit) /\ attempt' = attempt /\ quiz' = quiz
  BY <1>0, <1>2, OthersStay DEF CountAttempts, quizVars
<1>4. GradesOwn'
  BY <1>3 DEF GradesOwn, Filed
<1>5. LimitsRead'
  BY <1>3 DEF LimitsRead
<1>6. RoomForAll'
  <2> SUFFICES ASSUME 0 \notin quiz.limits, NEW x \in Learners
               PROVE  \E n \in quiz.limits : Fits(x, n)'
    BY <1>3 DEF RoomForAll
  <2>1. Used(x)' = Used(x)
    BY <1>3 DEF Used, Filed
  <2>2. CASE x = op[p].who
    <3>1. PICK n \in quiz.limits : n = op[p].limit /\ n \in Nat /\ n # 0
      BY Counted DEF LimitsRead, CountAttempts
    <3>2. Cardinality(Used(x)) < n
      BY <1>3, <2>2, <3>1 DEF MayTry
    <3>3. Fits(x, n)'
      BY <2>1, <3>1, <3>2, Counted, CountedNext DEF Fits
    <3> QED
      BY <3>1, <3>3
  <2>3. CASE x # op[p].who
    <3>1. Creating(x)' = Creating(x)
      BY <1>1, <1>3, <2>3 DEF Creating
    <3> QED
      BY <2>1, <3>1 DEF RoomForAll, Fits
  <2> QED
    BY <2>2, <2>3
<1> QED
  BY <1>4, <1>5, <1>6

\* A grade leaves the attempt to its learner.
LEMMA AttemptGraded ==
  ASSUME Typed, GradesOwn, LimitsRead, RoomForAll, NEW p \in Operators, UpdateAttemptGrade(p)
  PROVE  (GradesOwn /\ LimitsRead /\ RoomForAll)'
<1>0. op \in [Operators -> Request] /\ attempt \in [Attempts -> Row \cup {NoRow}]
  BY DEF Typed, Remembered, Tables, QuizTypeOK
<1> DEFINE a == op[p].id
           row == Regraded(attempt[a].row, op[p])
<1>1. a \in Filed /\ op[p].was.who = attempt[a].row.who
  BY DEF UpdateAttemptGrade, GradesOwn
<1>2. attempt[a] \in Row
  <2>1. a \in Attempts /\ attempt[a].filed
    BY <1>1 DEF Filed
  <2>2. attempt[a] # NoRow
    BY <2>1 DEF NoRow
  <2> QED
    BY <1>0, <2>1, <2>2
<1>3. attempt' = [attempt EXCEPT ![a] = [attempt[a] EXCEPT !.row = row]]
      /\ row.who = attempt[a].row.who
  BY <1>1 DEF UpdateAttemptGrade, Regraded, Graded
<1>4. /\ op'[p] = Idle /\ \A q \in Operators \ {p} : op'[q] = op[q]
  BY <1>0, OthersStay DEF UpdateAttemptGrade
<1> HIDE DEF row
<1>5. /\ attempt'[a].filed /\ attempt'[a].row.who = attempt[a].row.who
      /\ \A b \in Attempts \ {a} : attempt'[b] = attempt[b]
  <2> DEFINE new == [attempt[a] EXCEPT !.row = row]
  <2>1. new.filed = TRUE /\ new.row = row
    BY <1>2 DEF Row
  <2>2. a \in Attempts /\ attempt' = [attempt EXCEPT ![a] = new]
    BY <1>1, <1>3 DEF Filed
  <2> HIDE DEF new
  <2>3. attempt'[a] = new /\ \A b \in Attempts \ {a} : attempt'[b] = attempt[b]
    BY <1>0, <2>2
  <2> QED
    BY <1>3, <2>1, <2>3
<1>6. Filed' = Filed
  BY <1>1, <1>5 DEF Filed
<1>7. \A b \in Filed : attempt'[b].row.who = attempt[b].row.who
  BY <1>5 DEF Filed
<1>8. GradesOwn'
  BY <1>4, <1>6, <1>7 DEF GradesOwn, Idle
<1>9. \A x \in Learners : Used(x)' = Used(x) /\ Creating(x)' \subseteq Creating(x)
  BY <1>4, <1>6, <1>7 DEF Used, Creating, Idle
<1>10. quiz' = quiz
  BY DEF UpdateAttemptGrade
<1>11. LimitsRead'
  BY <1>4, <1>10 DEF LimitsRead, Idle
<1> QED
  BY <1>8, <1>9, <1>10, <1>11, NoMore

\* No other step of the engine files an attempt or lets a request insert one.
LEMMA AttemptRest ==
  ASSUME Typed, GradesOwn, LimitsRead, RoomForAll, NEW p \in Operators,
         \/ UpdateAssessment(p) \/ ArchiveAssessment(p) \/ FindAssessment(p)
         \/ FindAttempt(p) \/ FindMark(p)
  PROVE  (GradesOwn /\ LimitsRead /\ RoomForAll)'
<1>0. /\ op \in [Operators -> Request] /\ attempt' = attempt
  BY DEF Typed, Remembered, UpdateAssessment, ArchiveAssessment, FindAssessment, FindAttempt,
         FindMark, quizVars
<1>1. /\ \A q \in Operators \ {p} : op'[q] = op[q]
      /\ \/ op'[p] = op[p]
         \/ op'[p].step = "count" /\ op'[p].limit = quiz.limit
         \/ /\ op'[p].step \in {"mark", "grade"} /\ op'[p].id \in Filed
            /\ op'[p].was.who = attempt[op'[p].id].row.who
  <2>1. CASE UpdateAssessment(p) \/ ArchiveAssessment(p)
    BY <2>1 DEF UpdateAssessment, ArchiveAssessment
  <2>2. CASE FindAssessment(p)
    BY <1>0, <2>2, OthersStay DEF FindAssessment
  <2>3. CASE FindAttempt(p)
    BY <1>0, <2>3, OthersStay DEF FindAttempt
  <2>4. CASE FindMark(p)
    BY <1>0, <2>4, OthersStay DEF FindMark, GradesOwn
  <2> QED
    BY <2>1, <2>2, <2>3, <2>4
<1>2. GradesOwn'
  BY <1>0, <1>1 DEF GradesOwn, Filed
<1>3. \A x \in Learners : Used(x)' = Used(x) /\ Creating(x)' \subseteq Creating(x)
  BY <1>0, <1>1 DEF Used, Filed, Creating
<1>4. /\ quiz.limits \subseteq quiz'.limits /\ quiz'.limits \subseteq Limits
      /\ quiz'.limit \in quiz'.limits
  <2>1. CASE UpdateAssessment(p)
    BY <2>1 DEF UpdateAssessment, LimitsRead
  <2>2. CASE ArchiveAssessment(p)
    BY <2>2 DEF ArchiveAssessment, LimitsRead, Typed, Tables, QuizTypeOK, Quiz
  <2>3. CASE FindAssessment(p) \/ FindAttempt(p) \/ FindMark(p)
    BY <2>3 DEF FindAssessment, FindAttempt, FindMark, quizVars, LimitsRead
  <2> QED
    BY <2>1, <2>2, <2>3
<1>5. LimitsRead'
  BY <1>1, <1>4 DEF LimitsRead
<1> QED
  BY <1>2, <1>3, <1>4, <1>5, NoMore

\* While the quiz has always had a limit, a learner's attempts exceed some limit
\* it has had by fewer than the requests that the server handles together,
\* however its authors raise and lower it meanwhile.
THEOREM AttemptsWithin == Spec => []AttemptsBounded
<1> DEFINE Inv == GradesOwn /\ LimitsRead /\ RoomForAll
<1>1. Init => Typed /\ Inv
  <2> SUFFICES ASSUME Init PROVE GradesOwn /\ LimitsRead /\ RoomForAll
    BY InitTyped
  <2>1. /\ \A x \in Learners : Used(x) = {} /\ Creating(x) = {}
        /\ \A p \in Operators : op[p].step = "idle"
    BY DEF Init, QuizInit, Used, Filed, NoRow, Creating, Idle
  <2>2. PICK n \in Limits : quiz.limit = n /\ quiz.limits = {n}
    BY DEF Init, QuizInit
  <2>3. LimitsRead
    BY <2>1, <2>2 DEF LimitsRead
  <2>4. Cardinality({}) = 0
    BY FS_EmptySet
  <2>5. n \in Nat
    BY <2>2, AssessmentAssumption
  <2>6. ASSUME n # 0, NEW x \in Learners
        PROVE  Fits(x, n)
    <3>1. Used(x) = {} /\ Creating(x) = {}
      BY <2>1
    <3>2. Cardinality(Used(x)) = 0 /\ Cardinality(Operators) \in Nat
      BY <2>4, <3>1, Counted
    <3> QED
      BY <2>5, <2>6, <3>1, <3>2 DEF Fits
  <2>7. RoomForAll
    BY <2>2, <2>6 DEF RoomForAll
  <2> QED
    BY <2>1, <2>3, <2>7 DEF GradesOwn
<1>2. Typed /\ Inv /\ [Next]_vars => (Typed /\ Inv)'
  <2> SUFFICES ASSUME Typed, GradesOwn, LimitsRead, RoomForAll, [Next]_vars
               PROVE  (GradesOwn /\ LimitsRead /\ RoomForAll)'
    BY NextTyped
  <2>1. ASSUME NEW p \in Operators, QuizStep(p)
        PROVE  (GradesOwn /\ LimitsRead /\ RoomForAll)'
    BY <2>1, AttemptFiled, AttemptCounted, AttemptGraded, AttemptRest DEF QuizStep
  <2>2. CASE /\ attempt' = attempt /\ quiz' = quiz
             /\ \A q \in Operators :
                  op'[q].step \in {"count", "create", "mark", "grade"} => op'[q] = op[q]
    <3>1. GradesOwn'
      BY <2>2 DEF GradesOwn, Filed
    <3>2. LimitsRead'
      BY <2>2 DEF LimitsRead
    <3>3. \A x \in Learners : Used(x)' = Used(x) /\ Creating(x)' \subseteq Creating(x)
      BY <2>2 DEF Used, Filed, Creating
    <3> QED
      BY <2>2, <3>1, <3>2, <3>3, NoMore
  <2> QED
    BY <2>1, <2>2, AttemptSteps
<1>3. RoomForAll => AttemptsBounded
  BY DEF RoomForAll, AttemptsBounded, Fits
<1> QED
  BY <1>1, <1>2, <1>3, PTL DEF Spec
=============================================================================
