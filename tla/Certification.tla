--------------------------- MODULE Certification ---------------------------
(***************************************************************************)
(* Certificates of a cohort, from the evidence that earns them to the      *)
(* reminders of their expiry: issuing and revoking, the nightly scan that  *)
(* assigns recertification, and the two scans that send e-mails under the  *)
(* notification log. Composed with the assessment engine, whose attempts   *)
(* are one piece of the evidence.                                          *)
(*                                                                         *)
(* As in Assessment every statement is a step; only unique indexes and the *)
(* WHERE clause of a write arbitrate. Scans of the same kind may overlap   *)
(* and die at any point, between an e-mail and its row included.           *)
(***************************************************************************)
EXTENDS Assessment, Sequences, Integers, TLC

CONSTANTS Policy,     \* evidence the completion policy asks for
          Validity,   \* days a certificate is valid
          Window,     \* days before expiry in which the scans act
          Imminent,   \* days before expiry of the second notice
          DueSoon,    \* days before its due date at which an assignment reminds
          Every,      \* days between reminders of an overdue assignment
          Week,       \* days of a digest period
          Addresses,  \* e-mail addresses
          NoAddress,  \* ... of which one is none
          Manager,    \* the address of the learners' manager
          MaxCerts,   \* bound on certificates
          LastDay     \* bound on the clock

Evidence == {"attendance", "attempt", "feedback"}

ASSUME CertificationAssumption ==
    /\ Policy \subseteq Evidence
    /\ {Validity, Window, Imminent, Every, Week, MaxCerts, LastDay} \subseteq Nat
    /\ Every > 0 /\ Week > 0 /\ Imminent <= Window
    /\ DueSoon \subseteq Nat \ {0}
    /\ NoAddress \in Addresses /\ Manager \notin Addresses

VARIABLES today,       \* the date
          met,         \* met[x]: evidence recorded besides attempts
          address,     \* address[x]: the learner's e-mail address
          counter,     \* the counter of certificate numbers
          cert,        \* certificates in the order of their INSERT
          assignment,  \* recertification assignments in the order of theirs
          log,         \* the notification_logs row of each key that has one
          mail         \* e-mails the mail server accepted, by key

certVars == <<today, met, address, counter, cert, assignment, log, mail>>
vars == <<quizVars, certVars, op, begun>>

-----------------------------------------------------------------------------
(* Rows.                                                                   *)

Days == 0 .. LastDay
Certificate == [who : Learners, number : Nat, until : Nat, status : {"Issued", "Revoked"}]
Assignment == [source : Nat, due : Nat, status : {"active", "archived"}]

\* What identifies a notification: its type, address, subject and cadence.
\* A digest goes to the manager, and its cadence is the week.
Scans == {"expiring", "assignment"}
Key == [type : Scans, to : Addresses \cup {Manager}, about : Nat, cadence : Int]

Issued == {i \in DOMAIN cert : cert[i].status = "Issued"}

\* Mutant: certificates already past their date do not count.
ActiveToday(x) == {i \in Issued : cert[i].who = x /\ today <= cert[i].until}

\* findActiveCertificate; the unique index reads the same rows.
Active(x) == {i \in Issued : cert[i].who = x}

\* findExpiringIssuedCertificates
Expiring == {i \in Issued : today <= cert[i].until /\ cert[i].until <= today + Window}

\* Mutant: an archived assignment does not count.
SourcedNow(i) ==
    \E j \in DOMAIN assignment : assignment[j].source = i /\ assignment[j].status = "active"

\* findBySourceCertificateId, archived rows included; so does the unique index.
Sourced(i) == \E j \in DOMAIN assignment : assignment[j].source = i

Holds(x) == met[x] \cup (IF Passed(x) THEN {"attempt"} ELSE {})
Complete(x) == Policy \subseteq Holds(x)

\* hasCompletedProgram: a certificate, expired or not, or a cohort that is
\* complete by its evidence.
HasCompletedProgram(x) == Active(x) # {} \/ Complete(x)

-----------------------------------------------------------------------------
(* Cadences.                                                               *)

Bucket(i, day) == IF cert[i].until - day <= Imminent THEN Imminent ELSE Window

\* getLearnerCadence: some days before the due date, then every few days after
\* it (a bucket is named by its first day, negated); {} is no reminder that day.
Cadence(due, day) ==
    IF due < day THEN {- (((day - due - 1) \div Every) * Every + 1)}
    ELSE {due - day} \cap DueSoon

ExpiryKeys ==
    {[type |-> "expiring", to |-> address[cert[i].who], about |-> i,
      cadence |-> Bucket(i, today)] : i \in Expiring}

\* notifyManagers, notifyManagersOfExpiry: one digest of the week for the manager.
DigestKey(q) == [type |-> q.type, to |-> Manager, about |-> 0, cadence |-> q.day \div Week]

-----------------------------------------------------------------------------
(* Requests and scans.                                                     *)

CertRequest ==
    [step : {"evaluate"}, who : Learners, unread : SUBSET Evidence, seen : SUBSET Evidence]
    \cup [step : {"active", "number"}, who : Learners]
    \cup [step : {"insert"}, who : Learners, number : Nat]
    \cup [step : {"revoke"}, id : Nat]
    \cup [step : {"recert"}, todo : SUBSET Nat]
    \cup [step : {"source"}, todo : SUBSET Nat, id : Nat]
    \cup [step : {"scan"}, type : Scans, day : Days, todo : SUBSET Nat, keys : SUBSET Key,
          digest : BOOLEAN]
    \cup [step : {"mail"}, type : Scans, day : Days, todo : SUBSET Nat, keys : SUBSET Key,
          digest : BOOLEAN, key : Key]
    \cup [step : {"finish"}, type : Scans, day : Days, todo : SUBSET Nat, keys : SUBSET Key,
          digest : BOOLEAN, key : Key, result : {"sent", "failed"}]

TypeOK ==
    /\ QuizTypeOK
    /\ today \in Days
    /\ met \in [Learners -> SUBSET (Evidence \ {"attempt"})]
    /\ address \in [Learners -> Addresses]
    /\ counter \in Nat
    /\ cert \in Seq(Certificate)
    /\ assignment \in Seq(Assignment)
    /\ DOMAIN log \subseteq Key
    /\ \A k \in DOMAIN log : log[k] \in {"pending", "sent", "failed", "skipped"}
    /\ mail \in [DOMAIN log -> Nat]
    /\ op \in [Operators -> {Idle} \cup QuizRequest \cup CertRequest]

Init ==
    /\ QuizInit
    /\ today = 0
    /\ met = [x \in Learners |-> {}]
    /\ address \in [Learners -> Addresses]
    /\ counter = 0
    /\ cert = <<>>
    /\ assignment = <<>>
    /\ log = <<>>
    /\ mail = <<>>

-----------------------------------------------------------------------------
(* Around the certificates: other components, and the calendar.            *)

\* Attendance and feedback are recorded; attendance can be corrected.
RecordEvidence(p) ==
    /\ Begin(p, "evidence")
    /\ \E x \in Learners :
         \/ \E e \in {"attendance", "feedback"} \ met[x] : met' = [met EXCEPT ![x] = @ \cup {e}]
         \/ "attendance" \in met[x] /\ met' = [met EXCEPT ![x] = @ \ {"attendance"}]
    /\ UNCHANGED <<quizVars, op, today, address, counter, cert, assignment, log, mail>>

ChangeAddress(p) ==
    /\ Begin(p, "address")
    /\ \E x \in Learners, to \in Addresses :
         /\ to # address[x]
         /\ address' = [address EXCEPT ![x] = to]
    /\ UNCHANGED <<quizVars, op, today, met, counter, cert, assignment, log, mail>>

NextDay ==
    /\ today < LastDay
    /\ today' = today + 1
    /\ UNCHANGED <<quizVars, op, begun, met, address, counter, cert, assignment, log, mail>>

\* A refusal, a failing statement, or the end of the process.
Fail(p) ==
    /\ op[p] # Idle
    /\ Become(p, Idle)
    /\ UNCHANGED <<quizVars, certVars, begun>>

-----------------------------------------------------------------------------
(* Issue and revoke.                                                       *)

IssueCertificate(p) ==
    /\ Begin(p, "issue")
    /\ Len(cert) < MaxCerts
    /\ \E x \in Learners :
         Become(p, [step |-> "evaluate", who |-> x, unread |-> Policy, seen |-> {}])
    /\ UNCHANGED <<quizVars, certVars>>

\* The reads of an evaluation run side by side, each on its own connection; what
\* the policy does not ask for is read and not used.
ReadEvidence(p) ==
    /\ op[p].step = "evaluate"
    /\ \E e \in op[p].unread :
         Become(p, [op[p] EXCEPT !.unread = @ \ {e},
                                 !.seen = @ \cup (Holds(op[p].who) \cap {e})])
    /\ UNCHANGED <<quizVars, certVars, begun>>

FindActiveCertificate(p) ==
    /\ op[p].step = "evaluate" /\ op[p].unread = {}
    /\ Policy \subseteq op[p].seen
    /\ Active(op[p].who) = {}
    /\ Become(p, [step |-> "number", who |-> op[p].who])
    /\ UNCHANGED <<quizVars, certVars, begun>>

NextNumber == counter + 1

\* The counter is a statement of its own: a number whose INSERT fails is gone.
NextCertificateNumber(p) ==
    /\ op[p].step = "number"
    /\ counter' = NextNumber
    /\ Become(p, [step |-> "insert", who |-> op[p].who, number |-> counter'])
    /\ UNCHANGED <<quizVars, begun, today, met, address, cert, assignment, log, mail>>

CreateCertificate(p) ==
    /\ op[p].step = "insert"
    /\ Active(op[p].who) = {}
    /\ cert' = Append(cert, [who |-> op[p].who, number |-> op[p].number,
                             until |-> today + Validity, status |-> "Issued"])
    /\ Become(p, Idle)
    /\ UNCHANGED <<quizVars, begun, today, met, address, counter, assignment, log, mail>>

RevokeCertificate(p) ==
    /\ Begin(p, "revoke")
    /\ \E i \in Issued : Become(p, [step |-> "revoke", id |-> i])
    /\ UNCHANGED <<quizVars, certVars>>

MarkRevoked(p) ==
    /\ op[p].step = "revoke"
    /\ cert' = [cert EXCEPT ![op[p].id].status = "Revoked"]
    /\ Become(p, Idle)
    /\ UNCHANGED <<quizVars, begun, today, met, address, counter, assignment, log, mail>>

-----------------------------------------------------------------------------
(* Recertification assignments.                                            *)

CreateRecertificationAssignments(p) ==
    /\ Begin(p, "recert")
    /\ Become(p, [step |-> "recert", todo |-> Expiring])
    /\ UNCHANGED <<quizVars, certVars>>

FindSource(p) ==
    /\ op[p].step = "recert"
    /\ \E i \in op[p].todo :
         Become(p, IF Sourced(i) THEN [op[p] EXCEPT !.todo = @ \ {i}]
                   ELSE [step |-> "source", todo |-> op[p].todo \ {i}, id |-> i])
    /\ UNCHANGED <<quizVars, certVars, begun>>

\* The INSERT, which the index refuses if another scan was faster.
CreateAssignment(p) ==
    /\ op[p].step = "source"
    /\ assignment' = IF Sourced(op[p].id) THEN assignment
                     ELSE Append(assignment, [source |-> op[p].id, due |-> cert[op[p].id].until,
                                              status |-> "active"])
    /\ Become(p, [step |-> "recert", todo |-> op[p].todo])
    /\ UNCHANGED <<quizVars, begun, today, met, address, counter, cert, log, mail>>

\* One statement of an administrator.
ArchiveAssignment ==
    /\ "archive" \in Kinds
    /\ \E j \in DOMAIN assignment :
         /\ assignment[j].status = "active"
         /\ assignment' = [assignment EXCEPT ![j].status = "archived"]
    /\ UNCHANGED <<quizVars, op, begun, today, met, address, counter, cert, log, mail>>

-----------------------------------------------------------------------------
(* Reminders. A scan takes its notices one after the other: the log row    *)
(* first, then the e-mail, then the result.                                *)

Scan(p, type, todo, keys, digest) ==
    Become(p, [step |-> "scan", type |-> type, day |-> today, todo |-> todo, keys |-> keys,
               digest |-> digest])

SendCertificateExpiryReminders(p) ==
    /\ Begin(p, "expiry")
    /\ Scan(p, "expiring", {}, ExpiryKeys, Expiring # {})
    /\ UNCHANGED <<quizVars, certVars>>

SendAssignmentReminders(p) ==
    /\ Begin(p, "assignments")
    /\ Scan(p, "assignment", {j \in DOMAIN assignment : assignment[j].status = "active"}, {}, FALSE)
    /\ UNCHANGED <<quizVars, certVars>>

\* resolveAssignmentStatuses for the next assignment of the list.
ResolveStatus(p) ==
    LET q == op[p] IN
    /\ q.step = "scan" /\ q.keys = {}
    /\ \E j \in q.todo :
         LET a == assignment[j]
             x == cert[a.source].who IN
         Become(p, IF HasCompletedProgram(x) THEN [q EXCEPT !.todo = @ \ {j}]
                   ELSE [q EXCEPT !.todo = @ \ {j},
                                  !.keys = {[type |-> "assignment", to |-> address[x], about |-> j,
                                             cadence |-> c] : c \in Cadence(a.due, q.day)},
                                  !.digest = @ \/ a.due < q.day])
    /\ UNCHANGED <<quizVars, certVars, begun>>

\* The notices that can be next: those of the scan, its digest at the end.
Upcoming(q) ==
    IF q.keys # {} THEN q.keys
    ELSE IF q.todo = {} /\ q.digest THEN {DigestKey(q)}
    ELSE {}

\* Mutant: a notice that failed is sent again.
NotSent(k) == k \in DOMAIN log => log[k] = "failed"

\* The unique index of the log.
Unlogged(k) == k \notin DOMAIN log

\* f with a row for k.
With(f, k, v) == [n \in {k} \cup DOMAIN f |-> IF n = k THEN v ELSE f[n]]

InsertLog(p) ==
    LET q == op[p] IN
    /\ q.step = "scan"
    /\ \E k \in Upcoming(q) :
         LET rest == [q EXCEPT !.keys = @ \ {k}, !.digest = q.keys # {} /\ @] IN
         /\ Become(p, IF Unlogged(k) /\ k.to # NoAddress
                      THEN [step |-> "mail", type |-> q.type, day |-> q.day, todo |-> q.todo,
                            keys |-> rest.keys, digest |-> rest.digest, key |-> k]
                      ELSE rest)
         /\ log' = IF ~ Unlogged(k) THEN log
                   ELSE With(log, k, IF k.to = NoAddress THEN "skipped" ELSE "pending")
         /\ mail' = IF k \in DOMAIN mail THEN mail ELSE With(mail, k, 0)
    /\ UNCHANGED <<quizVars, begun, today, met, address, counter, cert, assignment>>

\* An e-mail that was accepted may still be reported as failed.
Reports(accepted) == IF accepted THEN {"sent", "failed"} ELSE {"failed"}

SendMail(p) ==
    LET q == op[p] IN
    /\ q.step = "mail"
    /\ \E accepted \in BOOLEAN : \E result \in Reports(accepted) :
         /\ mail' = IF accepted THEN [mail EXCEPT ![q.key] = @ + 1] ELSE mail
         /\ Become(p, [step |-> "finish", type |-> q.type, day |-> q.day, todo |-> q.todo,
                       keys |-> q.keys, digest |-> q.digest, key |-> q.key, result |-> result])
    /\ UNCHANGED <<quizVars, begun, today, met, address, counter, cert, assignment, log>>

FinishLog(p) ==
    LET q == op[p] IN
    /\ q.step = "finish"
    /\ log' = [log EXCEPT ![q.key] = q.result]
    /\ Become(p, [step |-> "scan", type |-> q.type, day |-> q.day, todo |-> q.todo,
                  keys |-> q.keys, digest |-> q.digest])
    /\ UNCHANGED <<quizVars, begun, today, met, address, counter, cert, assignment, mail>>

EndScan(p) ==
    /\ \/ op[p].step = "recert" /\ op[p].todo = {}
       \/ op[p].step = "scan" /\ op[p].todo = {} /\ Upcoming(op[p]) = {}
    /\ Become(p, Idle)
    /\ UNCHANGED <<quizVars, certVars, begun>>

CertStep(p) ==
    \/ IssueCertificate(p) \/ ReadEvidence(p) \/ FindActiveCertificate(p)
    \/ NextCertificateNumber(p) \/ CreateCertificate(p)
    \/ RevokeCertificate(p) \/ MarkRevoked(p)
    \/ CreateRecertificationAssignments(p) \/ FindSource(p) \/ CreateAssignment(p)
    \/ SendCertificateExpiryReminders(p) \/ SendAssignmentReminders(p) \/ ResolveStatus(p)
    \/ InsertLog(p) \/ SendMail(p) \/ FinishLog(p) \/ EndScan(p)
    \/ RecordEvidence(p) \/ ChangeAddress(p)
    \/ Fail(p)

Next ==
    \/ \E p \in Operators : \/ QuizStep(p) /\ UNCHANGED certVars
                            \/ CertStep(p)
    \/ ArchiveAssignment
    \/ NextDay

Spec == Init /\ [][Next]_vars

-----------------------------------------------------------------------------
(* Properties.                                                             *)

\* A learner holds at most one certificate that is not revoked, however issues,
\* revocations and re-issues overlap: the check precedes the number, and the
\* number the INSERT.
OneActiveCertificate == \A i, j \in Issued : cert[i].who = cert[j].who => i = j

\* A notice reaches its address at most once, although scans overlap, die after
\* the e-mail and before the row is finished, and start over.
MailedOnce == \A k \in DOMAIN mail : mail[k] <= 1

\* One recertification assignment ever for a certificate, also after an
\* administrator archived it.
RecertifiedOnce ==
    \A i, j \in DOMAIN assignment : assignment[i].source = assignment[j].source => i = j

\* A certificate is issued to a learner who meets the policy: the evidence that
\* the statements found one after the other is all there at the INSERT.
IssuedWhenComplete ==
    [][Len(cert') > Len(cert) => Complete(cert'[Len(cert')].who)]_vars

\* Numbers are "gapless-per-commit": a request that fails takes none.
Gapless == (\A p \in Operators : op[p] = Idle) => counter = Len(cert)

\* "Each cert sends at most one of each bucket over its lifetime."
OneNoticePerBucket ==
    \A k, n \in DOMAIN mail :
        /\ mail[k] > 0 /\ mail[n] > 0
        /\ k.type = n.type /\ k.about = n.about /\ k.cadence = n.cadence
        => k = n

\* Recertification is assigned for certificates that are issued, not revoked.
AssignedWhileIssued ==
    [][Len(assignment') > Len(assignment) =>
         assignment'[Len(assignment')].source \in Issued]_vars

\* "The new Assignment then rides the existing machinery": on a day of its
\* cadence the scan has a notice for every active recertification assignment
\* whose learner has not been certified anew.
RecertificationReminds ==
    [][\A p \in Operators : ResolveStatus(p) =>
         \A j \in op[p].todo \ op'[p].todo :
             \/ Cadence(assignment[j].due, op[p].day) = {}
             \/ \E i \in DOMAIN cert : /\ i > assignment[j].source
                                      /\ cert[i].who = cert[assignment[j].source].who
             \/ op'[p].keys # {}]_vars
=============================================================================
