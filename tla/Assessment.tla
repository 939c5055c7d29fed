----------------------------- MODULE Assessment -----------------------------
(***************************************************************************)
(* The assessment engine of one cohort: learners submit attempts at a quiz, *)
(* which are graded at once, and staff grade short text answers by hand.   *)
(*                                                                         *)
(* No operation runs in a transaction: each statement is a step of its     *)
(* own, and what it read may be outdated when the next one is executed.    *)
(* Every item is worth one point. Who may author, take part and grade is   *)
(* left to refusals.                                                       *)
(***************************************************************************)
EXTENDS Naturals, FiniteSets

CONSTANTS Learners,     \* learners of the cohort
          Items,        \* items of the quiz
          ShortText,    \* the items whose answers are text
          Attempts,     \* ids of attempts
          Limits,       \* numbers of attempts a quiz may allow; 0 for any number
          Operators,    \* requests the server handles at a time
          Kinds,        \* operations the instance uses
          MaxRequests   \* bound on the requests ever begun

ASSUME AssessmentAssumption ==
    /\ IsFiniteSet(Items) /\ IsFiniteSet(Attempts) /\ IsFiniteSet(Operators)
    /\ ShortText \subseteq Items
    /\ Limits \subseteq Nat /\ MaxRequests \in Nat

VARIABLES quiz,     \* the assessments row
          attempt,  \* the assessment_attempts rows
          op,       \* op[p]: the request in slot p and what it has read
          begun     \* requests begun so far

quizVars == <<quiz, attempt>>

Marks == 0 .. Cardinality(Items)

\* "limits" is a history: every limit the row has had so far.
Quiz == [live : BOOLEAN, published : BOOLEAN, mark : Marks, limit : Limits,
         limits : SUBSET Limits]

\* "earned" holds the items whose answer got its point.
Attempt == [who : Learners, earned : SUBSET Items, score : Marks, passed : BOOLEAN]
Row == [filed : {TRUE}, row : Attempt]
NoRow == [filed |-> FALSE]

Filed == {a \in Attempts : attempt[a].filed}
Used(x) == {a \in Filed : attempt[a].row.who = x}

\* findPassingAttempt
Passed(x) == \E a \in Used(x) : attempt[a].row.passed

Idle == [step |-> "idle"]

QuizRequest ==
    [step : {"count", "create"}, who : Learners, mark : Marks, limit : Limits]
    \cup [step : {"mark"}, id : Attempts, was : Attempt, yes : SUBSET Items, no : SUBSET Items]
    \cup [step : {"grade"}, id : Attempts, was : Attempt, yes : SUBSET Items, no : SUBSET Items,
          mark : Marks]

QuizTypeOK ==
    /\ quiz \in Quiz
    /\ attempt \in [Attempts -> Row \cup {NoRow}]
    /\ begun \in 0 .. MaxRequests

QuizInit ==
    /\ \E mark \in Marks \ {0}, limit \in Limits :
         quiz = [live |-> TRUE, published |-> TRUE, mark |-> mark, limit |-> limit,
                 limits |-> {limit}]
    /\ attempt = [a \in Attempts |-> NoRow]
    /\ op = [p \in Operators |-> Idle]
    /\ begun = 0

Begin(p, kind) ==
    /\ kind \in Kinds
    /\ op[p] = Idle /\ begun < MaxRequests
    /\ begun' = begun + 1

Become(p, request) == op' = [op EXCEPT ![p] = request]

-----------------------------------------------------------------------------
(* Authoring.                                                              *)

\* The checks before the UPDATE read rows it does not depend on. Every field is
\* overwritten, whatever attempts there are: the limit may fall below their number.
UpdateAssessment(p) ==
    /\ Begin(p, "author")
    /\ quiz.live
    /\ \E published \in BOOLEAN, mark \in Marks, limit \in Limits :
         quiz' = [live |-> TRUE, published |-> published, mark |-> mark, limit |-> limit,
                  limits |-> quiz.limits \cup {limit}]
    /\ UNCHANGED <<attempt, op>>

ArchiveAssessment(p) ==
    /\ Begin(p, "author")
    /\ quiz.live
    /\ quiz' = [quiz EXCEPT !.live = FALSE]
    /\ UNCHANGED <<attempt, op>>

-----------------------------------------------------------------------------
(* Attempts.                                                               *)

FindAssessment(p) ==
    /\ Begin(p, "submit")
    /\ quiz.live /\ quiz.published
    /\ \E x \in Learners :
         Become(p, [step |-> "count", who |-> x, mark |-> quiz.mark, limit |-> quiz.limit])
    /\ UNCHANGED quizVars

\* Mutant: one attempt too many.
NotBeyond(x, limit) == limit > 0 => Cardinality(Used(x)) <= limit

\* The limit is the one the request read with the quiz.
MayTry(x, limit) == limit > 0 => Cardinality(Used(x)) < limit

CountAttempts(p) ==
    /\ op[p].step = "count"
    /\ MayTry(op[p].who, op[p].limit)
    /\ Become(p, [op[p] EXCEPT !.step = "create"])
    /\ UNCHANGED <<quizVars, begun>>

\* Score and pass flag of an attempt with the given items.
Graded(x, earned, mark) ==
    [who |-> x, earned |-> earned, score |-> Cardinality(earned),
     passed |-> Cardinality(earned) >= mark]

CreateAttempt(p) ==
    /\ op[p].step = "create"
    /\ \E a \in Attempts \ Filed, earned \in SUBSET Items :
         attempt' = [attempt EXCEPT ![a] =
             [filed |-> TRUE, row |-> Graded(op[p].who, earned, op[p].mark)]]
    /\ Become(p, Idle)
    /\ UNCHANGED <<quiz, begun>>

-----------------------------------------------------------------------------
(* Manual grading: "yes" and "no" are the items a grader gives a point to  *)
(* or takes it from.                                                       *)

FindAttempt(p) ==
    /\ Begin(p, "grade")
    /\ \E a \in Filed, yes, no \in SUBSET ShortText :
         /\ yes \cap no = {} /\ yes \cup no # {}
         /\ Become(p, [step |-> "mark", id |-> a, was |-> attempt[a].row, yes |-> yes, no |-> no])
    /\ UNCHANGED quizVars

FindMark(p) ==
    /\ op[p].step = "mark"
    /\ quiz.live
    /\ LET q == op[p] IN
         Become(p, [step |-> "grade", id |-> q.id, was |-> q.was, yes |-> q.yes, no |-> q.no,
                    mark |-> quiz.mark])
    /\ UNCHANGED <<quizVars, begun>>

\* recalcAttempt over the answers as they were read, with the passing score of
\* the quiz of today.
Regraded(row, q) == Graded(q.was.who, (q.was.earned \ q.no) \cup q.yes, q.mark)

UpdateAttemptGrade(p) ==
    /\ op[p].step = "grade"
    /\ attempt' = [attempt EXCEPT ![op[p].id].row = Regraded(@, op[p])]
    /\ Become(p, Idle)
    /\ UNCHANGED <<quiz, begun>>

QuizStep(p) ==
    \/ UpdateAssessment(p)
    \/ ArchiveAssessment(p)
    \/ FindAssessment(p)
    \/ CountAttempts(p)
    \/ CreateAttempt(p)
    \/ FindAttempt(p)
    \/ FindMark(p)
    \/ UpdateAttemptGrade(p)

-----------------------------------------------------------------------------
(* Properties.                                                             *)

\* As long as the quiz has always had a limit, a learner's attempts exceed some
\* limit it has had by fewer than the requests handled together: the check and
\* the INSERT are two statements, and an edit may change the limit before,
\* between and after them, without regard to the attempts there are
\* (submitAttempt, updateAssessment).
AttemptsBounded ==
    0 \notin quiz.limits =>
        \A x \in Learners : \E n \in quiz.limits :
            Cardinality(Used(x)) < n + Cardinality(Operators)

\* "reject submissions beyond that count". Not so: two requests that are counted
\* together both insert, and a limit that is lowered finds more attempts.
AttemptsLimited ==
    quiz.limit > 0 => \A x \in Learners : Cardinality(Used(x)) <= quiz.limit

\* A point that one grader gave is taken away only by a grader who saw it.
NoMarkLost ==
    [][\A p \in Operators :
         UpdateAttemptGrade(p) =>
           attempt[op[p].id].row.earned \ attempt'[op[p].id].row.earned \subseteq op[p].no]_<<quizVars, op>>

\* "attempt scores frozen at submit (immutable except" by a manual grade of its
\* own items: the pass flag does not change unless the score does.
PassedBySameMark ==
    [][\A a \in Filed :
         attempt'[a].row.score = attempt[a].row.score =>
           attempt'[a].row.passed = attempt[a].row.passed]_<<quizVars, op>>
=============================================================================
