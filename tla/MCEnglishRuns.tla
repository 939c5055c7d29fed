--------------------------- MODULE MCEnglishRuns ---------------------------
(* Instances of EnglishRuns small enough for TLC.                          *)
EXTENDS EnglishRuns, TLC

CONSTANTS r1, r2, r3, c1, c2

\* Two classes with one run each.
OneRunEach == [r \in Runs |-> IF r = r1 THEN c1 ELSE c2]

\* Class c1 has a second run.
SecondRun == [r \in Runs |-> IF r = r3 THEN c2 ELSE c1]

OneSeat == [c \in Cohorts |-> 1]

Everything == {"join", "leave", "transfer", "create", "move", "cancel", "save", "exam"}
ExamKinds == {"join", "create", "save", "exam"}
LearnerKinds == {"join", "leave", "transfer"}

\* The two runs of class c1 can be exchanged too.
Symmetry ==
    Permutations(Employees) \cup Permutations(Operators) \cup Permutations(Meetings)
        \cup Permutations({r1, r2})
=============================================================================
