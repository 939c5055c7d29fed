-------------------------- MODULE MCEnglishArchive --------------------------
(* Instances of EnglishArchive small enough for TLC.                       *)
EXTENDS EnglishArchive, TLC

\* Sessions 1 and 2 are a run of class A, 3 is class B, 4 class C.
ThreeClasses == <<"A", "A", "B", "C">>
ThreeRuns    == <<"a", "a", "b", "c">>
Numbers      == <<1, 2, 1, 1>>

NineAndOne == <<9, 13>>

Thursday == 11 * 24
Friday   == 12 * 24

\* Books that give the run and class B a time on Thursday or Friday, on a slot
\* or after the last; and books that crowd Friday with three classes.
SomeBooks == [{1, 2, 3} -> {Thursday + 9, Thursday + 16, Friday + 9}]
             \cup [{1, 3, 4} -> {Friday + 9, Friday + 16}]

\* Between the times of Thursday and after all times.
TwoClocks == {Thursday + 12, Friday + 24}

LastAttended == {3}
=============================================================================
