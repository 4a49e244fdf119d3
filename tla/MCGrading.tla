------------------------------- MODULE MCGrading -------------------------------
(* Two checks in one problem or in two, with every allocation, selection and   *)
(* outcome of the extraction.  Of three values two look like paths.  One point *)
(* of 32 is 3.125 %, halfway between two hundredths, and 32 points are the     *)
(* most there may be.                                                          *)
EXTENDS Grading, TLC

CONSTANTS i1, i2, k1, k2

MCSelections == {<<>>, <<i1>>, <<i1, i2>>, <<i1, i1>>, <<"unknown">>}

\* The checks are interchangeable, and only invariants are checked.
Symmetric == Permutations(Checks)

==============================================================================
