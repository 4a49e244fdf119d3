----------------------------- MODULE MCWebSession -----------------------------
(* Two artifacts, two handlers at once, five clicks: enough for an upload, its *)
(* allocation and save, a second upload that overlaps, fails or succeeds, and *)
(* a save or a grade that meets it.                                           *)
EXTENDS WebSession, TLC

\* The checks of the problem are interchangeable, and only invariants are checked.
Symmetric == Permutations(Checks)

==============================================================================
