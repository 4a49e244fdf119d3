--------------------------- MODULE MCArtifactStore ---------------------------
(* Two uploads of one or two bytes in a store of three, under an upload limit *)
(* of two, and two jobs in a scratch directory of three: a second artifact or *)
(* a second job may or may not have room.                                     *)
EXTENDS ArtifactStore, TLC

\* Uploads and calls are interchangeable, and only invariants are checked.
Symmetric == Permutations(Uploads) \cup Permutations(Calls)

==============================================================================
