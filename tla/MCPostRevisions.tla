--------------------------- MODULE MCPostRevisions ---------------------------
(***************************************************************************)
(* PostRevisions for TLC: the two edits are alike.                         *)
(***************************************************************************)
EXTENDS PostRevisions, TLC

Symmetry == Permutations(Editors) \cup Permutations(Texts)
=============================================================================
