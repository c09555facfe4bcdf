---------------------------- MODULE MCManifestSlot ----------------------------
(***************************************************************************)
(* ManifestSlot for TLC: two candidates of one plan item, and one of the   *)
(* source that displaces it.                                               *)
(***************************************************************************)
EXTENDS ManifestSlot, TLC

CONSTANTS planned, other, replacement

MCSources == {planned, other}
MCSourceOf == [o \in Operations |-> IF o = replacement THEN other ELSE planned]

Symmetry == Permutations(Operations \ {replacement}) \cup Permutations(Calls)
=============================================================================
