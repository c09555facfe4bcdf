------------------------- MODULE MCOperationReceipts -------------------------
(***************************************************************************)
(* OperationReceipts for TLC: calls and fingerprints are interchangeable   *)
(* model values.                                                           *)
(***************************************************************************)
EXTENDS OperationReceipts, TLC

Symmetry == Permutations(Calls) \cup Permutations(Prints)
=============================================================================
