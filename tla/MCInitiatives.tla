--------------------------- MODULE MCInitiatives ----------------------------
(***************************************************************************)
(* Initiatives for TLC.                                                    *)
(***************************************************************************)
EXTENDS Initiatives, TLC

Symmetry == Permutations(Initiatives) \cup Permutations(Items) \cup Permutations(Goals)
=============================================================================
