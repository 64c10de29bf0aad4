------------------------------ MODULE MCIntake ------------------------------
(***************************************************************************)
(* Proposals, consolidation and the roadmap for TLC, from an empty ledger. *)
(***************************************************************************)
EXTENDS Roadmap, TLC

Symmetry == Permutations(Items) \cup Permutations(Tasks) \cup Permutations(Checkpoints)
=============================================================================
