------------------------------ MODULE MCQueue ------------------------------
(***************************************************************************)
(* LiveQueue for TLC: items and agents are interchangeable.                *)
(***************************************************************************)
EXTENDS LiveQueue, TLC

Symmetry == Permutations(Items) \cup Permutations(Agents)
=============================================================================
