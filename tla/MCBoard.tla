------------------------------ MODULE MCBoard -------------------------------
(***************************************************************************)
(* Board for TLC: agents, candidates and checkpoints are interchangeable.  *)
(***************************************************************************)
EXTENDS Board, TLC

Symmetry == Permutations(Items) \cup Permutations(Tasks)
            \cup Permutations(Candidates) \cup Permutations(Checkpoints)
=============================================================================
