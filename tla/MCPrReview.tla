----------------------------- MODULE MCPrReview -----------------------------
(***************************************************************************)
(* PrReview for TLC: agents, heads and findings are interchangeable.       *)
(***************************************************************************)
EXTENDS PrReview, TLC

Symmetry == Permutations(Tasks) \cup Permutations(Heads) \cup Permutations(Findings)
=============================================================================
