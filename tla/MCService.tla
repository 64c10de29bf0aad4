----------------------------- MODULE MCService -----------------------------
(***************************************************************************)
(* Service for TLC: two dispatches with one prompt and different reviews,  *)
(* two readiness checks of one candidate with different reviews, or two    *)
(* briefs with different bytes.                                            *)
(***************************************************************************)
EXTENDS Service, TLC

CONSTANTS c1, c2, n1, n2, n3, b1, b2

Publication(kind, name, bytes) ==
  [kind |-> kind, name |-> name, bytes |-> bytes, other |-> n3]

Dispatch(bytes) == <<Publication("review", n1, bytes), Publication("prompt", n2, b1)>>
Readiness(bytes) == <<Publication("readiness", n2, b1), Publication("readiness", n1, bytes)>>
Brief(bytes) == <<Publication("brief", n1, bytes)>>

MCRequests ==
  {c1 :> Dispatch(b1) @@ c2 :> Dispatch(b2),
   c1 :> Readiness(b1) @@ c2 :> Readiness(b2),
   c1 :> Brief(b1) @@ c2 :> Brief(b2)}
=============================================================================
