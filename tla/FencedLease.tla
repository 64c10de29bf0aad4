---------------------------- MODULE FencedLease -----------------------------
(***************************************************************************)
(* What the board promises about the authority over one subject: at any    *)
(* time one grant at most is in force, every grant carries a generation    *)
(* larger than any before it, and a grant that ended never acts again.     *)
(***************************************************************************)
EXTENDS Naturals

CONSTANTS Tasks, NoTask

VARIABLES clock,       \* real time, as the board samples it under its lock
          high,        \* the largest generation ever allocated
          holder,      \* the task of the grant in force, NoTask when none is
          deadline     \* when the grant in force lapses

vars == <<clock, high, holder, deadline>>

Init == clock = 0 /\ high = 0 /\ holder = NoTask /\ deadline = 0

Tick == clock' = clock + 1 /\ UNCHANGED <<high, holder, deadline>>

Lapsed == holder = NoTask \/ deadline <= clock

\* A new grant waits for the previous one to end or to lapse.
Grant(task) ==
  /\ Lapsed
  /\ holder' = task
  /\ high' = high + 1
  /\ deadline' \in Nat
  /\ UNCHANGED clock

\* The holder keeps its generation; only the deadline moves, and only forward.
Extend ==
  /\ holder # NoTask
  /\ deadline' \in Nat /\ deadline' > deadline
  /\ UNCHANGED <<clock, high, holder>>

\* Ending allocates a generation, so every copy of the old token is stale.
End ==
  /\ high > 0
  /\ holder' = NoTask /\ deadline' = 0
  /\ high' = high + 1
  /\ UNCHANGED clock

Next == Tick \/ (\E task \in Tasks: Grant(task)) \/ Extend \/ End

Spec == Init /\ [][Next]_vars
=============================================================================
