------------------------------- MODULE Leases -------------------------------
(***************************************************************************)
(* The two authority tables of the board, attempt_leases and               *)
(* preparation_leases, hold rows of one shape.  A row is rewritten in      *)
(* place; its generation is the high-water mark of the counter table       *)
(* beside it, so a generation that was handed out never comes back.        *)
(* These operators are the decisions of domain/authority_decisions.py.     *)
(***************************************************************************)
EXTENDS Naturals

CONSTANTS Tasks,   \* the agent tasks that may hold a lease
          NoTask   \* the holder of a row that was never written

ASSUME TasksAssumption == NoTask \notin Tasks

Status == {"none", "active", "released", "revoked"}

Lease == [status: Status, holder: Tasks \cup {NoTask}, generation: Nat, expires: Nat]

\* The row before the first grant: no row and a counter that reads 0.
NoLease == [status |-> "none", holder |-> NoTask, generation |-> 0, expires |-> 0]

Recorded(lease) == lease.status # "none"

\* An active row stays in the table when it expires: expiry is only ever read.
Live(lease, t) == lease.status = "active" /\ lease.expires > t

\* The exact token: whoever presents it names the holder, generation and expiry.
SameToken(lease, token) ==
  /\ lease.holder = token.holder
  /\ lease.generation = token.generation
  /\ lease.expires = token.expires

\* Renewal and release ask for the exact token of a lease live at the request's time.
HolderMay(lease, token, t) == Live(lease, t) /\ SameToken(lease, token)

\* Revocation names holder and generation only, whatever the status.
RevokerMay(lease, token) ==
  /\ Recorded(lease)
  /\ lease.holder = token.holder
  /\ lease.generation = token.generation

Granted(lease, task, until) ==
  [lease EXCEPT !.status = "active", !.holder = task,
                !.generation = @ + 1, !.expires = until]

Renewed(lease, until) == [lease EXCEPT !.expires = until]

\* Mutant: the row ends without a new generation.
EndedInPlace(lease, status, t) == [lease EXCEPT !.status = status, !.expires = t]

\* Release, revocation, fencing and consumption all allocate one more generation.
Ended(lease, status, t) ==
  [lease EXCEPT !.status = status, !.generation = @ + 1, !.expires = t]
=============================================================================
