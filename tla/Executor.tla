------------------------------ MODULE Executor ------------------------------
(***************************************************************************)
(* The bounded executor of the MCP service (mcp/execution.py).  A call is  *)
(* a coroutine of the event loop that waits for a future; its callback     *)
(* runs on a thread of the pool.  A semaphore bounds the unfinished        *)
(* callbacks, and cancelling a call stops its callback only while it is    *)
(* queued.                                                                 *)
(***************************************************************************)
EXTENDS Naturals, Sequences, FiniteSets

CONSTANTS Calls,
          Workers, \* threads of the pool
          Limit    \* unfinished_limit

ASSUME ExecutorAssumption ==
  /\ IsFiniteSet(Calls)
  /\ Workers \in Nat \ {0} /\ Limit \in Nat /\ Workers <= Limit

VARIABLES
  service,   \* the service process
  admission, \* free slots of the semaphore
  queue,     \* work queue of the pool
  future,    \* the future of each admitted call
  token,     \* calls whose cancellation token is set
  client     \* the coroutine of each call

executor == <<service, admission, queue, future, token, client>>

Unfinished == {c \in Calls : future[c] \in {"pending", "running"}}
Awaiting == {c \in Calls : client[c] \in {"waiting", "insisting"}}

ExecutorTypeOK ==
  /\ service \in {"up", "closing", "down"}
  /\ admission \in 0..Limit
  /\ queue \in Seq(Calls)
  /\ future \in [Calls -> {"none", "pending", "running", "done", "cancelled", "lost"}]
  /\ token \subseteq Calls
  /\ client \in [Calls -> {"new", "busy", "waiting", "insisting", "answered",
                           "cancelled", "abandoned", "lost"}]

ExecutorInit ==
  /\ service = "up"
  /\ admission = Limit
  /\ queue = <<>>
  /\ future = [c \in Calls |-> "none"]
  /\ token = {}
  /\ client = [c \in Calls |-> "new"]

\* BoundedExecutor.submit, and the answer of _run_request when it is full.
Submit(c) ==
  /\ service = "up" /\ client[c] = "new"
  /\ IF admission = 0
     THEN /\ client' = [client EXCEPT ![c] = "busy"]
          /\ UNCHANGED <<admission, queue, future>>
     ELSE /\ client' = [client EXCEPT ![c] = "waiting"]
          /\ admission' = admission - 1
          /\ queue' = Append(queue, c)
          /\ future' = [future EXCEPT ![c] = "pending"]
  /\ UNCHANGED <<service, token>>

\* Mutant: the thread does not look whether the future was cancelled.
TakeCancelled ==
  /\ queue # <<>>
  /\ Cardinality({c \in Calls : future[c] = "running"}) < Workers
  /\ queue' = Tail(queue)
  /\ future' = [future EXCEPT ![Head(queue)] = "running"]
  /\ UNCHANGED <<service, admission, token, client>>

\* A free thread takes the oldest entry and drops it if it was cancelled.
Take ==
  /\ queue # <<>>
  /\ Cardinality({c \in Calls : future[c] = "running"}) < Workers
  /\ queue' = Tail(queue)
  /\ future' = [future EXCEPT ![Head(queue)] = IF @ = "pending" THEN "running" ELSE @]
  /\ UNCHANGED <<service, admission, token, client>>

\* Mutant: a slot is given back by the thread only.
CancelWithoutRelease(c) ==
  /\ client[c] = "waiting"
  /\ token' = token \cup {c}
  /\ IF future[c] = "pending"
     THEN /\ future' = [future EXCEPT ![c] = "cancelled"]
          /\ client' = [client EXCEPT ![c] = "cancelled"]
     ELSE /\ client' = [client EXCEPT ![c] = "insisting"]
          /\ UNCHANGED future
  /\ UNCHANGED <<service, admission, queue>>

\* Execution.result, cancelled at its first await: a queued future is cancelled
\* and its done-callback gives the slot back, a started one is awaited again.
Cancel(c) ==
  /\ client[c] = "waiting"
  /\ token' = token \cup {c}
  /\ IF future[c] = "pending"
     THEN /\ future' = [future EXCEPT ![c] = "cancelled"]
          /\ admission' = admission + 1
          /\ client' = [client EXCEPT ![c] = "cancelled"]
     ELSE /\ client' = [client EXCEPT ![c] = "insisting"]
          /\ UNCHANGED <<admission, future>>
  /\ UNCHANGED <<service, queue>>

\* Execution.result, cancelled at its second await: nobody waits any more.
CancelAgain(c) ==
  /\ client[c] = "insisting"
  /\ client' = [client EXCEPT ![c] = "abandoned"]
  /\ UNCHANGED <<service, admission, queue, future, token>>

\* The callback has returned: its thread sets the result and runs the
\* done-callback, which gives the slot back.
Return(c) ==
  /\ future[c] = "running"
  /\ future' = [future EXCEPT ![c] = "done"]
  /\ admission' = admission + 1
  /\ UNCHANGED <<service, queue, token, client>>

Deliver(c) ==
  /\ c \in Awaiting /\ future[c] = "done"
  /\ client' = [client EXCEPT ![c] = "answered"]
  /\ UNCHANGED <<service, admission, queue, future, token>>

\* The event loop has ended, so no coroutine is left; the threads are joined.
Shutdown ==
  /\ service = "up" /\ Awaiting = {}
  /\ service' = "closing"
  /\ queue' = <<>>
  /\ future' = [c \in Calls |-> IF future[c] = "pending" THEN "cancelled" ELSE future[c]]
  /\ admission' = admission + Cardinality({c \in Calls : future[c] = "pending"})
  /\ UNCHANGED <<token, client>>

Exit ==
  /\ service = "closing" /\ Unfinished = {}
  /\ service' = "down"
  /\ UNCHANGED <<admission, queue, future, token, client>>

Restart ==
  /\ service = "down"
  /\ service' = "up"
  /\ admission' = Limit
  /\ queue' = <<>>
  /\ UNCHANGED <<future, token, client>>

\* The service process dies with everything it was doing.
ExecutorLost ==
  /\ service' = "down"
  /\ admission' = Limit
  /\ queue' = <<>>
  /\ future' = [c \in Calls |-> IF c \in Unfinished THEN "lost" ELSE future[c]]
  /\ client' = [c \in Calls |-> IF c \in Awaiting THEN "lost" ELSE client[c]]
  /\ UNCHANGED token
-----------------------------------------------------------------------------
\* Every slot that is taken belongs to a callback that has not finished, however
\* calls are cancelled, queued or left (mcp/execution.py:511): cancelled calls
\* neither keep a slot for ever nor return it twice.
SlotsAreExact == admission + Cardinality(Unfinished) = Limit
=============================================================================
