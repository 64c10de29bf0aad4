------------------------------ MODULE Service ------------------------------
(***************************************************************************)
(* Publications through the MCP service: a brief (mutation_operations.py), *)
(* or a dispatch, which publishes a review and then a prompt, or a proof   *)
(* and then a review (job_operations.py, dispatch_operations.py).  The     *)
(* executor runs the callback; each publication links an immutable file    *)
(* and accepts its reference in one transaction; a dispatch rechecks its   *)
(* authority after each of them; a change of the ledger refreshes the      *)
(* board.  Several calls run at once, may be cancelled at any time, and    *)
(* any of their file or database operations may fail; the service may die  *)
(* and the machine may lose power, which is the only thing that undoes a   *)
(* completed file operation.                                               *)
(***************************************************************************)
EXTENDS Executor, ArtifactFiles, BoardView

CONSTANTS Requests,  \* what the calls may ask to publish
          MaxFaults  \* bound on failures, deaths and power losses

Kinds == {"brief", "prompt", "review", "readiness", "collision"}
Publications ==
  [kind : Kinds, name : Names, bytes : Contents,
   other : Names] \* where a review that collides with an accepted one is kept

ASSUME ServiceAssumption ==
  /\ Requests \subseteq [Calls -> Seq(Publications) \ {<<>>}]
  /\ NoWriter \notin Calls
  /\ MaxFaults \in Nat

VARIABLES
  todo,     \* what each call has yet to publish; its head is being published
  step,     \* where the callback of each call is
  created,  \* calls whose present publication has linked a new file
  surfaces, \* the changes each call has collected for its result
  did,      \* the changes it has made
  said,     \* the result it will return
  losses,   \* power losses
  faults    \* all failures, losses included

callback == <<todo, step, created, surfaces, did, said>>
counters == <<losses, faults>>
vars == <<executor, artifacts, view, callback, counters>>

Refreshing == {"locking", "composing", "replacing", "settling"}

Init ==
  /\ ExecutorInit /\ FilesInit /\ ViewInit(Calls)
  /\ todo \in Requests
  /\ step = [c \in Calls |-> "none"]
  /\ created = {}
  /\ surfaces = [c \in Calls |-> {}]
  /\ did = [c \in Calls |-> {}]
  /\ said = [c \in Calls |-> "nothing yet"]
  /\ losses = 0 /\ faults = 0

Goto(c, target) == step' = [step EXCEPT ![c] = target]
Say(c, result) == said' = [said EXCEPT ![c] = result]
Did(c, what) == did' = [did EXCEPT ![c] = @ \cup what]
Report(c, what) == surfaces' = [surfaces EXCEPT ![c] = @ \cup what]

Created(c) == IF c \in created THEN {"immutable_artifact"} ELSE {}

\* A publication starts at the lookup of an accepted review or at the link.
First(publication) ==
  IF publication.kind \in {"review", "readiness"} THEN "selecting" ELSE "linking"

\* A result is followed by a refresh when its surfaces name the ledger.
Final(changes) == IF "ledger" \in changes THEN "locking" ELSE "returning"
-----------------------------------------------------------------------------
\* A thread that takes a running future calls the callback.
StartCallback ==
  /\ Take
  /\ step' = [c \in Calls |-> IF future'[c] = "running" /\ future[c] # "running"
                              THEN "checkpoint" ELSE step[c]]
  /\ UNCHANGED <<artifacts, view, todo, created, surfaces, did, said, counters>>

\* The last token.checkpoint() before the effects.
Checkpoint(c) ==
  /\ step[c] = "checkpoint"
  /\ IF c \in token
     THEN Goto(c, "returning") /\ Say(c, "cancelled")
     ELSE Goto(c, First(Head(todo[c]))) /\ UNCHANGED said
  /\ UNCHANGED <<executor, artifacts, view, todo, created, surfaces, did, counters>>

\* publish_dispatch_review: an accepted review with the same bytes is used as it
\* is; one with other bytes stays, and the supplied review is kept beside it.
Select(c) ==
  LET p == Head(todo[c])
  IN /\ step[c] = "selecting"
     /\ CASE reference[p.name] = NoFile -> Goto(c, "linking") /\ UNCHANGED todo
          [] reference[p.name] = p.bytes -> Goto(c, "rechecking") /\ UNCHANGED todo
          [] OTHER ->
               /\ todo' = [todo EXCEPT ![c] =
                    <<[kind |-> "collision", name |-> p.other, bytes |-> p.bytes,
                       other |-> p.other]>>]
               /\ Goto(c, "linking")
     /\ UNCHANGED <<executor, artifacts, view, created, surfaces, did, said, counters>>

\* create_immutable: link the synchronized staging file; a file that is there
\* already must have the same bytes.
Link(c) ==
  LET p == Head(todo[c])
  IN /\ step[c] = "linking"
     /\ IF CanLink(p.name)
        THEN /\ LinkFile(p.name, p.bytes)
             /\ created' = created \cup {c}
             /\ Did(c, {"immutable_artifact"})
             /\ Goto(c, "syncing")
             /\ UNCHANGED said
        ELSE /\ Goto(c, "cleaning")
             /\ IF Published(p.name, p.bytes) THEN UNCHANGED said ELSE Say(c, "error")
             /\ UNCHANGED <<artifacts, created, did>>
     /\ UNCHANGED <<executor, view, todo, surfaces, counters>>

SyncLink(c) ==
  /\ step[c] = "syncing"
  /\ SyncFile(Head(todo[c]).name)
  /\ Goto(c, "cleaning")
  /\ UNCHANGED <<executor, view, todo, created, surfaces, did, said, counters>>

\* A publication that has failed ends the call once it has cleaned up.
Cleanup(c, synced) ==
  /\ step[c] = "cleaning"
  /\ CleanStaging(Head(todo[c]).name, synced)
  /\ Goto(c, CASE said[c] = "nothing yet" -> "accepting"
                [] said[c] = "result" -> Final(surfaces[c])
                [] said[c] = "error" -> "returning")
  /\ UNCHANGED <<executor, view, todo, created, surfaces, did, said>>

\* What follows an accepted reference: a dispatch rechecks, everything else is a
\* result, and the board is refreshed after a brief in any case.
Accepted(c) ==
  CASE Head(todo[c]).kind = "brief" -> Say(c, "result") /\ Goto(c, "locking")
    [] Head(todo[c]).kind = "collision" -> Say(c, "result") /\ Goto(c, Final(surfaces'[c]))
    [] OTHER -> Goto(c, "rechecking") /\ UNCHANGED said

\* Mutant: a cancelled call stops once it has committed.
AcceptThenStop(c) ==
  LET p == Head(todo[c])
      changes == IF reference[p.name] = NoFile THEN {"ledger"} ELSE {}
  IN /\ step[c] = "accepting"
     /\ IF Acceptable(p.name, p.bytes)
        THEN /\ Accept(p.name, p.bytes)
             /\ Did(c, changes)
             /\ Report(c, changes \cup Created(c))
             /\ created' = created \ {c}
             /\ IF c \in token THEN Say(c, "result") /\ Goto(c, "returning") ELSE Accepted(c)
        ELSE /\ Goto(c, "returning") /\ Say(c, "error")
             /\ UNCHANGED <<artifacts, created, surfaces, did>>
     /\ UNCHANGED <<executor, view, todo, counters>>

\* publish_accepted_artifact; an identity that names other bytes is an error.
AcceptReference(c) ==
  LET p == Head(todo[c])
      changes == IF reference[p.name] = NoFile THEN {"ledger"} ELSE {}
  IN /\ step[c] = "accepting"
     /\ IF Acceptable(p.name, p.bytes)
        THEN /\ Accept(p.name, p.bytes)
             /\ Did(c, changes)
             /\ Report(c, changes \cup Created(c))
             /\ created' = created \ {c}
             /\ Accepted(c)
        ELSE /\ Goto(c, "returning") /\ Say(c, "error")
             /\ UNCHANGED <<artifacts, created, surfaces, did>>
     /\ UNCHANGED <<executor, view, todo, counters>>

\* The action, the correction round and the reviewed sources may have changed
\* meanwhile: a dispatch goes on to its next publication only if they have not,
\* and reports what it has published if they have.
Recheck(c) ==
  /\ step[c] = "rechecking"
  /\ \E holds \in BOOLEAN :
       IF holds /\ Len(todo[c]) > 1
       THEN /\ todo' = [todo EXCEPT ![c] = Tail(@)]
            /\ Goto(c, First(todo[c][2]))
            /\ UNCHANGED said
       ELSE /\ Say(c, "result")
            /\ Goto(c, Final(surfaces[c]))
            /\ UNCHANGED todo
  /\ UNCHANGED <<executor, artifacts, view, created, surfaces, did, counters>>
-----------------------------------------------------------------------------
\* refresh_facts: the board is composed and replaced under its lock.
Lock(c) ==
  /\ step[c] = "locking"
  /\ LockBoard(c)
  /\ Goto(c, "composing")
  /\ UNCHANGED <<executor, artifacts, todo, created, surfaces, did, said, counters>>

Compose(c) ==
  /\ step[c] = "composing"
  /\ ComposeBoard(c, revision)
  /\ Goto(c, "replacing")
  /\ UNCHANGED <<executor, artifacts, todo, created, surfaces, did, said, counters>>

\* atomic_replace leaves a file that holds the same bytes alone.
Replace(c) ==
  /\ step[c] = "replacing"
  /\ IF board = composed[c]
     THEN UnlockBoard(c) /\ Goto(c, "returning")
     ELSE ReplaceBoard(c) /\ Goto(c, "settling")
  /\ UNCHANGED <<executor, artifacts, todo, created, surfaces, did, said, counters>>

Settle(c) ==
  /\ step[c] = "settling"
  /\ SyncAndUnlockBoard(c)
  /\ Goto(c, "returning")
  /\ UNCHANGED <<executor, artifacts, todo, created, surfaces, did, said, counters>>

EndCallback(c) ==
  /\ step[c] = "returning"
  /\ Return(c)
  /\ Goto(c, "none")
  /\ UNCHANGED <<artifacts, view, todo, created, surfaces, did, said, counters>>
-----------------------------------------------------------------------------
\* Mutant: a later failure reports its own changes only.
FailUnreported(c) ==
  /\ step[c] \in {"linking", "syncing", "accepting"}
  /\ Goto(c, IF step[c] = "accepting" THEN Final(surfaces[c] \cup Created(c)) ELSE "cleaning")
  /\ Say(c, IF step[c] = "linking" /\ surfaces[c] = {} THEN "error" ELSE "result")
  /\ surfaces' = [surfaces EXCEPT ![c] = Created(c)]
  /\ UNCHANGED view

\* A publication fails: before its link with an exception, which becomes a result
\* when an earlier publication has changed something; after it with a result.
\* Both name what was changed earlier together with the file that stays.
FailPublication(c) ==
  /\ step[c] \in {"linking", "syncing", "accepting"}
  /\ Goto(c, IF step[c] = "accepting" THEN Final(surfaces[c] \cup Created(c)) ELSE "cleaning")
  /\ Say(c, IF step[c] = "linking" /\ surfaces[c] = {} THEN "error" ELSE "result")
  /\ Report(c, Created(c))
  /\ UNCHANGED view

\* A read before or after a publication fails.  Readiness turns the exception into
\* a result; a dispatch does so for its authority only, not for its history.
FailRead(c) ==
  /\ step[c] \in {"selecting", "rechecking"}
  /\ \E caught \in BOOLEAN :
       /\ Head(todo[c]).kind = "readiness" => caught
       /\ step[c] = "selecting" /\ Head(todo[c]).kind = "review" => ~caught
       /\ IF caught /\ surfaces[c] # {}
          THEN Say(c, "result") /\ Goto(c, Final(surfaces[c]))
          ELSE Say(c, "error") /\ Goto(c, "returning")
  /\ UNCHANGED <<view, surfaces>>

\* Mutant: an error during the refresh leaves the board locked.
FailRefreshLocked(c) ==
  /\ step[c] \in Refreshing
  /\ Goto(c, "returning")
  /\ UNCHANGED <<view, surfaces, said>>

FailRefresh(c) ==
  /\ step[c] \in Refreshing
  /\ UnlockBoard(c)
  /\ Goto(c, "returning")
  /\ UNCHANGED <<surfaces, said>>

Faulty(kind) ==
  /\ faults < MaxFaults
  /\ faults' = faults + 1
  /\ losses' = losses + kind

Fail(c) ==
  /\ Faulty(0)
  /\ FailPublication(c) \/ FailRead(c) \/ FailRefresh(c)
  /\ UNCHANGED <<executor, artifacts, todo, created, did>>

\* The process dies: its file descriptors are closed, its files stay.
Die ==
  /\ Faulty(0)
  /\ service # "down"
  /\ ExecutorLost /\ LocksLost
  /\ step' = [c \in Calls |-> "none"]
  /\ UNCHANGED <<board, boardOnDisk, artifacts, todo, created, surfaces, did, said>>

PowerLoss ==
  /\ Faulty(1)
  /\ ExecutorLost /\ BoardLost /\ FilesLost
  /\ step' = [c \in Calls |-> "none"]
  /\ UNCHANGED <<todo, created, surfaces, did, said>>
-----------------------------------------------------------------------------
Elsewhere == UNCHANGED <<artifacts, view, callback, counters>>

Callback(c) ==
  \/ Checkpoint(c) \/ Select(c) \/ Link(c) \/ SyncLink(c)
  \/ Cleanup(c, TRUE) /\ UNCHANGED counters
  \/ AcceptReference(c) \/ Recheck(c)
  \/ Lock(c) \/ Compose(c) \/ Replace(c) \/ Settle(c)
  \/ EndCallback(c)

Next ==
  \/ StartCallback
  \/ \E c \in Calls :
       \/ Elsewhere /\ (Submit(c) \/ Cancel(c) \/ CancelAgain(c) \/ Deliver(c))
       \/ Callback(c)
       \/ Fail(c)
       \/ Cleanup(c, FALSE) /\ Faulty(0)
  \/ Elsewhere /\ (Shutdown \/ Exit \/ Restart)
  \/ Die
  \/ PowerLoss

\* Threads run and the event loop delivers what is finished; nothing is promised
\* about callers.
Fairness ==
  /\ WF_vars(StartCallback)
  /\ WF_vars(Elsewhere /\ Exit)
  /\ \A c \in Calls : /\ WF_vars(Callback(c))
                      /\ WF_vars(Elsewhere /\ Deliver(c))

Spec == Init /\ [][Next]_vars /\ Fairness
-----------------------------------------------------------------------------
\* A result names exactly what its call has changed, also when a later one of its
\* publications failed or was refused, or the call was cancelled meanwhile
\* (artifact_publication.py:100, dispatch_operations.py:292).  An exception makes
\* no such claim.
AnswersAreTrue ==
  \A c \in Calls :
    client[c] = "answered" =>
      /\ said[c] = "result" => surfaces[c] = did[c]
      /\ said[c] = "cancelled" => did[c] = {}

\* A call that was cancelled once and whose caller saw CancelledError has changed
\* nothing and never will: it was queued, and its callback never runs
\* (mcp/execution.py:498).
CancelledDidNothing ==
  \A c \in Calls :
    client[c] = "cancelled" => did[c] = {} /\ future[c] # "running"

\* Whoever refreshes the board replaces it by a revision that is not older, so a
\* slow refresh never hides a later commit (views.py:1474).
BoardNeverGoesBack == [][losses' = losses => board' >= board]_vars

\* A commit is shown on the board in the end, unless something failed: also when
\* the caller cancelled, gave up or shut the service down.
CommitsAreShown ==
  \A n \in 1..Cardinality(Names) :
    revision >= n ~> board >= n \/ faults > 0

\* Every admitted call ends and gives its slot back, and a shutdown finishes,
\* whatever was cancelled and whatever fails on the way (mcp/execution.py:511).
CallsEnd ==
  /\ \A c \in Calls : client[c] = "waiting" ~> c \notin Awaiting \cup Unfinished
  /\ service = "closing" ~> service # "closing"
=============================================================================
