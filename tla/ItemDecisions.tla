--------------------------- MODULE ItemDecisions ----------------------------
(***************************************************************************)
(* The project's decisions about an item itself: its queue state while it  *)
(* is not started, its definition and prerequisites, the item planned to   *)
(* replace it, and the ways it ends without a review.                      *)
(***************************************************************************)
EXTENDS BoardState

\* A project decision that moves a never started item to another state.
MoveUnstarted(r, kind, from, to) ==
  LET i == r.subject IN
  /\ Selected(r, kind) /\ ItemUnchanged(r)
  /\ ~ HasAttempt(i)
  /\ item[i].state \in from
  /\ SetItemState(i, to)
  /\ Commit(r.at)
  /\ UNCHANGED <<definition, attempt, attemptLease, preparationLease, replacement, accepted>>

ResumeItem(r) ==
  /\ MoveUnstarted(r, "resume", {"paused", "blocked"}, "ready")
  /\ DependenciesSatisfied(r.subject) /\ ~ UnresolvedReplacement(r.subject)

BlockItem(r) == MoveUnstarted(r, "block-item", {"ready"}, "blocked")
Defer(r) == MoveUnstarted(r, "defer", {"ready", "blocked"}, "deferred")
Reopen(r) == MoveUnstarted(r, "reopen", {"deferred"}, "ready")

\* Closing without a review is for work that was never started.
CloseDone(r) ==
  /\ MoveUnstarted(r, "close", {"ready", "paused", "blocked", "deferred"}, "done")
  /\ ~ UnresolvedReplacement(r.subject)

\* The planned replacement takes over; a parked attempt ends with its item.
CloseSuperseded(r) ==
  LET i == r.subject IN
  /\ Selected(r, "close") /\ ItemUnchanged(r)
  /\ item[i].state \in {"ready", "paused", "blocked", "deferred"}
  /\ UnresolvedReplacement(i)
  /\ item[replacement[i].by].state # "dropped"
  /\ LiveDependents(i) = {}
  /\ SetItemState(i, "superseded")
  /\ IF HasAttempt(i)
     THEN /\ attempt[i].state \in {"paused", "blocked"}
          /\ SetAttemptState(i, "done") /\ FenceRetainedAttempt(i, r.at)
     ELSE UNCHANGED <<attempt, attemptLease>>
  /\ Commit(r.at)
  /\ UNCHANGED <<definition, preparationLease, replacement, accepted>>

\* A new definition revision with other prerequisites.  A checkpoint is declared by
\* the current definition of a live item only.  The attempt keeps its accepted scope.
Revise(r, new) ==
  LET i == r.subject IN
  /\ Selected(r, "revise-item") /\ ItemUnchanged(r)
  /\ r.definition.rev = definition[i].rev
  /\ \A d, e \in new: d.item = e.item => d = e
  /\ \A d \in new: d.checkpoint # WholeItem => item[d.item].state \in LiveStates
  /\ ~ IntroducesCycle(i, new)
  /\ definition' = [definition EXCEPT ![i] = [rev |-> @.rev + 1, deps |-> new]]
  /\ AdvanceItem(i)
  /\ Commit(r.at)
  /\ UNCHANGED <<attempt, attemptLease, preparationLease, replacement, accepted>>

\* A new revision of the planned replacement, current or withdrawn.
RecordReplacement(r, by, status) ==
  LET i == r.subject IN
  /\ Selected(r, "record-replacement") /\ ItemUnchanged(r)
  /\ by # i
  /\ r.replacement.rev = replacement[i].rev
  /\ replacement' = [replacement EXCEPT ![i] =
       [rev |-> @.rev + 1, by |-> by, status |-> status, retained |-> FALSE]]
  /\ AdvanceItem(i)
  /\ Commit(r.at)
  /\ UNCHANGED <<definition, attempt, attemptLease, preparationLease, accepted>>

\* The item is kept although its replacement is current; that resolves it for now.
RetainTemporarily(r) ==
  LET i == r.subject IN
  /\ Selected(r, "retain-temporarily") /\ ItemUnchanged(r)
  /\ replacement[i].status = "current"
  /\ r.replacement.rev = replacement[i].rev
  /\ replacement' = [replacement EXCEPT ![i] = [@ EXCEPT !.retained = TRUE]]
  /\ AdvanceItem(i)
  /\ Commit(r.at)
  /\ UNCHANGED <<definition, attempt, attemptLease, preparationLease, accepted>>

\* The facts the human confirmed are the facts under the lock; a replacement is among
\* them only through the item's revision.
PreviewExact(r) ==
  LET i == r.subject IN
  /\ r.item = item[i] /\ r.definition = definition[i] /\ r.attempt = attempt[i]
  /\ HasAttempt(i) => r.attemptLease = attemptLease[i]
  /\ r.preparationLease = preparationLease[i]
  /\ r.related = Related(i)

\* Mutant: an item that already ended can still be cancelled.
CancelAnyItem(r, t) ==
  LET i == r.subject IN
  /\ "cancel" \in Kinds
  /\ PreviewExact(r)
  /\ SetItemState(i, "dropped")
  /\ IF HasAttempt(i) THEN SetAttemptState(i, "done") /\ FenceRetainedAttempt(i, t)
     ELSE UNCHANGED <<attempt, attemptLease>>
  /\ preparationLease' = [preparationLease EXCEPT ![i] =
       IF Recorded(@) THEN Ended(@, "revoked", t) ELSE @]
  /\ Commit(t)
  /\ UNCHANGED <<definition, replacement, accepted>>

\* Cancelling drops the item and fences both of its authorities.
Cancel(r, t) ==
  LET i == r.subject IN
  /\ "cancel" \in Kinds
  /\ item[i].state \in LiveStates
  /\ ClaimReadable(i)
  /\ PreviewExact(r)
  /\ SetItemState(i, "dropped")
  /\ IF HasAttempt(i) THEN SetAttemptState(i, "done") /\ FenceRetainedAttempt(i, t)
     ELSE UNCHANGED <<attempt, attemptLease>>
  /\ preparationLease' = [preparationLease EXCEPT ![i] =
       IF Recorded(@) THEN Ended(@, "revoked", t) ELSE @]
  /\ Commit(t)
  /\ UNCHANGED <<definition, replacement, accepted>>

ItemDecisionsNext(r) ==
  \/ ResumeItem(r)
  \/ BlockItem(r)
  \/ Defer(r)
  \/ Reopen(r)
  \/ CloseDone(r)
  \/ CloseSuperseded(r)
  \/ \E new \in SUBSET Dependency: Revise(r, new)
  \/ \E by \in Items, status \in {"current", "withdrawn"}: RecordReplacement(r, by, status)
  \/ RetainTemporarily(r)
  \/ \E t \in RequestTimes(r): Cancel(r, t)
=============================================================================
