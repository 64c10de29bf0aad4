-------------------------- MODULE AttemptLifecycle --------------------------
(***************************************************************************)
(* The life of a started item: its worker pauses it or submits a           *)
(* candidate, the project blocks, resumes and rebinds it, and a reviewer   *)
(* returns, accepts or completes the candidate it protects.                *)
(***************************************************************************)
EXTENDS BoardState

\* A pause by the worker or by the project, with or without decisions to make.
Pause(r, undecided) ==
  LET i == r.subject IN
  /\ \/ Selected(r, "pause") /\ AttemptUnchanged(r)
     \/ Selected(r, "worker-pause") /\ WorkerAuthority(r)
  /\ item[i].state = "active" /\ attempt[i].state = "active"
  /\ SetItemState(i, "paused")
  /\ attempt' = [attempt EXCEPT ![i] =
       [@ EXCEPT !.state = "paused", !.rev = NextRevision,
                 !.candidate = NoCandidate, !.undecided = undecided]]
  /\ Commit(r.at)
  /\ UNCHANGED <<definition, attemptLease, preparationLease, replacement, accepted>>

\* Mutant: the item is blocked and its attempt goes on.
BlockItemOnly(r) ==
  LET i == r.subject IN
  /\ Selected(r, "block-attempt") /\ AttemptUnchanged(r)
  /\ item[i].state = "active" /\ attempt[i].state = "active"
  /\ SetItemState(i, "blocked")
  /\ Commit(r.at)
  /\ UNCHANGED <<definition, attempt, attemptLease, preparationLease, replacement, accepted>>

BlockAttempt(r) ==
  LET i == r.subject IN
  /\ Selected(r, "block-attempt") /\ AttemptUnchanged(r)
  /\ item[i].state = "active" /\ attempt[i].state = "active"
  /\ SetItemState(i, "blocked")
  /\ SetAttemptState(i, "blocked")
  /\ Commit(r.at)
  /\ UNCHANGED <<definition, attemptLease, preparationLease, replacement, accepted>>

\* Mutant: work resumes with its decisions open.
ResumeUnanswered(r, answered, revised) ==
  LET i == r.subject IN
  /\ Selected(r, "resume") /\ ItemUnchanged(r)
  /\ item[i].state \in {"paused", "blocked"} /\ attempt[i].state = item[i].state
  /\ SetItemState(i, "active")
  /\ SetAttemptState(i, "active")
  /\ Commit(r.at)
  /\ UNCHANGED <<definition, attemptLease, preparationLease, replacement, accepted>>

\* Resuming answers exactly the open decisions; a revised brief adopts the
\* current definition.  The worker's authority is left as it was.
ResumeAttempt(r, answered, revised) ==
  LET i == r.subject IN
  /\ Selected(r, "resume") /\ ItemUnchanged(r)
  /\ HasAttempt(i)
  /\ item[i].state \in {"paused", "blocked"} /\ attempt[i].state = item[i].state
  /\ DependenciesSatisfied(i) /\ ~ UnresolvedReplacement(i)
  /\ answered = attempt[i].undecided
  /\ SetItemState(i, "active")
  /\ attempt' = [attempt EXCEPT ![i] =
       [@ EXCEPT !.state = "active", !.rev = NextRevision,
                 !.candidate = NoCandidate, !.undecided = FALSE,
                 !.scope = IF revised THEN definition[i].rev ELSE attempt[i].scope]]
  /\ Commit(r.at)
  /\ UNCHANGED <<definition, attemptLease, preparationLease, replacement, accepted>>

\* A new brief at the current definition; the state stays and the worker is fenced.
RebindAttempt(r) ==
  LET i == r.subject IN
  /\ Selected(r, "rebind-attempt") /\ AttemptUnchanged(r)
  /\ item[i].state \in {"active", "paused"} /\ attempt[i].state = item[i].state
  /\ Recorded(attemptLease[i])
  /\ attempt' = [attempt EXCEPT ![i] =
       [@ EXCEPT !.scope = definition[i].rev, !.rev = NextRevision]]
  /\ FenceAttempt(i, r.at)
  /\ Commit(r.at)
  /\ UNCHANGED <<item, definition, preparationLease, replacement, accepted>>

\* The worker hands a candidate over to review.
SubmitReview(r, candidate) ==
  LET i == r.subject IN
  /\ Selected(r, "submit-review") /\ WorkerAuthority(r)
  /\ item[i].state = "active" /\ attempt[i].state = "active"
  /\ ~ DefinitionStale(i)
  /\ SetItemState(i, "review")
  /\ attempt' = [attempt EXCEPT ![i] =
       [@ EXCEPT !.state = "review", !.rev = NextRevision, !.candidate = candidate]]
  /\ Commit(r.at)
  /\ UNCHANGED <<definition, attemptLease, preparationLease, replacement, accepted>>

\* Every review decision names an attempt in review that it has to fence.
Reviewed(r, kind) ==
  LET i == r.subject IN
  /\ Selected(r, kind) /\ AttemptUnchanged(r)
  /\ item[i].state = "review" /\ attempt[i].state = "review"

\* An acceptance also names the exact protected candidate at the accepted scope.
AcceptedCandidate(r) ==
  /\ ~ DefinitionStale(r.subject)
  /\ attempt[r.subject].candidate = r.attempt.candidate

ReturnForCorrection(r) ==
  LET i == r.subject IN
  /\ Reviewed(r, "return-for-correction")
  /\ Recorded(attemptLease[i])
  /\ attempt[i].candidate # NoCandidate
  /\ SetItemState(i, "active")
  /\ SetAttemptState(i, "active")
  /\ FenceAttempt(i, r.at)
  /\ Commit(r.at)
  /\ UNCHANGED <<definition, preparationLease, replacement, accepted>>

\* Mutant: accepting one checkpoint records the whole item.
AcceptCheckpointAsWhole(r, checkpoint) ==
  LET i == r.subject IN
  /\ Reviewed(r, "accept-checkpoint") /\ AcceptedCandidate(r)
  /\ Recorded(attemptLease[i])
  /\ SetItemState(i, "paused")
  /\ SetAttemptState(i, "paused")
  /\ FenceAttempt(i, r.at)
  /\ accepted' = [accepted EXCEPT ![i] = @ \cup {WholeItem}]
  /\ Commit(r.at)
  /\ UNCHANGED <<definition, preparationLease, replacement>>

AcceptCheckpoint(r, checkpoint) ==
  LET i == r.subject IN
  /\ Reviewed(r, "accept-checkpoint") /\ AcceptedCandidate(r)
  /\ Recorded(attemptLease[i])
  /\ SetItemState(i, "paused")
  /\ SetAttemptState(i, "paused")
  /\ FenceAttempt(i, r.at)
  /\ accepted' = [accepted EXCEPT ![i] = @ \cup {checkpoint}]
  /\ Commit(r.at)
  /\ UNCHANGED <<definition, preparationLease, replacement>>

\* Mutant: the worker that submitted goes on under its old token.
AcceptReviewUnfenced(r) ==
  LET i == r.subject IN
  /\ Reviewed(r, "accept-review-and-continue") /\ AcceptedCandidate(r)
  /\ SetItemState(i, "active")
  /\ SetAttemptState(i, "active")
  /\ Commit(r.at)
  /\ UNCHANGED <<definition, attemptLease, preparationLease, replacement, accepted>>

AcceptReviewAndContinue(r) ==
  LET i == r.subject IN
  /\ Reviewed(r, "accept-review-and-continue") /\ AcceptedCandidate(r)
  /\ Recorded(attemptLease[i])
  /\ SetItemState(i, "active")
  /\ SetAttemptState(i, "active")
  /\ FenceAttempt(i, r.at)
  /\ Commit(r.at)
  /\ UNCHANGED <<definition, preparationLease, replacement, accepted>>

\* Completion covers every checkpoint accepted so far and keeps the candidate.
Complete(r) ==
  LET i == r.subject IN
  /\ Reviewed(r, "complete") /\ AcceptedCandidate(r)
  /\ ~ UnresolvedReplacement(i)
  /\ r.accepted = accepted[i]
  /\ SetItemState(i, "done")
  /\ SetAttemptState(i, "done")
  /\ FenceRetainedAttempt(i, r.at)
  /\ Commit(r.at)
  /\ UNCHANGED <<definition, preparationLease, replacement, accepted>>

AttemptLifecycleNext(r) ==
  \/ \E undecided \in BOOLEAN: Pause(r, undecided)
  \/ BlockAttempt(r)
  \/ \E answered, revised \in BOOLEAN: ResumeAttempt(r, answered, revised)
  \/ RebindAttempt(r)
  \/ \E candidate \in Candidates: SubmitReview(r, candidate)
  \/ ReturnForCorrection(r)
  \/ \E checkpoint \in Checkpoints: AcceptCheckpoint(r, checkpoint)
  \/ AcceptReviewAndContinue(r)
  \/ Complete(r)
=============================================================================
