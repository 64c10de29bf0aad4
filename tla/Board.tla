------------------------------- MODULE Board --------------------------------
(***************************************************************************)
(* The whole ledger: agents read items, time passes, and requests that     *)
(* rest on readings, fresh or old, commit one after the other under the    *)
(* database's write lock.                                                  *)
(***************************************************************************)
EXTENDS Preparation, AttemptAuthority, AttemptLifecycle, ItemDecisions

Next ==
  \/ Tick
  \/ \E i \in Items: Read(i)
  \/ \E r \in readings: Forget(r)
  \/ \E r \in Readings:
       \/ PreparationNext(r)
       \/ AttemptAuthorityNext(r)
       \/ AttemptLifecycleNext(r)
       \/ ItemDecisionsNext(r)

Spec == Init /\ [][Next]_vars

-----------------------------------------------------------------------------
\* Every row has the shape of its table; readings are copies of such rows.
TypeOK ==
  /\ clock \in Nat
  /\ project \in [revision: Nat, updatedAt: Nat]
  /\ item \in [Items -> Item]
  /\ definition \in [Items -> Definition]
  /\ attempt \in [Items -> Attempt]
  /\ attemptLease \in [Items -> Lease]
  /\ preparationLease \in [Items -> PreparationLease]
  /\ replacement \in [Items -> Replacement]
  /\ accepted \in [Items -> SUBSET Checkpoints]
  /\ \A r \in readings: r.subject \in Items /\ r.at \in 0 .. clock

\* The attempt states that an item's state allows: an item and its attempt move
\* together through every transition (validate_current_attempt_relation).
AllowedAttemptStates(s) ==
  CASE s \in {"active", "review"} -> {s}
    [] s \in {"paused", "blocked"} -> {"none", s}
    [] s \in {"ready", "deferred"} -> {"none"}
    [] OTHER -> {"none", "done"}

AttemptMatchesItem == \A i \in Items: attempt[i].state \in AllowedAttemptStates(item[i].state)

\* While a claim is live its item stays ready at the definition being prepared,
\* however late renewals and revisions arrive: the preparer never works on a
\* definition that changed under it (read_preparation_authority_status).
LiveClaimIsExact == \A i \in Items: PreparationLive(i) => ClaimExact(i)

\* The same promise as the board checks it when it reads a claim, at the time of the
\* last commit: "An active preparation lease must name a ready item and its current
\* definition." (adapters/sqlite/authority.py).
StoredClaimIsExact == \A i \in Items: ClaimReadable(i)

\* A subject revision is all that a request proves about what it read, so two
\* contents of a row never share one: no sequence of pauses, resumes, revisions and
\* rebinds brings an old request back to life on other facts (_subject_revision).
SubjectRevisionCoversFacts ==
  \A r \in readings: LET i == r.subject IN
    /\ r.item.rev = item[i].rev =>
         /\ r.item = item[i]
         /\ r.definition = definition[i]
         /\ r.replacement = replacement[i]
    /\ r.attempt.rev = attempt[i].rev => r.attempt = attempt[i]

\* A pause that asked for decisions is answered before work goes on, so nobody works
\* or reviews on an attempt with a pending batch (_resolve_pause_decisions).
WorkingMeansNoOpenDecisions ==
  \A i \in Items: attempt[i].undecided => attempt[i].state \notin {"active", "review"}

\* The protected candidate lives exactly as long as the review needs it, and an
\* attempt that returned to work cannot be accepted by it (set_attempt_state).
CandidateOnlyUnderReview ==
  \A i \in Items:
    /\ attempt[i].state = "review" => attempt[i].candidate # NoCandidate
    /\ attempt[i].candidate # NoCandidate => attempt[i].state \in {"review", "done"}

\* What was completed by review was reviewed at the item's last definition, with a
\* candidate and without a replacement waiting, although definition and replacement
\* can change during the review (_complete).
DoneAtAcceptedScope ==
  \A i \in Items: item[i].state = "done" /\ attempt[i].state = "done" =>
    /\ attempt[i].scope = definition[i].rev
    /\ attempt[i].candidate # NoCandidate
    /\ ~ UnresolvedReplacement(i)

\* An item that ended leaves nobody in charge: its attempt is done, its worker lease
\* ended, and no claim on it is live or can be renewed to be (superseded_attempt_closure,
\* sqlite/cancellation.persist).
TerminalHoldsNoAuthority ==
  \A i \in Items: item[i].state \in TerminalStates =>
    /\ attempt[i].state \in {"none", "done"}
    /\ attemptLease[i].status # "active"
    /\ ~ PreparationLive(i)

-----------------------------------------------------------------------------
\* Nobody keeps the authority over an attempt across a change of what it is for: when a
\* candidate leaves review, whichever way, and when the scope of running work changes, no
\* worker is in charge and every earlier token has ended, also one that was renewed or
\* transferred on the way (_return_for_correction, _accept_checkpoint, _complete, _rebind_attempt).
NewWorkNewGeneration ==
  [][\A i \in Items:
       \/ attempt[i].state = "review" /\ attempt'[i].state # "review"
       \/ attempt[i].state = "active" /\ attempt'[i].scope # attempt[i].scope
       => /\ attemptLease'[i].status # "active"
          /\ attemptLease'[i].generation > attemptLease[i].generation]_vars

\* Work starts or restarts only when every prerequisite is satisfied and no planned
\* replacement waits, at the moment of the commit and not of the reading (_resume, _activate).
StartsOnSatisfiedDependencies ==
  [][\A i \in Items:
       attempt[i].state \in {"none", "paused", "blocked"} /\ attempt'[i].state = "active" =>
         DependenciesSatisfied(i) /\ ~ UnresolvedReplacement(i)]_vars

\* A candidate enters review only from the worker in charge at that moment, at the current
\* definition and with no replacement waiting: all three can change between the moment the
\* worker selects the action and the commit (_worker_actions, _submit_review).
SubmissionsAreCurrent ==
  [][\A i \in Items: attempt[i].state = "active" /\ attempt'[i].state = "review" =>
       /\ Live(attemptLease[i], clock) /\ attemptLease'[i] = attemptLease[i]
       /\ ~ DefinitionStale(i) /\ ~ UnresolvedReplacement(i)]_vars

\* Once a prerequisite satisfied a dependency it satisfies it for good: no later
\* transition, cancellation included, takes back a checkpoint or an outcome that
\* other items were started on (dependency_satisfied).
SatisfactionIsPermanent ==
  [][\A d \in Dependency: Satisfied(d) => Satisfied(d)']_vars

\* A terminal item is history: state, definition, attempt and accepted checkpoints
\* stay as they were decided, whatever request was selected before the end.
TerminalIsFinal ==
  [][\A i \in Items: item[i].state \in TerminalStates =>
       /\ item'[i] = item[i] /\ definition'[i] = definition[i]
       /\ attempt'[i] = attempt[i] /\ accepted'[i] = accepted[i]
       /\ replacement'[i] = replacement[i]]_vars

-----------------------------------------------------------------------------
\* Both authorities implement FencedLease, item by item: the two properties below are
\* \A i \in Items: Grant(i)!Spec with the quantifier moved under the box.
Holder(lease) == IF lease.status = "active" THEN lease.holder ELSE NoTask
Deadline(lease) == IF lease.status = "active" THEN lease.expires ELSE 0

AttemptGrant(i) == INSTANCE FencedLease WITH
  high <- attemptLease[i].generation,
  holder <- Holder(attemptLease[i]),
  deadline <- Deadline(attemptLease[i])

PreparationGrant(i) == INSTANCE FencedLease WITH
  high <- preparationLease[i].generation,
  holder <- Holder(preparationLease[i]),
  deadline <- Deadline(preparationLease[i])

\* At any real time one worker at most is in charge of an attempt: a grant waits until
\* the one before it ended or lapsed by the clock, no generation is handed out twice, and
\* a token that ended is never in force again, although a request's own time was sampled
\* before it got the lock (decide_attempt_authority, fence_attempt_authority).
AttemptIsFenced ==
  /\ \A i \in Items: AttemptGrant(i)!Init
  /\ [][\A i \in Items: [AttemptGrant(i)!Next]_(AttemptGrant(i)!vars)]_vars

\* The same for the preparers of an item: activation and cancellation end the claim like
\* release and revocation do (decide_preparation_authority, consume_preparation_authority).
PreparationIsFenced ==
  /\ \A i \in Items: PreparationGrant(i)!Init
  /\ [][\A i \in Items: [PreparationGrant(i)!Next]_(PreparationGrant(i)!vars)]_vars
=============================================================================
