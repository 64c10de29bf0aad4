----------------------------- MODULE BoardState -----------------------------
(***************************************************************************)
(* The ledger of a Pinboard project: the rows of its SQLite tables, what   *)
(* an agent reads of them, and which actions they offer.  Every mutation   *)
(* is one transaction under the database's write lock, so each operation   *)
(* of the modules that extend this one is a single step; what interleaves  *)
(* is the time between an agent's reading and the transaction it asks for. *)
(***************************************************************************)
EXTENDS Leases, FiniteSets

CONSTANTS Items,         \* work items
          Checkpoints,   \* checkpoint names that the items' definitions declare
          WholeItem,     \* the checkpoint of a dependency on a complete item
          NoItem,        \* the target of a replacement never recorded
          Candidates,    \* source candidates that workers submit
          NoCandidate,
          LeaseTime,     \* how long each grant lasts
          Kinds,         \* bound: the actions agents choose from
          Horizon,       \* bound: the last clock reading
          MaxRevision,   \* bound: how many transactions commit
          MaxReadings    \* bound: readings that agents hold at once

ASSUME ItemsAssumption == IsFiniteSet(Items) /\ NoItem \notin Items
ASSUME CheckpointsAssumption == WholeItem \notin Checkpoints
ASSUME CandidatesAssumption == NoCandidate \notin Candidates
ASSUME LeaseTimeAssumption == LeaseTime \in Nat \ {0}
ASSUME BoundsAssumption == Horizon \in Nat /\ MaxRevision \in Nat /\ MaxReadings \in Nat

VARIABLES
  clock,             \* the host clock; requests and the lock sample it
  project,           \* project_meta: the revision and the last commit's time
  item,              \* work_items: state and subject revision
  definition,        \* the current definition revision and its dependencies
  attempt,           \* attempts: an item has one at most, indexed by the item
  attemptLease,      \* attempt_leases with attempt_lease_counters
  preparationLease,  \* preparation_leases, each pinned to a definition revision
  replacement,       \* the latest planned_replacements row and its disposition
  accepted,          \* checkpoint_acceptances of the item's attempt
  readings           \* what agents read earlier and may still act upon

vars == <<clock, project, item, definition, attempt, attemptLease,
          preparationLease, replacement, accepted, readings>>

-----------------------------------------------------------------------------
LiveStates == {"ready", "active", "paused", "blocked", "deferred", "review"}
TerminalStates == {"done", "superseded", "dropped"}
OpenAttemptStates == {"active", "paused", "blocked", "review"}

\* One prerequisite: the whole item, or one of its checkpoints.
Dependency == [item: Items, checkpoint: Checkpoints \cup {WholeItem}]

Item == [state: LiveStates \cup TerminalStates, rev: Nat]
Definition == [rev: Nat, deps: SUBSET Dependency]
Attempt == [state: {"none", "done"} \cup OpenAttemptStates, rev: Nat, scope: Nat,
            candidate: Candidates \cup {NoCandidate}, undecided: BOOLEAN]
PreparationLease == [status: Status, holder: Tasks \cup {NoTask}, generation: Nat,
                     expires: Nat, pin: Nat]
Replacement == [rev: Nat, by: Items \cup {NoItem},
                status: {"none", "current", "withdrawn"}, retained: BOOLEAN]

NoAttempt == [state |-> "none", rev |-> 0, scope |-> 0,
              candidate |-> NoCandidate, undecided |-> FALSE]
NoPreparation == [status |-> "none", holder |-> NoTask, generation |-> 0,
                  expires |-> 0, pin |-> 0]
NoReplacement == [rev |-> 0, by |-> NoItem, status |-> "none", retained |-> FALSE]

Prerequisites(deps) == {d.item : d \in deps}

\* Following prerequisites from a set of items, nothing outside a closed set is met.
Closed(S, deps) == \A j \in S: Prerequisites(deps[j]) \subseteq S

\* The depth-first search from an item's new dependencies meets the item itself.
IntroducesCycle(i, new) ==
  LET deps == [j \in Items |-> definition[j].deps] IN
  ~ \E S \in SUBSET (Items \ {i}): Prerequisites(new) \subseteq S /\ Closed(S, deps)

\* No set of items in which each one waits for another.
Acyclic == \A S \in SUBSET Items:
  S # {} => \E j \in S: Prerequisites(definition[j].deps) \cap S = {}

-----------------------------------------------------------------------------
HasAttempt(i) == attempt[i].state \in OpenAttemptStates

\* Mutant: only running work is compared with the definition.
StaleOnlyWhileActive(i) == attempt[i].state = "active" /\ attempt[i].scope # definition[i].rev

\* The attempt's accepted scope is not the item's current definition.
DefinitionStale(i) == HasAttempt(i) /\ attempt[i].scope # definition[i].rev

UnresolvedReplacement(i) == replacement[i].status = "current" /\ ~ replacement[i].retained

\* Mutant: cancelling the producer takes its accepted checkpoints back.
SatisfiedUntilDropped(d) ==
  \/ item[d.item].state \in {"done", "superseded"}
  \/ d.checkpoint \in accepted[d.item] /\ item[d.item].state # "dropped"

\* A dropped prerequisite never satisfies; an accepted checkpoint always does.
Satisfied(d) ==
  \/ item[d.item].state \in {"done", "superseded"}
  \/ d.checkpoint \in accepted[d.item]

DependenciesSatisfied(i) == \A d \in definition[i].deps: Satisfied(d)

LiveDependents(i) ==
  {j \in Items: item[j].state \in LiveStates /\ i \in Prerequisites(definition[j].deps)}

PreparationLive(i) == Live(preparationLease[i], clock)

\* Mutant: a lease counts until its row says otherwise, expired or not.
AttemptLiveUntilReplaced(i) == attemptLease[i].status = "active"

AttemptLive(i) == Live(attemptLease[i], clock)

\* The claim names a ready item and its current definition.
ClaimExact(i) == item[i].state = "ready" /\ preparationLease[i].pin = definition[i].rev

\* Reading a claim fails when it looks live at the last commit's time but is not exact.
ClaimReadable(i) == Live(preparationLease[i], project.updatedAt) => ClaimExact(i)

-----------------------------------------------------------------------------
\* Mutant: a planned replacement does not suspend submission.
WorkerOffersDespiteReplacement(i) ==
  IF ~ (item[i].state = "active" /\ AttemptLive(i)) THEN {}
  ELSE {"worker-pause"} \cup (IF DefinitionStale(i) THEN {} ELSE {"submit-review"})

\* The actions the board offers on item i, each with the role it is offered to.
WorkerOffers(i) ==
  IF ~ (item[i].state = "active" /\ AttemptLive(i)) THEN {}
  ELSE {"worker-pause"}
       \cup (IF DefinitionStale(i) \/ UnresolvedReplacement(i) THEN {} ELSE {"submit-review"})

\* Mutant: a replacement planned during the preparation does not stop activation.
PreparerOffersDespiteReplacement(i) ==
  IF item[i].state = "ready" /\ PreparationLive(i) /\ DependenciesSatisfied(i)
  THEN {"activate"} ELSE {}

PreparerOffers(i) ==
  IF /\ item[i].state = "ready"
     /\ PreparationLive(i)
     /\ ~ UnresolvedReplacement(i)
     /\ DependenciesSatisfied(i)
  THEN {"activate"} ELSE {}

\* Project actions on an item with a live attempt.
AttemptOffers(i) ==
  CASE item[i].state = "active" -> {"rebind-attempt", "pause", "block-attempt"}
    [] item[i].state = "review" ->
         {"return-for-correction"}
         \cup (IF DefinitionStale(i) \/ UnresolvedReplacement(i) THEN {}
               ELSE {"accept-checkpoint", "accept-review-and-continue", "complete"})
    [] item[i].state = "paused" ->
         {"rebind-attempt"}
         \cup (IF UnresolvedReplacement(i) THEN {"close"}
               ELSE IF DependenciesSatisfied(i) THEN {"resume"} ELSE {})
    [] item[i].state = "blocked" ->
         IF UnresolvedReplacement(i) THEN {"close"}
         ELSE IF DependenciesSatisfied(i) THEN {"resume"} ELSE {}
    [] OTHER -> {}

\* Project actions on an item that was never started and that nobody prepares now.
UnstartedOffers(i) ==
  CASE item[i].state = "ready" -> {"block-item", "defer", "close"}
    [] item[i].state \in {"paused", "blocked"} ->
         IF DependenciesSatisfied(i) /\ ~ UnresolvedReplacement(i)
         THEN {"resume", "defer", "close"} ELSE {"close"}
    [] item[i].state = "deferred" -> {"reopen", "close"}
    [] OTHER -> {}

\* A review without an attempt is one of a human's pull request.
ProjectOffers(i) ==
  IF item[i].state \in TerminalStates THEN {}
  ELSE IF item[i].state = "review" /\ ~ HasAttempt(i) THEN {"cancel", "revise-item"}
  ELSE {"cancel", "record-replacement"}
       \cup (IF UnresolvedReplacement(i) THEN {"retain-temporarily"} ELSE {})
       \cup (IF PreparationLive(i) THEN {} ELSE {"revise-item"})
       \cup (IF HasAttempt(i) THEN AttemptOffers(i)
             ELSE IF PreparationLive(i) THEN {} ELSE UnstartedOffers(i))

Offers(i) == Kinds \cap (WorkerOffers(i) \cup PreparerOffers(i) \cup ProjectOffers(i))

-----------------------------------------------------------------------------
\* What cancellation shows of the item's prerequisites and live dependents.
Related(i) ==
  [j \in Prerequisites(definition[i].deps) \cup LiveDependents(i) |->
     <<item[j], definition[j].rev>>]

\* Everything an agent learns about item i when it reads the board now.
Reading(i) ==
  [subject |-> i, at |-> clock, offers |-> Offers(i),
   item |-> item[i], definition |-> definition[i], attempt |-> attempt[i],
   attemptLease |-> attemptLease[i], preparationLease |-> preparationLease[i],
   replacement |-> replacement[i], accepted |-> accepted[i], related |-> Related(i)]

\* A request rests on a reading made just now or on one made earlier.
Readings == readings \cup {Reading(i): i \in Items}

\* Offered when the request was selected, and offered still under the lock.
Selected(r, kind) == kind \in r.offers /\ kind \in Offers(r.subject)

\* The capability of a project action carries its subject's revision.
ItemUnchanged(r) == r.item.rev = item[r.subject].rev
AttemptUnchanged(r) == r.attempt.rev = attempt[r.subject].rev

\* The command authority of a worker carries both revisions and the exact token.
WorkerAuthority(r) ==
  /\ ItemUnchanged(r) /\ AttemptUnchanged(r)
  /\ AttemptLive(r.subject)
  /\ SameToken(attemptLease[r.subject], r.attemptLease)

\* The command authority of a preparer also carries the definition pin.
PreparerAuthority(r) ==
  /\ ItemUnchanged(r)
  /\ PreparationLive(r.subject)
  /\ SameToken(preparationLease[r.subject], r.preparationLease)
  /\ preparationLease[r.subject].pin = r.preparationLease.pin

\* The time a request was made: after the reading it rests on, before the lock.
RequestTimes(r) == r.at .. clock

-----------------------------------------------------------------------------
NextRevision == project.revision + 1

\* Every transaction advances the revision and records the request's own time.
Commit(t) ==
  /\ project.revision < MaxRevision
  /\ project' = [revision |-> NextRevision, updatedAt |-> t]
  /\ UNCHANGED <<clock, readings>>

SetItemState(i, s) == item' = [item EXCEPT ![i] = [state |-> s, rev |-> NextRevision]]

\* Mutant: a change of definition or replacement keeps the subject revision.
KeepItemRevision(i) == UNCHANGED item

AdvanceItem(i) == item' = [item EXCEPT ![i] = [@ EXCEPT !.rev = NextRevision]]

\* Mutant: the candidate outlives the review.
SetAttemptStateOnly(i, s) ==
  attempt' = [attempt EXCEPT ![i] = [@ EXCEPT !.state = s, !.rev = NextRevision]]

\* A candidate stays protected while in review and after the attempt is done.
SetAttemptState(i, s) ==
  attempt' = [attempt EXCEPT ![i] =
    [@ EXCEPT !.state = s, !.rev = NextRevision,
              !.candidate = IF s = "done" THEN attempt[i].candidate ELSE NoCandidate]]

FenceAttempt(i, t) == attemptLease' = [attemptLease EXCEPT ![i] = Ended(@, "revoked", t)]

\* Mutant: ending the item leaves its worker's lease alone.
LeaveRetainedAttempt(i, t) == UNCHANGED attemptLease

FenceRetainedAttempt(i, t) ==
  IF Recorded(attemptLease[i]) THEN FenceAttempt(i, t) ELSE UNCHANGED attemptLease

-----------------------------------------------------------------------------
\* Items begin ready at definition revision 1; none waits for one created after it.
Init ==
  /\ clock = 0
  /\ project = [revision |-> 0, updatedAt |-> 0]
  /\ item = [i \in Items |-> [state |-> "ready", rev |-> 0]]
  /\ definition \in [Items -> [rev: {1}, deps: SUBSET Dependency]]
  /\ \A i \in Items: \A d, e \in definition[i].deps: d.item = e.item => d = e
  /\ Acyclic
  /\ attempt = [i \in Items |-> NoAttempt]
  /\ attemptLease = [i \in Items |-> NoLease]
  /\ preparationLease = [i \in Items |-> NoPreparation]
  /\ replacement = [i \in Items |-> NoReplacement]
  /\ accepted = [i \in Items |-> {}]
  /\ readings = {}

ledger == <<project, item, definition, attempt, attemptLease, preparationLease,
            replacement, accepted>>

Tick == clock < Horizon /\ clock' = clock + 1 /\ UNCHANGED <<ledger, readings>>

\* An agent reads a live item and keeps what it read.
Read(i) ==
  /\ Cardinality(readings) < MaxReadings
  /\ item[i].state \in LiveStates
  /\ readings' = readings \cup {Reading(i)}
  /\ UNCHANGED <<clock, ledger>>

\* A crashed, cancelled or satisfied agent never comes back with its reading.
Forget(r) == readings' = readings \ {r} /\ UNCHANGED <<clock, ledger>>
=============================================================================
