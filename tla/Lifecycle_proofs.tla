-------------------------- MODULE Lifecycle_proofs --------------------------
(***************************************************************************)
(* An item and its attempt move together, the prerequisites of the items   *)
(* never form a cycle, and while a preparation claim is live its item is   *)
(* ready at the definition that the claim pins.  Then what holds of an     *)
(* item through its review and after its end: decisions, candidate, scope  *)
(* and authority.  Last, what one request may change, the rows of its      *)
(* subject alone, each with a new revision, and nothing of an item that    *)
(* ended: from that follows what a request that rests on an old reading    *)
(* can rely on, and what no sequence of requests takes back.               *)
(***************************************************************************)
EXTENDS Board_proofs

\* What each setter does to the state of its item and to the others.
LEMMA SetItemStateEffect ==
  ASSUME TypeOK, NEW i \in Items, NEW s, SetItemState(i, s)
  PROVE  item'[i].state = s /\ \A j \in Items \ {i}: item'[j] = item[j]
BY DEF TypeOK, SetItemState

LEMMA SetAttemptStateEffect ==
  ASSUME TypeOK, NEW i \in Items, NEW s, SetAttemptState(i, s)
  PROVE  attempt'[i].state = s /\ \A j \in Items \ {i}: attempt'[j] = attempt[j]
BY DEF TypeOK, SetAttemptState, Attempt

LEMMA AdvanceItemEffect ==
  ASSUME TypeOK, NEW i \in Items, AdvanceItem(i)
  PROVE  \A j \in Items: item'[j].state = item[j].state
BY DEF TypeOK, AdvanceItem, Item

\* The states of an item and of its attempt fit each other.
Fits(i) == attempt[i].state \in AllowedAttemptStates(item[i].state)

\* A step about item i alone, which moves the item and its attempt together.
Together(i) ==
  /\ Fits(i) => Fits(i)'
  /\ \A j \in Items \ {i}: item'[j].state = item[j].state /\ attempt'[j].state = attempt[j].state

LEMMA OneMoves ==
  ASSUME NEW i \in Items,
         \A j \in Items \ {i}: item'[j] = item[j] /\ attempt'[j] = attempt[j],
         Fits(i) => attempt'[i].state \in AllowedAttemptStates(item'[i].state)
  PROVE  Together(i)
BY DEF Together, Fits, AllowedAttemptStates

LEMMA NoneMoves ==
  ASSUME NEW i \in Items,
         \A j \in Items: item'[j].state = item[j].state /\ attempt'[j].state = attempt[j].state
  PROVE  Together(i)
BY DEF Together, Fits, AllowedAttemptStates

LEMMA TogetherFits ==
  ASSUME NEW i \in Items, NEW j \in Items, Together(i), Fits(j)
  PROVE  Fits(j)'
BY DEF Together, Fits, AllowedAttemptStates

LEMMA TogetherMatches ==
  ASSUME NEW i \in Items, Together(i), AttemptMatchesItem
  PROVE  AttemptMatchesItem'
BY TogetherFits DEF AttemptMatchesItem, Fits

LEMMA PreparationMoves ==
  ASSUME TypeOK, NEW r \in Readings, PreparationNext(r)
  PROVE  Together(r.subject)
<1>1. CASE Activate(r)
  <2>1. r.subject \in Items
    BY ReadingTyped
  <2>2. /\ item'[r.subject].state = "active"
        /\ \A j \in Items \ {r.subject}: item'[j] = item[j]
    BY <1>1, <2>1, SetItemStateEffect DEF Activate
  <2>3. /\ attempt'[r.subject].state = "active"
        /\ \A j \in Items \ {r.subject}: attempt'[j] = attempt[j]
    BY <1>1, <2>1 DEF Activate, TypeOK, NoAttempt
  <2>4. attempt'[r.subject].state \in AllowedAttemptStates(item'[r.subject].state)
    BY <2>2, <2>3 DEF AllowedAttemptStates
  <2> QED BY <2>1, <2>2, <2>3, <2>4, OneMoves
<1>2. CASE ~ Activate(r)
  <2>1. UNCHANGED <<item, attempt>>
    BY <1>2 DEF PreparationNext, StartPreparation, RenewPreparation, ReleasePreparation,
                RevokePreparation
  <2> QED BY <2>1, ReadingTyped, NoneMoves
<1> QED BY <1>1, <1>2

LEMMA AttemptAuthorityMoves ==
  ASSUME TypeOK, NEW r \in Readings, AttemptAuthorityNext(r)
  PROVE  Together(r.subject)
<1>1. UNCHANGED <<item, attempt>>
  BY DEF AttemptAuthorityNext, AcquireAttempt, RenewAttempt, ReleaseAttempt, RevokeAttempt
<1> QED BY <1>1, ReadingTyped, NoneMoves

LEMMA AttemptLifecycleMoves ==
  ASSUME TypeOK, NEW r \in Readings, AttemptLifecycleNext(r)
  PROVE  Together(r.subject)
<1> DEFINE i == r.subject
<1>1. i \in Items /\ attempt[i] \in Attempt
  BY ReadingTyped DEF TypeOK
<1>2. ASSUME NEW s \in {"active", "paused", "blocked", "review", "done"},
             SetItemState(i, s),
             attempt'[i].state = s /\ \A j \in Items \ {i}: attempt'[j] = attempt[j]
      PROVE  Together(i)
  <2>1. item'[i].state = s /\ \A j \in Items \ {i}: item'[j] = item[j]
    BY <1>1, <1>2, SetItemStateEffect
  <2>2. attempt'[i].state \in AllowedAttemptStates(item'[i].state)
    BY <1>2, <2>1 DEF AllowedAttemptStates
  <2> QED BY <1>1, <1>2, <2>1, <2>2, OneMoves
<1>3. ASSUME NEW undecided \in BOOLEAN, Pause(r, undecided)
      PROVE  Together(i)
  <2>1. attempt'[i].state = "paused" /\ \A j \in Items \ {i}: attempt'[j] = attempt[j]
    BY <1>1, <1>3 DEF Pause, TypeOK, Attempt
  <2> QED BY <1>2, <1>3, <2>1 DEF Pause
<1>4. ASSUME NEW answered \in BOOLEAN, NEW revised \in BOOLEAN,
             ResumeAttempt(r, answered, revised)
      PROVE  Together(i)
  <2>1. attempt'[i].state = "active" /\ \A j \in Items \ {i}: attempt'[j] = attempt[j]
    BY <1>1, <1>4 DEF ResumeAttempt, TypeOK, Attempt
  <2> QED BY <1>2, <1>4, <2>1 DEF ResumeAttempt
<1>5. ASSUME NEW candidate \in Candidates, SubmitReview(r, candidate)
      PROVE  Together(i)
  <2>1. attempt'[i].state = "review" /\ \A j \in Items \ {i}: attempt'[j] = attempt[j]
    BY <1>1, <1>5 DEF SubmitReview, TypeOK, Attempt
  <2> QED BY <1>2, <1>5, <2>1 DEF SubmitReview
<1>6. ASSUME RebindAttempt(r)
      PROVE  Together(i)
  <2>1. \A j \in Items: attempt'[j].state = attempt[j].state
    BY <1>1, <1>6 DEF RebindAttempt, TypeOK, Attempt
  <2> QED BY <1>1, <1>6, <2>1, NoneMoves DEF RebindAttempt
<1>7. ASSUME NEW s \in {"active", "paused", "blocked", "done"},
             SetItemState(i, s), SetAttemptState(i, s)
      PROVE  Together(i)
  BY <1>1, <1>2, <1>7, SetAttemptStateEffect
<1>8. ASSUME \/ BlockAttempt(r) \/ ReturnForCorrection(r) \/ AcceptReviewAndContinue(r)
             \/ Complete(r) \/ \E checkpoint \in Checkpoints: AcceptCheckpoint(r, checkpoint)
      PROVE  Together(i)
  BY <1>7, <1>8 DEF BlockAttempt, ReturnForCorrection, AcceptReviewAndContinue, Complete,
                    AcceptCheckpoint
<1> QED BY <1>3, <1>4, <1>5, <1>6, <1>8 DEF AttemptLifecycleNext

LEMMA ItemDecisionsMove ==
  ASSUME TypeOK, NEW r \in Readings, ItemDecisionsNext(r)
  PROVE  Together(r.subject)
<1> DEFINE i == r.subject
<1>1. i \in Items
  BY ReadingTyped
<1>2. attempt[i] \in Attempt /\ item[i] \in Item
  BY <1>1 DEF TypeOK
<1>3. ASSUME NEW kind, NEW from \in SUBSET {"ready", "paused", "blocked", "deferred"},
             NEW to \in {"ready", "blocked", "deferred", "done"},
             MoveUnstarted(r, kind, from, to)
      PROVE  Together(i)
  <2>1. item'[i].state = to /\ \A j \in Items \ {i}: item'[j] = item[j]
    BY <1>1, <1>3, SetItemStateEffect DEF MoveUnstarted
  <2>2. attempt' = attempt /\ (Fits(i) => attempt[i].state = "none")
    BY <1>2, <1>3 DEF MoveUnstarted, HasAttempt, OpenAttemptStates, Fits, AllowedAttemptStates
  <2>3. Fits(i) => attempt'[i].state \in AllowedAttemptStates(item'[i].state)
    BY <2>1, <2>2 DEF AllowedAttemptStates
  <2> QED BY <1>1, <2>1, <2>2, <2>3, OneMoves
<1>4. ASSUME ResumeItem(r) \/ BlockItem(r) \/ Defer(r) \/ Reopen(r) \/ CloseDone(r)
      PROVE  Together(i)
  BY <1>3, <1>4 DEF ResumeItem, BlockItem, Defer, Reopen, CloseDone
<1>5. ASSUME NEW s \in {"superseded", "dropped"}, SetItemState(i, s),
             IF HasAttempt(i) THEN SetAttemptState(i, "done") ELSE UNCHANGED attempt
      PROVE  Together(i)
  <2>1. item'[i].state = s /\ \A j \in Items \ {i}: item'[j] = item[j]
    BY <1>1, <1>5, SetItemStateEffect
  <2>2. /\ attempt'[i].state \in {"none", "done"}
        /\ \A j \in Items \ {i}: attempt'[j] = attempt[j]
    BY <1>1, <1>2, <1>5, SetAttemptStateEffect DEF HasAttempt, Attempt
  <2>3. attempt'[i].state \in AllowedAttemptStates(item'[i].state)
    BY <1>5, <2>1, <2>2 DEF AllowedAttemptStates
  <2> QED BY <1>1, <2>1, <2>2, <2>3, OneMoves
<1>6. ASSUME CloseSuperseded(r) \/ \E t \in RequestTimes(r): Cancel(r, t)
      PROVE  Together(i)
  BY <1>5, <1>6 DEF CloseSuperseded, Cancel
<1>7. ASSUME \/ \E new \in SUBSET Dependency: Revise(r, new)
             \/ \E by \in Items, status \in {"current", "withdrawn"}:
                  RecordReplacement(r, by, status)
             \/ RetainTemporarily(r)
      PROVE  Together(i)
  <2>1. AdvanceItem(i) /\ attempt' = attempt
    BY <1>7 DEF Revise, RecordReplacement, RetainTemporarily
  <2> QED BY <1>1, <2>1, AdvanceItemEffect, NoneMoves
<1> QED BY <1>4, <1>6, <1>7 DEF ItemDecisionsNext

\* Every step is about one item, or moves none.
LEMMA StepsTogether ==
  ASSUME TypeOK, [Next]_vars
  PROVE  (\E i \in Items: Together(i)) \/ UNCHANGED <<item, attempt>>
<1>1. CASE Tick \/ (\E i \in Items: Read(i)) \/ (\E r \in readings: Forget(r)) \/ UNCHANGED vars
  BY <1>1 DEF Tick, Read, Forget, ledger, vars
<1> QED
  BY <1>1, ReadingTyped, PreparationMoves, AttemptAuthorityMoves, AttemptLifecycleMoves,
     ItemDecisionsMove DEF Next

LEMMA StepFits ==
  ASSUME TypeOK, [Next]_vars, NEW i \in Items, Fits(i)
  PROVE  Fits(i)'
<1>1. CASE UNCHANGED <<item, attempt>>
  BY <1>1 DEF Fits, AllowedAttemptStates
<1> QED BY <1>1, StepsTogether, TogetherFits

\* The state of an item and the state of its attempt fit each other in every reachable
\* board (AttemptMatchesItem): the code checks it in validate_current_attempt_relation
\* whenever it reads the two rows.
LEMMA NextMatches ==
  ASSUME TypeOK, AttemptMatchesItem, [Next]_vars
  PROVE  AttemptMatchesItem'
BY StepFits DEF AttemptMatchesItem, Fits

\* Every reachable board passes the check of validate_current_attempt_relation: no
\* transition moves an item without its attempt or the attempt without the item.
THEOREM Matching == Spec => []AttemptMatchesItem
<1>1. Init => AttemptMatchesItem
  BY DEF Init, AttemptMatchesItem, AllowedAttemptStates, NoAttempt
<1> QED BY <1>1, Typed, NextMatches, PTL DEF Spec

-----------------------------------------------------------------------------
\* A revision that passes the search of introduces_dependency_cycle keeps the graph
\* acyclic.  The search ends with a set S that holds the new prerequisites, is closed
\* under prerequisites and lacks the item.  In any set T of items, look for one that waits
\* for none of T among T \cap S when that is not empty: the old graph has one there, and
\* its prerequisites stay in S.  When it is empty, the revised item itself will do.
LEMMA ReviseAcyclic ==
  ASSUME TypeOK, Acyclic, NEW i \in Items, NEW new \in SUBSET Dependency,
         ~ IntroducesCycle(i, new),
         definition' = [definition EXCEPT ![i] = [rev |-> @.rev + 1, deps |-> new]]
  PROVE  Acyclic'
<1>1. PICK S \in SUBSET (Items \ {i}):
        /\ Prerequisites(new) \subseteq S
        /\ \A j \in S: Prerequisites(definition[j].deps) \subseteq S
  BY DEF IntroducesCycle, Closed
<1>2. /\ definition'[i].deps = new
      /\ \A j \in Items \ {i}: definition'[j] = definition[j]
  BY DEF TypeOK
<1> SUFFICES ASSUME NEW T \in SUBSET Items, T # {}
             PROVE  \E j \in T: Prerequisites(definition'[j].deps) \cap T = {}
  BY DEF Acyclic, Prerequisites
<1>3. CASE i \notin T
  <2>1. PICK j \in T: Prerequisites(definition[j].deps) \cap T = {}
    BY DEF Acyclic
  <2>2. j \in Items \ {i} /\ definition'[j] = definition[j]
    BY <1>2, <1>3
  <2> QED BY <2>1, <2>2
<1>4. CASE T \cap S # {}
  <2>1. PICK j \in T \cap S: Prerequisites(definition[j].deps) \cap (T \cap S) = {}
    BY <1>4 DEF Acyclic
  <2>2. Prerequisites(definition[j].deps) \cap T = {}
    BY <1>1, <2>1
  <2>3. j \in Items \ {i} /\ definition'[j] = definition[j]
    BY <1>1, <1>2
  <2> QED BY <2>2, <2>3
<1>5. CASE i \in T /\ T \cap S = {}
  BY <1>1, <1>2, <1>5
<1> QED BY <1>3, <1>4, <1>5

LEMMA NextAcyclic ==
  ASSUME TypeOK, Acyclic, [Next]_vars
  PROVE  Acyclic'
<1>1. ASSUME UNCHANGED definition
      PROVE  Acyclic'
  BY <1>1 DEF Acyclic, Prerequisites
<1>2. ASSUME NEW r \in Readings, ItemDecisionsNext(r)
      PROVE  Acyclic'
  <2>1. ASSUME NEW new \in SUBSET Dependency, Revise(r, new)
        PROVE  Acyclic'
    BY <2>1, ReviseAcyclic, ReadingTyped DEF Revise
  <2>2. CASE ~ \E new \in SUBSET Dependency: Revise(r, new)
    BY <1>1, <1>2, <2>2 DEF ItemDecisionsNext, MoveUnstarted, ResumeItem, BlockItem, Defer,
       Reopen, CloseDone, CloseSuperseded, RecordReplacement, RetainTemporarily, Cancel
  <2> QED BY <2>1, <2>2
<1>3. ASSUME NEW r \in Readings, PreparationNext(r) \/ AttemptAuthorityNext(r)
      PROVE  UNCHANGED definition
  BY <1>3 DEF PreparationNext, StartPreparation, RenewPreparation, ReleasePreparation,
     RevokePreparation, Activate, AttemptAuthorityNext, AcquireAttempt, RenewAttempt,
     ReleaseAttempt, RevokeAttempt
<1>4. ASSUME NEW r \in Readings, AttemptLifecycleNext(r)
      PROVE  UNCHANGED definition
  BY <1>4 DEF AttemptLifecycleNext, Pause, BlockAttempt, ResumeAttempt, RebindAttempt,
     SubmitReview, ReturnForCorrection, AcceptCheckpoint, AcceptReviewAndContinue, Complete
<1>5. ASSUME Tick \/ (\E i \in Items: Read(i)) \/ (\E r \in readings: Forget(r))
             \/ UNCHANGED vars
      PROVE  UNCHANGED definition
  BY <1>5 DEF Tick, Read, Forget, ledger, vars
<1> QED BY <1>1, <1>2, <1>3, <1>4, <1>5 DEF Next

\* No sequence of revisions, requested by agents that each saw an acyclic graph, makes a
\* group of items wait for one another (Acyclic; introduces_dependency_cycle).
THEOREM NoCycles == Spec => []Acyclic
<1>1. Init => Acyclic
  BY DEF Init
<1> QED BY <1>1, Typed, NextAcyclic, PTL DEF Spec
-----------------------------------------------------------------------------
\* A live claim stays exact when neither it nor what it names changes and no time passes back.
LEMMA ExactStays ==
  ASSUME LiveClaimIsExact, NEW j \in Items, PreparationLive(j)',
         preparationLease'[j] = preparationLease[j], clock \in Nat, clock' \in Nat,
         preparationLease[j].expires \in Nat, clock' >= clock,
         item'[j].state = item[j].state, definition'[j] = definition[j]
  PROVE  ClaimExact(j)'
<1>1. PreparationLive(j)
  BY DEF PreparationLive, Live
<1> QED BY <1>1 DEF LiveClaimIsExact, ClaimExact

\* A step about one item alone leaves the claims on the others exact.
LEMMA OthersExact ==
  ASSUME TypeOK, LiveClaimIsExact, NEW i \in Items, clock' = clock,
         \A j \in Items \ {i}: /\ preparationLease'[j] = preparationLease[j]
                               /\ item'[j].state = item[j].state
                               /\ definition'[j] = definition[j],
         PreparationLive(i)' => ClaimExact(i)'
  PROVE  LiveClaimIsExact'
<1> SUFFICES ASSUME NEW j \in Items, PreparationLive(j)'
             PROVE  ClaimExact(j)'
  BY DEF LiveClaimIsExact, PreparationLive, ClaimExact
<1>1. clock \in Nat /\ preparationLease[j].expires \in Nat
  BY DEF TypeOK, PreparationLease
<1> QED BY <1>1, ExactStays

\* Project actions that take an item out of ready, or revise it, are not offered on a claim.
LEMMA OffersRespectClaims ==
  ASSUME TypeOK, AttemptMatchesItem, LiveClaimIsExact, NEW i \in Items, PreparationLive(i)
  PROVE  /\ item[i].state = "ready" /\ ~ HasAttempt(i)
         /\ Offers(i) \cap {"revise-item", "block-item", "defer", "reopen", "close", "resume"} = {}
<1>1. item[i].state = "ready"
  BY DEF LiveClaimIsExact, ClaimExact
<1>2. ~ HasAttempt(i)
  BY <1>1 DEF AttemptMatchesItem, AllowedAttemptStates, HasAttempt, OpenAttemptStates
<1> QED
  BY <1>1, <1>2 DEF Offers, WorkerOffers, PreparerOffers, ProjectOffers

LEMMA PreparationKeepsExact ==
  ASSUME TypeOK, LiveClaimIsExact, NEW r \in Readings, PreparationNext(r)
  PROVE  LiveClaimIsExact'
<1> DEFINE i == r.subject
<1>1. /\ i \in Items /\ r.at \in 0 .. clock /\ r.at \in Nat /\ clock \in Nat
      /\ preparationLease[i] \in PreparationLease
      /\ preparationLease[i].generation + 1 \in Nat
  BY ReadingTyped DEF TypeOK, PreparationLease
<1>2. \A t \in RequestTimes(r): t \in Nat
  BY <1>1 DEF RequestTimes
<1>3. ASSUME NEW t \in RequestTimes(r), NEW task \in Tasks, StartPreparation(r, t, task)
      PROVE  LiveClaimIsExact'
  <2>1. preparationLease'[i].pin = definition[i].rev
    BY <1>1, <1>3 DEF StartPreparation, TypeOK, Granted, PreparationLease
  <2>2. ClaimExact(i)'
    BY <1>3, <2>1 DEF StartPreparation, ClaimExact
  <2> QED BY <1>1, <1>3, <2>2, OthersExact DEF StartPreparation, Commit, TypeOK
<1>4. ASSUME NEW t \in RequestTimes(r), RenewPreparation(r, t)
      PROVE  LiveClaimIsExact'
  \* The row expires after the request's time, at which it is read back.
  <2>1. /\ preparationLease'[i].status = "active"
        /\ preparationLease'[i].expires = t + LeaseTime
        /\ project'.updatedAt = t
    BY <1>1, <1>4 DEF RenewPreparation, PreparerMay, HolderMay, Live, Renewed, TypeOK,
       PreparationLease, Commit
  <2>2. ClaimExact(i)'
    BY <1>2, <1>4, <2>1, LeaseTimeAssumption DEF RenewPreparation, ClaimReadable, Live
  <2> QED BY <1>1, <1>4, <2>2, OthersExact DEF RenewPreparation, Commit, TypeOK
<1>5. ASSUME NEW t \in Nat, NEW s \in {"released", "revoked"},
             preparationLease' = [preparationLease EXCEPT ![i] = Ended(@, s, t)]
      PROVE  ~ PreparationLive(i)'
  <2>1. preparationLease'[i].status = s
    BY <1>1, <1>5 DEF TypeOK, Ended, PreparationLease
  <2> QED BY <2>1 DEF PreparationLive, Live
<1>6. ASSUME NEW t \in RequestTimes(r), ReleasePreparation(r, t) \/ RevokePreparation(r, t)
      PROVE  LiveClaimIsExact'
  <2>1. ~ PreparationLive(i)'
    BY <1>2, <1>5, <1>6 DEF ReleasePreparation, RevokePreparation
  <2> QED
    BY <1>1, <1>6, <2>1, OthersExact DEF ReleasePreparation, RevokePreparation, Commit, TypeOK
<1>7. ASSUME Activate(r)
      PROVE  LiveClaimIsExact'
  <2>1. ~ PreparationLive(i)'
    BY <1>1, <1>5, <1>7 DEF Activate
  <2>2. \A j \in Items \ {i}: item'[j].state = item[j].state
    BY <1>1, <1>7, SetItemStateEffect DEF Activate
  <2> QED BY <1>1, <1>7, <2>1, <2>2, OthersExact DEF Activate, Commit, TypeOK
<1> QED BY <1>3, <1>4, <1>6, <1>7 DEF PreparationNext

LEMMA AttemptLifecycleKeepsExact ==
  ASSUME TypeOK, AttemptMatchesItem, LiveClaimIsExact, NEW r \in Readings,
         AttemptLifecycleNext(r)
  PROVE  LiveClaimIsExact'
<1> DEFINE i == r.subject
<1>1. i \in Items /\ attempt[i].state \in AllowedAttemptStates(item[i].state)
  BY ReadingTyped DEF AttemptMatchesItem
\* The item has an attempt, so it is not ready and no claim on it is live.
<1>2. /\ clock' = clock /\ UNCHANGED <<definition, preparationLease>>
      /\ item[i].state \in {"active", "paused", "blocked", "review"}
      /\ \/ item' = item
         \/ \E s \in {"active", "paused", "blocked", "review", "done"}: SetItemState(i, s)
  BY DEF AttemptLifecycleNext, Pause, BlockAttempt, ResumeAttempt, RebindAttempt,
     SubmitReview, ReturnForCorrection, AcceptCheckpoint, AcceptReviewAndContinue, Complete,
     Reviewed, Commit
<1>3. ~ PreparationLive(i)'
  BY <1>1, <1>2 DEF LiveClaimIsExact, ClaimExact, PreparationLive
<1>4. \A j \in Items \ {i}: item'[j].state = item[j].state
  BY <1>1, <1>2, SetItemStateEffect
<1> QED BY <1>1, <1>2, <1>3, <1>4, OthersExact

LEMMA ItemDecisionsKeepExact ==
  ASSUME TypeOK, AttemptMatchesItem, LiveClaimIsExact, NEW r \in Readings,
         ItemDecisionsNext(r)
  PROVE  LiveClaimIsExact'
<1> DEFINE i == r.subject
<1>1. /\ i \in Items /\ preparationLease[i] \in PreparationLease
      /\ preparationLease[i].generation + 1 \in Nat /\ r.at \in 0 .. clock /\ clock \in Nat
  BY ReadingTyped DEF TypeOK, PreparationLease
<1>2. ASSUME NEW kind \in {"block-item", "defer", "reopen", "close", "resume"},
             NEW s, Selected(r, kind), SetItemState(i, s), clock' = clock,
             UNCHANGED <<definition, preparationLease>>
      PROVE  LiveClaimIsExact'
  <2>1. ~ PreparationLive(i)
    BY <1>1, <1>2, OffersRespectClaims DEF Selected
  <2>2. ~ PreparationLive(i)'
    BY <1>2, <2>1 DEF PreparationLive
  <2> QED BY <1>1, <1>2, <2>2, SetItemStateEffect, OthersExact
<1>3. ASSUME \/ ResumeItem(r) \/ BlockItem(r) \/ Defer(r) \/ Reopen(r) \/ CloseDone(r)
             \/ CloseSuperseded(r)
      PROVE  LiveClaimIsExact'
  BY <1>2, <1>3 DEF ResumeItem, BlockItem, Defer, Reopen, CloseDone, CloseSuperseded,
     MoveUnstarted, Commit
<1>4. ASSUME NEW new \in SUBSET Dependency, Revise(r, new)
      PROVE  LiveClaimIsExact'
  <2>1. ~ PreparationLive(i)
    BY <1>1, <1>4, OffersRespectClaims DEF Revise, Selected
  <2>2. ~ PreparationLive(i)'
    BY <1>4, <2>1 DEF Revise, Commit, PreparationLive
  <2>3. /\ \A j \in Items: item'[j].state = item[j].state
        /\ \A j \in Items \ {i}: definition'[j] = definition[j]
    BY <1>1, <1>4, AdvanceItemEffect DEF Revise, TypeOK
  <2> QED BY <1>1, <1>4, <2>2, <2>3, OthersExact DEF Revise, Commit
<1>5. ASSUME \/ RetainTemporarily(r)
             \/ \E by \in Items, status \in {"current", "withdrawn"}:
                  RecordReplacement(r, by, status)
      PROVE  LiveClaimIsExact'
  <2>1. AdvanceItem(i) /\ UNCHANGED <<clock, definition, preparationLease>>
    BY <1>5 DEF RetainTemporarily, RecordReplacement, Commit
  <2>2. \A j \in Items: item'[j].state = item[j].state
    BY <1>1, <2>1, AdvanceItemEffect
  <2>3. PreparationLive(i)' => ClaimExact(i)'
    BY <1>1, <2>1, <2>2 DEF PreparationLive, ClaimExact, LiveClaimIsExact
  <2> QED BY <1>1, <2>1, <2>2, <2>3, OthersExact
<1>6. ASSUME NEW t \in RequestTimes(r), Cancel(r, t)
      PROVE  LiveClaimIsExact'
  <2>1. preparationLease'[i].status # "active"
    BY <1>1, <1>6 DEF Cancel, TypeOK, Ended, Recorded, PreparationLease
  <2>2. \A j \in Items \ {i}: item'[j].state = item[j].state
    BY <1>1, <1>6, SetItemStateEffect DEF Cancel
  <2>3. ~ PreparationLive(i)'
    BY <2>1 DEF PreparationLive, Live
  <2> QED BY <1>1, <1>6, <2>2, <2>3, OthersExact DEF Cancel, Commit, TypeOK
<1> QED BY <1>3, <1>4, <1>5, <1>6 DEF ItemDecisionsNext

LEMMA NextKeepsExact ==
  ASSUME TypeOK, AttemptMatchesItem, LiveClaimIsExact, [Next]_vars
  PROVE  LiveClaimIsExact'
<1>1. ASSUME UNCHANGED <<item, definition, preparationLease>>, clock' \in {clock, clock + 1}
      PROVE  LiveClaimIsExact'
  <2> SUFFICES ASSUME NEW j \in Items, PreparationLive(j)'
               PROVE  ClaimExact(j)'
    BY DEF LiveClaimIsExact, PreparationLive, ClaimExact
  <2>1. clock \in Nat /\ preparationLease[j].expires \in Nat
    BY DEF TypeOK, PreparationLease
  <2> QED BY <1>1, <2>1, ExactStays
<1>2. ASSUME Tick \/ (\E i \in Items: Read(i)) \/ (\E r \in readings: Forget(r))
             \/ UNCHANGED vars
      PROVE  LiveClaimIsExact'
  BY <1>1, <1>2 DEF Tick, Read, Forget, ledger, vars
<1>3. ASSUME NEW r \in Readings, AttemptAuthorityNext(r)
      PROVE  LiveClaimIsExact'
  BY <1>1, <1>3 DEF AttemptAuthorityNext, AcquireAttempt, RenewAttempt, ReleaseAttempt,
     RevokeAttempt, Commit
<1> QED
  BY <1>2, <1>3, PreparationKeepsExact, AttemptLifecycleKeepsExact, ItemDecisionsKeepExact
     DEF Next

\* Whoever holds a live claim prepares a ready item at its current definition
\* (LiveClaimIsExact): nothing the project may do meanwhile, and no renewal that arrives
\* after the claim lapsed, breaks the check of read_preparation_authority_status.
\* The invariant is inductive together with TypeOK and AttemptMatchesItem.
THEOREM ExactClaims == Spec => []LiveClaimIsExact
<1>1. Init => LiveClaimIsExact
  BY DEF Init, LiveClaimIsExact, PreparationLive, Live, NoPreparation
<1> QED BY <1>1, Typed, Matching, NextKeepsExact, PTL DEF Spec

-----------------------------------------------------------------------------
\* What the three invariants about decisions, candidates and scopes say of one item.
Answered(i) == attempt[i].undecided => attempt[i].state \notin {"active", "review"}

Protected(i) ==
  /\ attempt[i].state = "review" => attempt[i].candidate # NoCandidate
  /\ attempt[i].candidate # NoCandidate => attempt[i].state \in {"review", "done"}

AtScope(i) ==
  item[i].state = "done" /\ attempt[i].state = "done" =>
    /\ attempt[i].scope = definition[i].rev
    /\ attempt[i].candidate # NoCandidate
    /\ ~ UnresolvedReplacement(i)

\* An active worker lease is a lease on work that has not ended.
LeaseOnOpen(i) == attemptLease[i].status = "active" => HasAttempt(i)

Sound(i) == Answered(i) /\ Protected(i) /\ AtScope(i) /\ LeaseOnOpen(i)
AllSound == \A i \in Items: Sound(i)

LEMMA AllSoundMeans ==
  AllSound => WorkingMeansNoOpenDecisions /\ CandidateOnlyUnderReview /\ DoneAtAcceptedScope
BY DEF AllSound, Sound, Answered, Protected, AtScope, WorkingMeansNoOpenDecisions,
       CandidateOnlyUnderReview, DoneAtAcceptedScope

\* An item none of whose rows change stays sound.
LEMMA SoundStays ==
  ASSUME NEW j \in Items, Sound(j), item'[j].state = item[j].state,
         definition'[j] = definition[j], attempt'[j] = attempt[j],
         attemptLease'[j] = attemptLease[j], replacement'[j] = replacement[j]
  PROVE  Sound(j)'
BY DEF Sound, Answered, Protected, AtScope, LeaseOnOpen, UnresolvedReplacement, HasAttempt

\* A step about item i leaves the others sound.
LEMMA OneChanges ==
  ASSUME AllSound, NEW i \in Items, Sound(i)',
         \A j \in Items \ {i}:
           /\ item'[j].state = item[j].state /\ definition'[j] = definition[j]
           /\ attempt'[j] = attempt[j] /\ attemptLease'[j] = attemptLease[j]
           /\ replacement'[j] = replacement[j]
  PROVE  AllSound'
<1> SUFFICES ASSUME NEW j \in Items
             PROVE  Sound(j)'
  BY DEF AllSound
<1>1. CASE j = i
  BY <1>1
<1>2. CASE j # i
  BY <1>2, SoundStays DEF AllSound
<1> QED BY <1>1, <1>2

\* Ending a lease leaves no active one.
LEMMA FenceEffect ==
  ASSUME TypeOK, NEW i \in Items, NEW t,
         FenceAttempt(i, t) \/ FenceRetainedAttempt(i, t)
  PROVE  /\ attemptLease'[i].status = "active" => attemptLease[i].status = "active"
         /\ FenceRetainedAttempt(i, t) => attemptLease'[i].status # "active"
         /\ FenceAttempt(i, t) => attemptLease'[i].status # "active"
         /\ \A j \in Items \ {i}: attemptLease'[j] = attemptLease[j]
<1>1. attemptLease[i] \in Lease /\ attemptLease \in [Items -> Lease]
  BY DEF TypeOK
<1> QED BY <1>1 DEF FenceAttempt, FenceRetainedAttempt, Ended, Recorded, Lease

\* Project actions on definitions and replacements are offered on live items only.
LEMMA RevisionsOfLiveItems ==
  ASSUME NEW i \in Items, NEW kind \in {"revise-item", "record-replacement", "retain-temporarily"},
         kind \in Offers(i)
  PROVE  item[i].state \notin TerminalStates
BY DEF Offers, WorkerOffers, PreparerOffers, ProjectOffers

LEMMA PreparationSound ==
  ASSUME TypeOK, AllSound, NEW r \in Readings, PreparationNext(r)
  PROVE  AllSound'
<1> DEFINE i == r.subject
<1>1. i \in Items
  BY ReadingTyped
<1>2. CASE Activate(r)
  <2>1. /\ item'[i].state = "active"
        /\ \A j \in Items \ {i}: item'[j] = item[j]
    BY <1>1, <1>2, SetItemStateEffect DEF Activate
  <2>2. /\ attempt'[i].state = "active" /\ attempt'[i].undecided = FALSE
        /\ attempt'[i].candidate = NoCandidate
        /\ \A j \in Items \ {i}: attempt'[j] = attempt[j]
    BY <1>1, <1>2 DEF Activate, TypeOK, NoAttempt
  <2>3. Sound(i)'
    BY <2>1, <2>2 DEF Sound, Answered, Protected, AtScope, LeaseOnOpen, HasAttempt,
       OpenAttemptStates
  <2> QED BY <1>1, <1>2, <2>1, <2>2, <2>3, OneChanges DEF Activate
<1>3. CASE ~ Activate(r)
  <2>1. UNCHANGED <<item, definition, attempt, attemptLease, replacement>>
    BY <1>3 DEF PreparationNext, StartPreparation, RenewPreparation, ReleasePreparation,
                RevokePreparation
  <2> QED BY <2>1, SoundStays DEF AllSound
<1> QED BY <1>2, <1>3

LEMMA AttemptAuthoritySound ==
  ASSUME TypeOK, AllSound, NEW r \in Readings, AttemptAuthorityNext(r)
  PROVE  AllSound'
<1> DEFINE i == r.subject
<1>1. /\ i \in Items /\ attemptLease[i] \in Lease /\ attemptLease \in [Items -> Lease]
      /\ Sound(i)
  BY ReadingTyped DEF TypeOK, AllSound
<1>2. UNCHANGED <<item, definition, attempt, replacement>>
  BY DEF AttemptAuthorityNext, AcquireAttempt, RenewAttempt, ReleaseAttempt, RevokeAttempt
<1>3. /\ \A j \in Items \ {i}: attemptLease'[j] = attemptLease[j]
      /\ attemptLease'[i].status = "active" => HasAttempt(i)
  <2>1. ASSUME NEW t, NEW task \in Tasks, AcquireAttempt(r, t, task)
        PROVE  <1>3!:
    BY <1>1, <2>1 DEF AcquireAttempt, HasAttempt, OpenAttemptStates
  <2>2. ASSUME NEW t, RenewAttempt(r, t)
        PROVE  <1>3!:
    BY <1>1, <2>2 DEF RenewAttempt, HolderMay, Live, Sound, LeaseOnOpen
  <2>3. ASSUME NEW t, ReleaseAttempt(r, t) \/ RevokeAttempt(r, t)
        PROVE  <1>3!:
    <3>1. PICK status \in {"released", "revoked"}:
            attemptLease' = [attemptLease EXCEPT ![i] = Ended(attemptLease[i], status, t)]
      BY <2>3 DEF ReleaseAttempt, RevokeAttempt
    <3>2. Ended(attemptLease[i], status, t).status = status
      BY <1>1 DEF Ended, Lease
    <3> QED BY <1>1, <3>1, <3>2
  <2> QED BY <2>1, <2>2, <2>3 DEF AttemptAuthorityNext
<1>4. Sound(i)'
  BY <1>1, <1>2, <1>3 DEF Sound, Answered, Protected, AtScope, LeaseOnOpen, HasAttempt,
     UnresolvedReplacement
<1> QED BY <1>1, <1>2, <1>3, <1>4, OneChanges

LEMMA AttemptLifecycleSound ==
  ASSUME TypeOK, AllSound, NEW r \in Readings, AttemptLifecycleNext(r)
  PROVE  AllSound'
<1> DEFINE i == r.subject
           Others == \A j \in Items \ {i}:
             /\ item'[j].state = item[j].state
             /\ attempt'[j] = attempt[j] /\ attemptLease'[j] = attemptLease[j]
<1>1. /\ i \in Items /\ attempt[i] \in Attempt /\ attempt \in [Items -> Attempt]
      /\ Sound(i)
  BY ReadingTyped DEF TypeOK, AllSound
<1>2. definition' = definition /\ replacement' = replacement
  BY DEF AttemptLifecycleNext, Pause, BlockAttempt, ResumeAttempt, RebindAttempt,
     SubmitReview, ReturnForCorrection, AcceptCheckpoint, AcceptReviewAndContinue, Complete
<1> SUFFICES Sound(i)' /\ Others
  BY <1>1, <1>2, OneChanges
\* Work that goes on, or rests, without a candidate and with its decisions made.
<1>3. ASSUME NEW s \in {"active", "paused", "blocked"}, SetItemState(i, s),
             /\ attempt'[i].state = s /\ attempt'[i].candidate = NoCandidate
             /\ s = "active" => attempt'[i].undecided = FALSE
             /\ \A j \in Items \ {i}: attempt'[j] = attempt[j],
             /\ attemptLease'[i].status = "active" => attemptLease[i].status = "active"
             /\ \A j \in Items \ {i}: attemptLease'[j] = attemptLease[j]
      PROVE  Sound(i)' /\ Others
  <2>1. item'[i].state = s /\ \A j \in Items \ {i}: item'[j] = item[j]
    BY <1>1, <1>3, SetItemStateEffect
  <2> QED
    BY <1>3, <2>1 DEF Sound, Answered, Protected, AtScope, LeaseOnOpen, HasAttempt,
       OpenAttemptStates
\* What SetAttemptState leaves of the row that is not in review any more.
<1>4. ASSUME NEW s, SetAttemptState(i, s)
      PROVE  /\ attempt'[i].state = s /\ attempt'[i].undecided = attempt[i].undecided
             /\ attempt'[i].scope = attempt[i].scope
             /\ attempt'[i].candidate = IF s = "done" THEN attempt[i].candidate ELSE NoCandidate
             /\ \A j \in Items \ {i}: attempt'[j] = attempt[j]
  BY <1>1, <1>4 DEF SetAttemptState, Attempt
<1>5. attempt[i].state \in {"active", "review"} => attempt[i].undecided = FALSE
  BY <1>1 DEF Sound, Answered, Attempt
<1>6. ASSUME NEW undecided \in BOOLEAN, Pause(r, undecided)
      PROVE  Sound(i)' /\ Others
  <2>1. /\ attempt'[i].state = "paused" /\ attempt'[i].candidate = NoCandidate
        /\ \A j \in Items \ {i}: attempt'[j] = attempt[j]
    BY <1>1, <1>6 DEF Pause, Attempt
  <2> QED BY <1>3, <1>6, <2>1 DEF Pause
<1>7. ASSUME BlockAttempt(r)
      PROVE  Sound(i)' /\ Others
  BY <1>3, <1>4, <1>7 DEF BlockAttempt
<1>8. ASSUME NEW answered \in BOOLEAN, NEW revised \in BOOLEAN,
             ResumeAttempt(r, answered, revised)
      PROVE  Sound(i)' /\ Others
  <2>1. /\ attempt'[i].state = "active" /\ attempt'[i].candidate = NoCandidate
        /\ attempt'[i].undecided = FALSE
        /\ \A j \in Items \ {i}: attempt'[j] = attempt[j]
    BY <1>1, <1>8 DEF ResumeAttempt, Attempt
  <2> QED BY <1>3, <1>8, <2>1 DEF ResumeAttempt
<1>9. ASSUME RebindAttempt(r)
      PROVE  Sound(i)' /\ Others
  <2>1. /\ attempt'[i].state = attempt[i].state /\ attempt'[i].candidate = attempt[i].candidate
        /\ attempt'[i].undecided = attempt[i].undecided
        /\ \A j \in Items \ {i}: attempt'[j] = attempt[j]
    BY <1>1, <1>9 DEF RebindAttempt, Attempt
  <2>2. item' = item /\ item[i].state # "done" /\ FenceAttempt(i, r.at)
    BY <1>9 DEF RebindAttempt
  <2>3. /\ attemptLease'[i].status # "active"
        /\ \A j \in Items \ {i}: attemptLease'[j] = attemptLease[j]
    BY <1>1, <2>2, FenceEffect
  <2> QED BY <1>1, <2>1, <2>2, <2>3 DEF Sound, Answered, Protected, AtScope, LeaseOnOpen
<1>10. ASSUME NEW candidate \in Candidates, SubmitReview(r, candidate)
       PROVE  Sound(i)' /\ Others
  <2>1. /\ attempt'[i].state = "review" /\ attempt'[i].candidate = candidate
        /\ attempt'[i].undecided = FALSE
        /\ \A j \in Items \ {i}: attempt'[j] = attempt[j]
    BY <1>1, <1>5, <1>10 DEF SubmitReview, Attempt
  <2>2. /\ item'[i].state = "review" /\ attemptLease' = attemptLease
        /\ \A j \in Items \ {i}: item'[j] = item[j]
    BY <1>1, <1>10, SetItemStateEffect DEF SubmitReview
  <2> QED
    BY <1>1, <2>1, <2>2, CandidatesAssumption DEF Sound, Answered, Protected, AtScope,
       LeaseOnOpen, HasAttempt, OpenAttemptStates
<1>11. ASSUME \/ ReturnForCorrection(r) \/ AcceptReviewAndContinue(r)
              \/ \E checkpoint \in Checkpoints: AcceptCheckpoint(r, checkpoint)
       PROVE  Sound(i)' /\ Others
  <2>1. PICK s \in {"active", "paused"}:
          SetItemState(i, s) /\ SetAttemptState(i, s) /\ FenceAttempt(i, r.at)
    BY <1>11 DEF ReturnForCorrection, AcceptReviewAndContinue, AcceptCheckpoint
  <2>2. attempt[i].undecided = FALSE
    BY <1>5, <1>11 DEF ReturnForCorrection, AcceptReviewAndContinue, AcceptCheckpoint, Reviewed
  <2>3. /\ attemptLease'[i].status = "active" => attemptLease[i].status = "active"
        /\ \A j \in Items \ {i}: attemptLease'[j] = attemptLease[j]
    BY <1>1, <2>1, FenceEffect
  <2> QED BY <1>3, <1>4, <2>1, <2>2, <2>3
<1>12. ASSUME Complete(r)
       PROVE  Sound(i)' /\ Others
  <2>1. /\ SetAttemptState(i, "done") /\ SetItemState(i, "done")
        /\ FenceRetainedAttempt(i, r.at)
        /\ attempt[i].state = "review" /\ ~ DefinitionStale(i) /\ ~ UnresolvedReplacement(i)
    BY <1>12 DEF Complete, Reviewed, AcceptedCandidate
  <2>2. attempt[i].scope = definition[i].rev /\ attempt[i].candidate # NoCandidate
    BY <1>1, <2>1 DEF DefinitionStale, HasAttempt, OpenAttemptStates, Sound, Protected
  <2>3. \A j \in Items \ {i}: item'[j] = item[j]
    BY <1>1, <2>1, SetItemStateEffect
  <2>4. /\ attemptLease'[i].status # "active"
        /\ \A j \in Items \ {i}: attemptLease'[j] = attemptLease[j]
    BY <1>1, <2>1, FenceEffect
  <2> QED
    BY <1>2, <1>4, <2>1, <2>2, <2>3, <2>4 DEF Sound, Answered, Protected, AtScope, LeaseOnOpen,
       UnresolvedReplacement
<1> QED
  BY <1>6, <1>7, <1>8, <1>9, <1>10, <1>11, <1>12 DEF AttemptLifecycleNext

LEMMA ItemDecisionsSound ==
  ASSUME TypeOK, AttemptMatchesItem, AllSound, NEW r \in Readings, ItemDecisionsNext(r)
  PROVE  AllSound'
<1> DEFINE i == r.subject
<1>1. /\ i \in Items /\ attempt[i] \in Attempt /\ attempt \in [Items -> Attempt]
      /\ attempt[i].state \in AllowedAttemptStates(item[i].state)
      /\ Sound(i)
  BY ReadingTyped DEF TypeOK, AllSound, AttemptMatchesItem
\* An unstarted item has nothing to be sound about.
<1>2. ASSUME NEW kind, NEW from \in SUBSET {"ready", "paused", "blocked", "deferred"},
             NEW to \in {"ready", "blocked", "deferred", "done"},
             MoveUnstarted(r, kind, from, to)
      PROVE  AllSound'
  <2>1. item'[i].state = to /\ \A j \in Items \ {i}: item'[j] = item[j]
    BY <1>1, <1>2, SetItemStateEffect DEF MoveUnstarted
  <2>2. /\ UNCHANGED <<definition, attempt, attemptLease, replacement>>
        /\ attempt[i].state = "none"
    BY <1>1, <1>2 DEF MoveUnstarted, HasAttempt, OpenAttemptStates, AllowedAttemptStates
  <2>3. Sound(i)'
    BY <1>1, <2>1, <2>2 DEF Sound, Answered, Protected, AtScope, LeaseOnOpen, HasAttempt,
       UnresolvedReplacement
  <2> QED BY <1>1, <2>1, <2>2, <2>3, OneChanges
<1>3. ASSUME ResumeItem(r) \/ BlockItem(r) \/ Defer(r) \/ Reopen(r) \/ CloseDone(r)
      PROVE  AllSound'
  BY <1>2, <1>3 DEF ResumeItem, BlockItem, Defer, Reopen, CloseDone
\* Ending an item ends its attempt and its worker's lease.
<1>4. ASSUME NEW s \in {"superseded", "dropped"}, NEW t, SetItemState(i, s),
             IF HasAttempt(i)
             THEN SetAttemptState(i, "done") /\ FenceRetainedAttempt(i, t)
             ELSE UNCHANGED <<attempt, attemptLease>>,
             UNCHANGED <<definition, replacement>>
      PROVE  AllSound'
  <2>1. item'[i].state = s /\ \A j \in Items \ {i}: item'[j] = item[j]
    BY <1>1, <1>4, SetItemStateEffect
  <2>2. CASE HasAttempt(i)
    <3>1. /\ attempt'[i].state = "done"
          /\ \A j \in Items \ {i}: attempt'[j] = attempt[j]
      BY <1>1, <1>4, <2>2, SetAttemptStateEffect
    <3>2. /\ attemptLease'[i].status # "active"
          /\ \A j \in Items \ {i}: attemptLease'[j] = attemptLease[j]
      BY <1>1, <1>4, <2>2, FenceEffect
    <3>3. Sound(i)'
      BY <2>1, <3>1, <3>2 DEF Sound, Answered, Protected, AtScope, LeaseOnOpen
    <3> QED BY <1>1, <1>4, <2>1, <3>1, <3>2, <3>3, OneChanges
  <2>3. CASE ~ HasAttempt(i)
    <3>1. Sound(i)'
      BY <1>1, <1>4, <2>1, <2>3 DEF Sound, Answered, Protected, AtScope, LeaseOnOpen,
         HasAttempt
    <3> QED BY <1>1, <1>4, <2>1, <2>3, <3>1, OneChanges
  <2> QED BY <2>2, <2>3
<1>5. ASSUME CloseSuperseded(r) \/ \E t \in RequestTimes(r): Cancel(r, t)
      PROVE  AllSound'
  <2>1. CASE CloseSuperseded(r)
    <3>1. IF HasAttempt(i)
          THEN SetAttemptState(i, "done") /\ FenceRetainedAttempt(i, r.at)
          ELSE UNCHANGED <<attempt, attemptLease>>
      BY <2>1 DEF CloseSuperseded
    <3> QED BY <1>4, <2>1, <3>1 DEF CloseSuperseded
  <2>2. ASSUME NEW t, Cancel(r, t)
        PROVE  AllSound'
    BY <1>4, <2>2 DEF Cancel
  <2> QED BY <1>5, <2>1, <2>2
\* A live item may change its definition or its replacement: nothing is claimed of it yet.
<1>6. ASSUME \/ \E new \in SUBSET Dependency: Revise(r, new)
             \/ \E by \in Items, status \in {"current", "withdrawn"}:
                  RecordReplacement(r, by, status)
             \/ RetainTemporarily(r)
      PROVE  AllSound'
  <2>1. AdvanceItem(i) /\ UNCHANGED <<attempt, attemptLease>>
    BY <1>6 DEF Revise, RecordReplacement, RetainTemporarily
  <2>2. \A j \in Items: item'[j].state = item[j].state
    BY <1>1, <2>1, AdvanceItemEffect
  <2>3. item[i].state # "done"
    BY <1>1, <1>6, RevisionsOfLiveItems DEF Revise, RecordReplacement, RetainTemporarily,
       Selected, TerminalStates
  <2>4. \A j \in Items \ {i}: definition'[j] = definition[j] /\ replacement'[j] = replacement[j]
    BY <1>6 DEF Revise, RecordReplacement, RetainTemporarily, TypeOK
  <2>5. Sound(i)'
    BY <1>1, <2>1, <2>2, <2>3 DEF Sound, Answered, Protected, AtScope, LeaseOnOpen, HasAttempt
  <2> QED BY <1>1, <2>1, <2>2, <2>4, <2>5, OneChanges
<1> QED BY <1>3, <1>5, <1>6 DEF ItemDecisionsNext

LEMMA NextSound ==
  ASSUME TypeOK, AttemptMatchesItem, AllSound, [Next]_vars
  PROVE  AllSound'
<1>1. CASE Tick \/ (\E i \in Items: Read(i)) \/ (\E r \in readings: Forget(r)) \/ UNCHANGED vars
  <2>1. UNCHANGED <<item, definition, attempt, attemptLease, replacement>>
    BY <1>1 DEF Tick, Read, Forget, ledger, vars
  <2> QED BY <2>1, SoundStays DEF AllSound
<1> QED
  BY <1>1, PreparationSound, AttemptAuthoritySound, AttemptLifecycleSound,
     ItemDecisionsSound DEF Next

LEMMA AlwaysSound == Spec => []AllSound
<1>1. Init => AllSound
  BY DEF Init, AllSound, Sound, Answered, Protected, AtScope, LeaseOnOpen, NoAttempt, NoLease
<1> QED BY <1>1, Typed, Matching, NextSound, PTL DEF Spec

-----------------------------------------------------------------------------
\* Nobody works or reviews while the decisions of a pause are open, whichever way and
\* however late the attempt is resumed (_resolve_pause_decisions).
THEOREM DecisionsFirst == Spec => []WorkingMeansNoOpenDecisions
BY AlwaysSound, AllSoundMeans, PTL

\* The protected candidate is there during the review and gone after it, unless it was
\* the last one (set_attempt_state).
THEOREM CandidatesEnd == Spec => []CandidateOnlyUnderReview
BY AlwaysSound, AllSoundMeans, PTL

\* Completed work was reviewed with a candidate at the item's definition, which is the
\* last one, and no replacement was waiting (_complete).
THEOREM ReviewedAtScope == Spec => []DoneAtAcceptedScope
BY AlwaysSound, AllSoundMeans, PTL

\* What ended has a finished attempt, no worker's lease and no live claim, whatever was
\* acquired, renewed or claimed while the end was decided (superseded_attempt_closure,
\* sqlite/cancellation.persist).
THEOREM NobodyLeft == Spec => []TerminalHoldsNoAuthority
<1>1. AttemptMatchesItem /\ LiveClaimIsExact /\ AllSound => TerminalHoldsNoAuthority
  BY DEF TerminalHoldsNoAuthority, AttemptMatchesItem, AllowedAttemptStates, TerminalStates,
     LiveClaimIsExact, ClaimExact, AllSound, Sound, LeaseOnOpen, HasAttempt, OpenAttemptStates
<1> QED BY <1>1, Matching, ExactClaims, AlwaysSound, PTL

-----------------------------------------------------------------------------

\* The facts of an item that its subject revision stands for, and all that decisions made.
SameFacts(j) ==
  item'[j] = item[j] /\ definition'[j] = definition[j] /\ replacement'[j] = replacement[j]

SameDecisions(j) == SameFacts(j) /\ attempt'[j] = attempt[j] /\ accepted'[j] = accepted[j]

\* A commit about item i: every changed row carries the new revision.
Stamps(i) ==
  /\ project'.revision = NextRevision /\ readings' = readings
  /\ \A j \in Items \ {i}: SameDecisions(j)
  /\ item'[i].rev = NextRevision \/ SameFacts(i)
  /\ attempt'[i].rev = NextRevision \/ attempt'[i] = attempt[i]
  /\ accepted[i] \subseteq accepted'[i]
  /\ item[i].state \in LiveStates \/ SameDecisions(i)

LEMMA OffersOfLiveItems ==
  ASSUME TypeOK, NEW i \in Items, NEW kind \in Offers(i)
  PROVE  item[i].state \in LiveStates
<1>1. item[i].state \in LiveStates \cup TerminalStates
  BY DEF TypeOK, Item
<1>2. CASE item[i].state \in TerminalStates
  BY <1>2 DEF Offers, WorkerOffers, PreparerOffers, ProjectOffers, TerminalStates
<1> QED BY <1>1, <1>2

\* Every setter stamps the row it writes.
LEMMA SettersStamp ==
  ASSUME TypeOK, NEW i \in Items
  PROVE  /\ \A s: SetItemState(i, s) =>
              item'[i].rev = NextRevision /\ \A j \in Items \ {i}: item'[j] = item[j]
         /\ \A s: SetAttemptState(i, s) =>
              /\ attempt'[i].rev = NextRevision
              /\ \A j \in Items \ {i}: attempt'[j] = attempt[j]
         /\ AdvanceItem(i) =>
              item'[i].rev = NextRevision /\ \A j \in Items \ {i}: item'[j] = item[j]
<1>1. item \in [Items -> Item] /\ attempt \in [Items -> Attempt]
  BY DEF TypeOK
<1>2. ASSUME NEW s, SetItemState(i, s)
      PROVE  item'[i].rev = NextRevision /\ \A j \in Items \ {i}: item'[j] = item[j]
  BY <1>1, <1>2 DEF SetItemState
<1>3. ASSUME NEW s, SetAttemptState(i, s)
      PROVE  attempt'[i].rev = NextRevision /\ \A j \in Items \ {i}: attempt'[j] = attempt[j]
  BY <1>1, <1>3 DEF SetAttemptState, Attempt
<1>4. ASSUME AdvanceItem(i)
      PROVE  item'[i].rev = NextRevision /\ \A j \in Items \ {i}: item'[j] = item[j]
  BY <1>1, <1>4 DEF AdvanceItem, Item
<1> QED BY <1>2, <1>3, <1>4

\* A commit that writes an authority alone.
LEMMA AuthorityStamps ==
  ASSUME NEW i \in Items, NEW t, Commit(t),
         UNCHANGED <<item, definition, attempt, replacement, accepted>>
  PROVE  Stamps(i)
BY DEF Stamps, SameDecisions, SameFacts, Commit

LEMMA PreparationStamps ==
  ASSUME TypeOK, NEW r \in Readings, PreparationNext(r)
  PROVE  Stamps(r.subject)
<1> DEFINE i == r.subject
<1>1. i \in Items
  BY ReadingTyped
<1>2. CASE Activate(r)
  <2>1. item[i].state \in LiveStates
    BY <1>1, <1>2, OffersOfLiveItems DEF Activate, Selected
  <2>2. item'[i].rev = NextRevision /\ \A j \in Items \ {i}: item'[j] = item[j]
    BY <1>1, <1>2, SettersStamp DEF Activate
  <2>3. attempt'[i].rev = NextRevision /\ \A j \in Items \ {i}: attempt'[j] = attempt[j]
    BY <1>1, <1>2 DEF Activate, TypeOK, NoAttempt
  <2> QED BY <1>2, <2>1, <2>2, <2>3 DEF Activate, Commit, Stamps, SameDecisions, SameFacts
<1>3. CASE ~ Activate(r)
  <2>1. PICK t: Commit(t) /\ UNCHANGED <<item, definition, attempt, replacement, accepted>>
    BY <1>3 DEF PreparationNext, StartPreparation, RenewPreparation, ReleasePreparation,
       RevokePreparation
  <2> QED BY <1>1, <2>1, AuthorityStamps
<1> QED BY <1>2, <1>3

LEMMA AttemptAuthorityStamps ==
  ASSUME TypeOK, NEW r \in Readings, AttemptAuthorityNext(r)
  PROVE  Stamps(r.subject)
<1>1. PICK t: Commit(t) /\ UNCHANGED <<item, definition, attempt, replacement, accepted>>
  BY DEF AttemptAuthorityNext, AcquireAttempt, RenewAttempt, ReleaseAttempt, RevokeAttempt
<1> QED BY <1>1, ReadingTyped, AuthorityStamps

LEMMA AttemptLifecycleStamps ==
  ASSUME TypeOK, NEW r \in Readings, AttemptLifecycleNext(r)
  PROVE  Stamps(r.subject)
<1> DEFINE i == r.subject
<1>1. i \in Items /\ attempt \in [Items -> Attempt] /\ accepted \in [Items -> SUBSET Checkpoints]
  BY ReadingTyped DEF TypeOK
<1>2. /\ item[i].state \in {"active", "paused", "blocked", "review"}
      /\ Commit(r.at) /\ UNCHANGED <<definition, replacement>>
  BY DEF AttemptLifecycleNext, Pause, BlockAttempt, ResumeAttempt, RebindAttempt,
     SubmitReview, ReturnForCorrection, AcceptCheckpoint, AcceptReviewAndContinue, Complete,
     Reviewed
<1>3. \/ item' = item
      \/ item'[i].rev = NextRevision /\ \A j \in Items \ {i}: item'[j] = item[j]
  BY <1>1, SettersStamp DEF AttemptLifecycleNext, Pause, BlockAttempt, ResumeAttempt,
     RebindAttempt, SubmitReview, ReturnForCorrection, AcceptCheckpoint,
     AcceptReviewAndContinue, Complete
<1>4. attempt'[i].rev = NextRevision /\ \A j \in Items \ {i}: attempt'[j] = attempt[j]
  <2>1. ASSUME NEW undecided, Pause(r, undecided)
        PROVE  <1>4!:
    BY <1>1, <2>1 DEF Pause, Attempt
  <2>2. ASSUME NEW answered, NEW revised, ResumeAttempt(r, answered, revised)
        PROVE  <1>4!:
    BY <1>1, <2>2 DEF ResumeAttempt, Attempt
  <2>3. ASSUME RebindAttempt(r)
        PROVE  <1>4!:
    BY <1>1, <2>3 DEF RebindAttempt, Attempt
  <2>4. ASSUME NEW candidate, SubmitReview(r, candidate)
        PROVE  <1>4!:
    BY <1>1, <2>4 DEF SubmitReview, Attempt
  <2>5. ASSUME \/ BlockAttempt(r) \/ ReturnForCorrection(r) \/ AcceptReviewAndContinue(r)
               \/ Complete(r) \/ \E checkpoint \in Checkpoints: AcceptCheckpoint(r, checkpoint)
        PROVE  <1>4!:
    BY <1>1, <2>5, SettersStamp DEF BlockAttempt, ReturnForCorrection,
       AcceptReviewAndContinue, Complete, AcceptCheckpoint
  <2> QED BY <2>1, <2>2, <2>3, <2>4, <2>5 DEF AttemptLifecycleNext
<1>5. accepted[i] \subseteq accepted'[i] /\ \A j \in Items \ {i}: accepted'[j] = accepted[j]
  BY <1>1 DEF AttemptLifecycleNext, Pause, BlockAttempt, ResumeAttempt, RebindAttempt,
     SubmitReview, ReturnForCorrection, AcceptCheckpoint, AcceptReviewAndContinue, Complete
<1> QED
  BY <1>2, <1>3, <1>4, <1>5 DEF Commit, Stamps, SameDecisions, SameFacts, LiveStates

LEMMA ItemDecisionsStamp ==
  ASSUME TypeOK, NEW r \in Readings, ItemDecisionsNext(r)
  PROVE  Stamps(r.subject)
<1> DEFINE i == r.subject
<1>1. i \in Items
  BY ReadingTyped
<1>2. /\ accepted' = accepted
      /\ \E t: Commit(t)
      /\ \/ \E s: SetItemState(i, s)
         \/ AdvanceItem(i)
  BY DEF ItemDecisionsNext, ResumeItem, BlockItem, Defer, Reopen, CloseDone, MoveUnstarted,
     CloseSuperseded, Revise, RecordReplacement, RetainTemporarily, Cancel
<1>3. item[i].state \in LiveStates
  <2>1. CASE \E t \in RequestTimes(r): Cancel(r, t)
    BY <2>1 DEF Cancel
  <2>2. CASE ~ \E t \in RequestTimes(r): Cancel(r, t)
    <3>1. \E kind: Selected(r, kind)
      BY <2>2 DEF ItemDecisionsNext, ResumeItem, BlockItem, Defer, Reopen, CloseDone,
         MoveUnstarted, CloseSuperseded, Revise, RecordReplacement, RetainTemporarily
    <3> QED BY <1>1, <3>1, OffersOfLiveItems DEF Selected
  <2> QED BY <2>1, <2>2
<1>4. item'[i].rev = NextRevision /\ \A j \in Items \ {i}: item'[j] = item[j]
  BY <1>1, <1>2, SettersStamp
<1>5. \/ attempt' = attempt
      \/ attempt'[i].rev = NextRevision /\ \A j \in Items \ {i}: attempt'[j] = attempt[j]
  <2>1. attempt' = attempt \/ SetAttemptState(i, "done")
    BY DEF ItemDecisionsNext, ResumeItem, BlockItem, Defer, Reopen, CloseDone, MoveUnstarted,
       CloseSuperseded, Revise, RecordReplacement, RetainTemporarily, Cancel
  <2> QED BY <1>1, <2>1, SettersStamp
<1>6. \A j \in Items \ {i}: definition'[j] = definition[j] /\ replacement'[j] = replacement[j]
  BY DEF ItemDecisionsNext, ResumeItem, BlockItem, Defer, Reopen, CloseDone, MoveUnstarted,
     CloseSuperseded, Revise, RecordReplacement, RetainTemporarily, Cancel, TypeOK
<1> QED
  BY <1>2, <1>3, <1>4, <1>5, <1>6 DEF Commit, Stamps, SameDecisions, SameFacts

\* Every step is a commit about one item, or leaves the ledger alone.
LEMMA StepsStamp ==
  ASSUME TypeOK, [Next]_vars
  PROVE  \/ \E i \in Items: Stamps(i)
         \/ UNCHANGED ledger /\ ((\E i \in Items: Read(i)) \/ readings' \subseteq readings)
<1>1. ASSUME NEW r \in Readings,
             \/ PreparationNext(r) \/ AttemptAuthorityNext(r)
             \/ AttemptLifecycleNext(r) \/ ItemDecisionsNext(r)
      PROVE  \E i \in Items: Stamps(i)
  BY <1>1, ReadingTyped, PreparationStamps, AttemptAuthorityStamps, AttemptLifecycleStamps,
     ItemDecisionsStamp
<1>2. CASE Tick \/ (\E i \in Items: Read(i)) \/ (\E r \in readings: Forget(r)) \/ UNCHANGED vars
  BY <1>2 DEF Tick, Read, Forget, ledger, vars
<1> QED BY <1>1, <1>2 DEF Next

-----------------------------------------------------------------------------
\* What ended stays as it was decided: state, definition, attempt, replacement and accepted
\* checkpoints, however old the request is (TerminalIsFinal).
LEMMA StepKeepsTerminal ==
  ASSUME TypeOK, [Next]_vars, NEW i \in Items, item[i].state \in TerminalStates
  PROVE  SameDecisions(i)
<1>1. item[i].state \notin LiveStates
  BY DEF TerminalStates, LiveStates
<1>2. ASSUME NEW j \in Items, Stamps(j)
      PROVE  SameDecisions(i)
  BY <1>1, <1>2 DEF Stamps
<1>3. ASSUME UNCHANGED ledger
      PROVE  SameDecisions(i)
  BY <1>3 DEF ledger, SameDecisions, SameFacts
<1> QED BY <1>2, <1>3, StepsStamp

\* A terminal item is history: no request selected before the end changes what was decided.
THEOREM Terminal == Spec => TerminalIsFinal
<1>1. TypeOK /\ [Next]_vars =>
        [\A i \in Items: item[i].state \in TerminalStates =>
           /\ item'[i] = item[i] /\ definition'[i] = definition[i]
           /\ attempt'[i] = attempt[i] /\ accepted'[i] = accepted[i]
           /\ replacement'[i] = replacement[i]]_vars
  BY StepKeepsTerminal DEF SameDecisions, SameFacts
<1> QED BY <1>1, Typed, PTL DEF Spec, TerminalIsFinal

LEMMA StepKeepsSatisfied ==
  ASSUME TypeOK, [Next]_vars, NEW d \in Dependency, Satisfied(d)
  PROVE  Satisfied(d)'
<1>1. d.item \in Items
  BY DEF Dependency
<1>2. CASE item[d.item].state \in {"done", "superseded"}
  <2>1. item'[d.item] = item[d.item]
    BY <1>1, <1>2, StepKeepsTerminal DEF TerminalStates, SameDecisions, SameFacts
  <2> QED BY <1>2, <2>1 DEF Satisfied
<1>3. CASE d.checkpoint \in accepted[d.item]
  <2>1. ASSUME NEW j \in Items, Stamps(j)
        PROVE  accepted[d.item] \subseteq accepted'[d.item]
    BY <1>1, <2>1 DEF Stamps, SameDecisions
  <2>2. ASSUME UNCHANGED ledger
        PROVE  accepted[d.item] \subseteq accepted'[d.item]
    BY <2>2 DEF ledger
  <2> QED BY <1>3, <2>1, <2>2, StepsStamp DEF Satisfied
<1> QED BY <1>2, <1>3 DEF Satisfied

\* What other items were started on stays satisfied, also when the producer is cancelled
\* or superseded later (dependency_satisfied).
THEOREM SatisfiedForGood == Spec => SatisfactionIsPermanent
<1>1. TypeOK /\ [Next]_vars => [\A d \in Dependency: Satisfied(d) => Satisfied(d)']_vars
  BY StepKeepsSatisfied
<1> QED BY <1>1, Typed, PTL DEF Spec, SatisfactionIsPermanent
-----------------------------------------------------------------------------
\* No row and no reading carries a revision of the future, so the next one is new to all.
StampsPast ==
  /\ \A i \in Items: item[i].rev \in 0 .. project.revision /\ attempt[i].rev \in 0 .. project.revision
  /\ \A r \in readings:
       r.item.rev \in 0 .. project.revision /\ r.attempt.rev \in 0 .. project.revision

\* What SubjectRevisionCoversFacts says of one reading.
Covers(r) == LET i == r.subject IN
  /\ r.item.rev = item[i].rev =>
       /\ r.item = item[i]
       /\ r.definition = definition[i]
       /\ r.replacement = replacement[i]
  /\ r.attempt.rev = attempt[i].rev => r.attempt = attempt[i]

\* A commit gives the rows it changes a revision that no reading has.
LEMMA CommitCovers ==
  ASSUME TypeOK, StampsPast, SubjectRevisionCoversFacts, NEW i \in Items, Stamps(i)
  PROVE  StampsPast' /\ SubjectRevisionCoversFacts'
<1>1. project.revision \in Nat /\ NextRevision = project.revision + 1
  BY DEF TypeOK, NextRevision
<1>2. \A j \in Items: /\ item'[j].rev = NextRevision \/ SameFacts(j)
                      /\ attempt'[j].rev = NextRevision \/ attempt'[j] = attempt[j]
  BY DEF Stamps, SameDecisions
<1>3. StampsPast'
  BY <1>1, <1>2 DEF StampsPast, Stamps, SameFacts
<1>4. ASSUME NEW r \in readings
      PROVE  Covers(r)'
  <2> DEFINE j == r.subject
  <2>1. /\ j \in Items /\ Covers(r)
        /\ r.item.rev \in 0 .. project.revision /\ r.attempt.rev \in 0 .. project.revision
    BY DEF TypeOK, SubjectRevisionCoversFacts, Covers, StampsPast
  <2>2. r.item.rev # NextRevision /\ r.attempt.rev # NextRevision
    BY <1>1, <2>1
  <2>3. CASE item'[j].rev = NextRevision
    BY <1>2, <2>1, <2>2, <2>3 DEF Covers
  <2>4. CASE SameFacts(j)
    BY <1>2, <2>1, <2>2, <2>4 DEF Covers, SameFacts
  <2> QED BY <1>2, <2>1, <2>3, <2>4
<1> QED BY <1>3, <1>4 DEF SubjectRevisionCoversFacts, Covers, Stamps

LEMMA NextCovers ==
  ASSUME TypeOK, StampsPast, SubjectRevisionCoversFacts, [Next]_vars
  PROVE  StampsPast' /\ SubjectRevisionCoversFacts'
<1>1. ASSUME NEW i \in Items, Stamps(i)
      PROVE  StampsPast' /\ SubjectRevisionCoversFacts'
  BY <1>1, CommitCovers
<1>2. ASSUME UNCHANGED ledger, readings' \subseteq readings
      PROVE  StampsPast' /\ SubjectRevisionCoversFacts'
  BY <1>2 DEF ledger, StampsPast, SubjectRevisionCoversFacts
<1>3. ASSUME NEW i \in Items, Read(i)
      PROVE  StampsPast' /\ SubjectRevisionCoversFacts'
  <2>1. UNCHANGED ledger /\ readings' = readings \cup {Reading(i)}
    BY <1>3 DEF Read
  <2>2. /\ Reading(i).subject = i /\ Reading(i).item = item[i]
        /\ Reading(i).definition = definition[i] /\ Reading(i).attempt = attempt[i]
        /\ Reading(i).replacement = replacement[i]
    BY DEF Reading
  <2> QED BY <2>1, <2>2 DEF ledger, StampsPast, SubjectRevisionCoversFacts
<1> QED BY <1>1, <1>2, <1>3, StepsStamp

\* A request proves what it read with one revision per row, and that is enough: however
\* many requests commit between the reading and the request, an equal revision means
\* equal facts, the definition and the planned replacement included (_subject_revision).
THEOREM RevisionsCover == Spec => []SubjectRevisionCoversFacts
<1>1. Init => StampsPast /\ SubjectRevisionCoversFacts
  BY DEF Init, StampsPast, SubjectRevisionCoversFacts, NoAttempt
<1> QED BY <1>1, Typed, NextCovers, PTL DEF Spec
-----------------------------------------------------------------------------
\* The ways in which the attempt of item i moves in a step.
Keeps(i) == attempt'[i].state = attempt[i].state /\ attempt'[i].scope = attempt[i].scope

Submits(i) == \E r \in Readings: r.subject = i /\ \E candidate \in Candidates: SubmitReview(r, candidate)

Starts(i) == \E r \in Readings: r.subject = i /\
  (Activate(r) \/ \E answered, revised \in BOOLEAN: ResumeAttempt(r, answered, revised))

Rests(i) ==
  /\ attempt[i].state = "active" /\ attempt'[i].state \in {"paused", "blocked"}
  /\ attempt'[i].scope = attempt[i].scope

\* Its worker's authority ends, if anybody ever had one.
Fences(i) ==
  /\ attempt'[i].state # "review"
  /\ attempt'[i].state = "active" => attempt[i].state \in {"active", "review"}
  /\ attempt'[i].scope # attempt[i].scope => Recorded(attemptLease[i])
  /\ Recorded(attemptLease[i]) =>
       attemptLease'[i].status # "active" /\ attemptLease'[i].generation > attemptLease[i].generation

Moves(i) == Keeps(i) \/ Submits(i) \/ Starts(i) \/ Rests(i) \/ Fences(i)

\* A fenced row has a new generation.
LEMMA FenceAllocates ==
  ASSUME TypeOK, NEW i \in Items, NEW t, Recorded(attemptLease[i]),
         FenceAttempt(i, t) \/ FenceRetainedAttempt(i, t)
  PROVE  /\ attemptLease'[i].status # "active"
         /\ attemptLease'[i].generation > attemptLease[i].generation
<1>1. attemptLease[i] \in Lease /\ attemptLease \in [Items -> Lease]
  BY DEF TypeOK
<1>2. attemptLease[i].generation \in Nat
  BY <1>1 DEF Lease
<1>3. attemptLease' = [attemptLease EXCEPT ![i] = Ended(attemptLease[i], "revoked", t)]
  BY DEF FenceAttempt, FenceRetainedAttempt
<1> QED BY <1>1, <1>2, <1>3 DEF Ended, Lease

\* SetAttemptState keeps the scope.
LEMMA SetAttemptStateScope ==
  ASSUME TypeOK, NEW i \in Items, NEW s, SetAttemptState(i, s)
  PROVE  attempt'[i].state = s /\ attempt'[i].scope = attempt[i].scope
<1>1. attempt \in [Items -> Attempt] /\ attempt[i] \in Attempt
  BY DEF TypeOK
<1> QED BY <1>1 DEF SetAttemptState, Attempt

LEMMA AttemptLifecycleMovesAttempt ==
  ASSUME TypeOK, NEW r \in Readings, AttemptLifecycleNext(r)
  PROVE  Moves(r.subject)
<1> DEFINE i == r.subject
<1>1. i \in Items /\ attempt \in [Items -> Attempt] /\ attempt[i] \in Attempt
  BY ReadingTyped DEF TypeOK
<1>2. ASSUME NEW undecided \in BOOLEAN, Pause(r, undecided)
      PROVE  Rests(i)
  BY <1>1, <1>2 DEF Pause, Rests, Attempt
<1>3. ASSUME BlockAttempt(r)
      PROVE  Rests(i)
  BY <1>1, <1>3, SetAttemptStateScope DEF BlockAttempt, Rests
<1>4. ASSUME RebindAttempt(r)
      PROVE  Fences(i)
  <2>1. attempt'[i].state = attempt[i].state /\ attempt[i].state # "review"
    BY <1>1, <1>4 DEF RebindAttempt, Attempt
  <2> QED BY <1>1, <1>4, <2>1, FenceAllocates DEF RebindAttempt, Fences
<1>5. ASSUME \/ ReturnForCorrection(r) \/ AcceptReviewAndContinue(r) \/ Complete(r)
             \/ \E checkpoint \in Checkpoints: AcceptCheckpoint(r, checkpoint)
      PROVE  Fences(i)
  <2>1. PICK s \in {"active", "paused", "done"}:
          /\ SetAttemptState(i, s)
          /\ FenceAttempt(i, r.at) \/ FenceRetainedAttempt(i, r.at)
    BY <1>5 DEF ReturnForCorrection, AcceptReviewAndContinue, Complete, AcceptCheckpoint
  <2>2. attempt[i].state = "review"
    BY <1>5 DEF ReturnForCorrection, AcceptReviewAndContinue, Complete, AcceptCheckpoint, Reviewed
  <2> QED BY <1>1, <2>1, <2>2, SetAttemptStateScope, FenceAllocates DEF Fences
<1> QED BY <1>2, <1>3, <1>4, <1>5 DEF AttemptLifecycleNext, Moves, Submits, Starts

LEMMA ItemDecisionsMoveAttempt ==
  ASSUME TypeOK, NEW r \in Readings, ItemDecisionsNext(r)
  PROVE  Moves(r.subject)
<1> DEFINE i == r.subject
<1>1. i \in Items
  BY ReadingTyped
<1>2. \/ attempt' = attempt
      \/ \E t: SetAttemptState(i, "done") /\ FenceRetainedAttempt(i, t)
  BY DEF ItemDecisionsNext, ResumeItem, BlockItem, Defer, Reopen, CloseDone, MoveUnstarted,
     CloseSuperseded, Revise, RecordReplacement, RetainTemporarily, Cancel
<1>3. ASSUME NEW t, SetAttemptState(i, "done"), FenceRetainedAttempt(i, t)
      PROVE  Fences(i)
  BY <1>1, <1>3, SetAttemptStateScope, FenceAllocates DEF Fences
<1> QED BY <1>2, <1>3 DEF Moves, Keeps

LEMMA StepMovesAttempt ==
  ASSUME TypeOK, NEW i \in Items, [Next]_vars
  PROVE  Moves(i)
<1>1. ASSUME attempt'[i] = attempt[i]
      PROVE  Moves(i)
  BY <1>1 DEF Moves, Keeps
<1>2. CASE Tick \/ (\E j \in Items: Read(j)) \/ (\E r \in readings: Forget(r)) \/ UNCHANGED vars
  BY <1>1, <1>2 DEF Tick, Read, Forget, ledger, vars
<1>3. ASSUME NEW r \in Readings, PreparationNext(r), r.subject = i
      PROVE  Moves(i)
  <2>1. Activate(r) \/ attempt' = attempt
    BY <1>3 DEF PreparationNext, StartPreparation, RenewPreparation, ReleasePreparation,
       RevokePreparation
  <2> QED BY <1>1, <1>3, <2>1 DEF Moves, Starts
<1>4. ASSUME NEW r \in Readings, AttemptAuthorityNext(r)
      PROVE  Moves(i)
  BY <1>1, <1>4 DEF AttemptAuthorityNext, AcquireAttempt, RenewAttempt, ReleaseAttempt,
     RevokeAttempt
<1>5. ASSUME NEW r \in Readings, r.subject # i,
             PreparationNext(r) \/ AttemptLifecycleNext(r) \/ ItemDecisionsNext(r)
      PROVE  Moves(i)
  <2>1. Stamps(r.subject)
    BY <1>5, PreparationStamps, AttemptLifecycleStamps, ItemDecisionsStamp
  <2> QED BY <1>1, <1>5, <2>1 DEF Stamps, SameDecisions
<1> QED
  BY <1>2, <1>3, <1>4, <1>5, AttemptLifecycleMovesAttempt, ItemDecisionsMoveAttempt DEF Next

\* What is in review was submitted by a worker, so there is an authority to fence.
ReviewRecorded == \A i \in Items: attempt[i].state = "review" => Recorded(attemptLease[i])

\* A submission comes from the worker in charge, at the definition and with no replacement.
LEMMA SubmissionCurrent ==
  ASSUME TypeOK, NEW i \in Items, Submits(i)
  PROVE  /\ Live(attemptLease[i], clock) /\ attemptLease'[i] = attemptLease[i]
         /\ ~ DefinitionStale(i) /\ ~ UnresolvedReplacement(i)
         /\ attempt'[i].scope = attempt[i].scope
<1>1. PICK r \in Readings:
        r.subject = i /\ \E candidate \in Candidates: SubmitReview(r, candidate)
  BY DEF Submits
<1>2. "submit-review" \in Offers(i) /\ attemptLease' = attemptLease
  BY <1>1 DEF SubmitReview, Selected
<1>3. "submit-review" \in WorkerOffers(i)
  BY <1>2 DEF Offers, PreparerOffers, ProjectOffers, AttemptOffers, UnstartedOffers
<1>4. attempt'[i].scope = attempt[i].scope
  BY <1>1 DEF SubmitReview, TypeOK, Attempt
<1> QED BY <1>2, <1>3, <1>4 DEF WorkerOffers, AttemptLive

\* Starting makes the attempt active.
LEMMA StartsActive ==
  ASSUME TypeOK, NEW i \in Items, Starts(i)
  PROVE  attempt'[i].state = "active"
<1>1. attempt \in [Items -> Attempt] /\ attempt[i] \in Attempt
  BY DEF TypeOK
<1>2. PICK r \in Readings: r.subject = i /\
        (Activate(r) \/ \E answered, revised \in BOOLEAN: ResumeAttempt(r, answered, revised))
  BY DEF Starts
<1>3. CASE Activate(r)
  BY <1>1, <1>2, <1>3 DEF Activate, NoAttempt
<1>4. ASSUME NEW answered, NEW revised, ResumeAttempt(r, answered, revised)
      PROVE  attempt'[i].state = "active"
  BY <1>1, <1>2, <1>4 DEF ResumeAttempt, Attempt
<1> QED BY <1>2, <1>3, <1>4

LEMMA NextReviewRecorded ==
  ASSUME TypeOK, ReviewRecorded, [Next]_vars
  PROVE  ReviewRecorded'
<1> SUFFICES ASSUME NEW i \in Items, attempt'[i].state = "review"
             PROVE  Recorded(attemptLease'[i])
  BY DEF ReviewRecorded
<1>1. Recorded(attemptLease[i])
  <2>1. CASE Keeps(i)
    BY <2>1 DEF Keeps, ReviewRecorded
  <2>2. CASE Submits(i)
    BY <2>2, SubmissionCurrent DEF Live, Recorded
  <2>3. CASE Starts(i)
    BY <2>3, StartsActive
  <2> QED BY <2>1, <2>2, <2>3, StepMovesAttempt DEF Moves, Rests, Fences
<1>2. RowStep(attemptLease[i], attemptLease'[i])
  BY WorkerRowStep
<1> QED BY <1>1, <1>2 DEF RowStep, RowGranted, RowRenewed, RowEnded, Recorded

LEMMA AlwaysReviewRecorded == Spec => []ReviewRecorded
<1>1. Init => ReviewRecorded
  BY DEF Init, ReviewRecorded, NoAttempt
<1> QED BY <1>1, Typed, NextReviewRecorded, PTL DEF Spec

\* Whoever worked for a review, or on a scope that changed, has to be put in charge anew:
\* every decision about a candidate and every new scope ends the authority and allocates a
\* generation (_return_for_correction, _accept_checkpoint, _complete, _rebind_attempt).
THEOREM NewGenerations == Spec => NewWorkNewGeneration
<1>1. ASSUME TypeOK, ReviewRecorded, [Next]_vars, NEW i \in Items,
             \/ attempt[i].state = "review" /\ attempt'[i].state # "review"
             \/ attempt[i].state = "active" /\ attempt'[i].scope # attempt[i].scope
      PROVE  /\ attemptLease'[i].status # "active"
             /\ attemptLease'[i].generation > attemptLease[i].generation
  <2>1. ~ Keeps(i) /\ ~ Rests(i)
    BY <1>1 DEF Keeps, Rests
  <2>2. ~ Submits(i)
    <3> SUFFICES ASSUME Submits(i) PROVE FALSE
      OBVIOUS
    <3>1. attempt[i].state = "active"
      BY DEF Submits, SubmitReview
    <3> QED BY <1>1, <3>1, SubmissionCurrent
  <2>3. ~ Starts(i)
    BY <1>1 DEF Starts, Activate, ResumeAttempt
  <2>4. Fences(i)
    BY <1>1, <2>1, <2>2, <2>3, StepMovesAttempt DEF Moves
  <2> QED BY <1>1, <2>4 DEF Fences, ReviewRecorded
<1>2. TypeOK /\ ReviewRecorded /\ [Next]_vars =>
        [\A i \in Items:
           \/ attempt[i].state = "review" /\ attempt'[i].state # "review"
           \/ attempt[i].state = "active" /\ attempt'[i].scope # attempt[i].scope
           => /\ attemptLease'[i].status # "active"
              /\ attemptLease'[i].generation > attemptLease[i].generation]_vars
  BY <1>1
<1> QED BY <1>2, Typed, AlwaysReviewRecorded, PTL DEF Spec, NewWorkNewGeneration

\* A candidate enters review from the worker in charge at that moment, at the definition in
\* force and with no replacement waiting, whatever the reading was (_submit_review).
THEOREM CurrentSubmissions == Spec => SubmissionsAreCurrent
<1>1. ASSUME TypeOK, [Next]_vars, NEW i \in Items,
             attempt[i].state = "active" /\ attempt'[i].state = "review"
      PROVE  /\ Live(attemptLease[i], clock) /\ attemptLease'[i] = attemptLease[i]
             /\ ~ DefinitionStale(i) /\ ~ UnresolvedReplacement(i)
  <2>1. ~ Starts(i)
    BY <1>1 DEF Starts, Activate, ResumeAttempt
  <2>2. Submits(i)
    BY <1>1, <2>1, StepMovesAttempt DEF Moves, Keeps, Rests, Fences
  <2> QED BY <2>2, <1>1, SubmissionCurrent
<1>2. TypeOK /\ [Next]_vars =>
        [\A i \in Items: attempt[i].state = "active" /\ attempt'[i].state = "review" =>
           /\ Live(attemptLease[i], clock) /\ attemptLease'[i] = attemptLease[i]
           /\ ~ DefinitionStale(i) /\ ~ UnresolvedReplacement(i)]_vars
  BY <1>1
<1> QED BY <1>2, Typed, PTL DEF Spec, SubmissionsAreCurrent

\* Work starts or restarts on satisfied prerequisites and with no replacement waiting, at
\* the commit and not only at the reading (_activate, _resume).
THEOREM SatisfiedStarts == Spec => StartsOnSatisfiedDependencies
<1>1. ASSUME TypeOK, [Next]_vars, NEW i \in Items,
             attempt[i].state \in {"none", "paused", "blocked"}, attempt'[i].state = "active"
      PROVE  DependenciesSatisfied(i) /\ ~ UnresolvedReplacement(i)
  <2>1. ~ Submits(i)
    BY <1>1 DEF Submits, SubmitReview
  <2>2. Starts(i)
    BY <1>1, <2>1, StepMovesAttempt DEF Moves, Keeps, Rests, Fences
  <2>3. PICK r \in Readings: r.subject = i /\
          (Activate(r) \/ \E answered, revised \in BOOLEAN: ResumeAttempt(r, answered, revised))
    BY <2>2 DEF Starts
  <2>4. CASE Activate(r)
    <3>1. "activate" \in Offers(i)
      BY <2>3, <2>4 DEF Activate, Selected
    <3>2. "activate" \in PreparerOffers(i)
      BY <3>1 DEF Offers, WorkerOffers, ProjectOffers, AttemptOffers, UnstartedOffers
    <3> QED BY <3>2 DEF PreparerOffers
  <2>5. CASE \E answered, revised \in BOOLEAN: ResumeAttempt(r, answered, revised)
    BY <2>3, <2>5 DEF ResumeAttempt
  <2> QED BY <2>3, <2>4, <2>5
<1>2. TypeOK /\ [Next]_vars =>
        [\A i \in Items:
           attempt[i].state \in {"none", "paused", "blocked"} /\ attempt'[i].state = "active" =>
             DependenciesSatisfied(i) /\ ~ UnresolvedReplacement(i)]_vars
  BY <1>1
<1> QED BY <1>2, Typed, PTL DEF Spec, StartsOnSatisfiedDependencies
=============================================================================
