---------------------------- MODULE Board_proofs ----------------------------
(***************************************************************************)
(* Proofs about the ledger for any number of items, agents, checkpoints    *)
(* and candidates, any lease time and any bound: its rows keep their       *)
(* types, and the rows of attempt_leases and of preparation_leases         *)
(* implement FencedLease, for every item, through every transaction.       *)
(***************************************************************************)
EXTENDS Board, TLAPS

\* A request rests on a reading of an item of the board made at a past time.
LEMMA ReadingTyped ==
  ASSUME TypeOK, NEW r \in Readings
  PROVE  r.subject \in Items /\ r.at \in 0 .. clock
<1>1. CASE r \in readings
  BY <1>1 DEF TypeOK
<1>2. CASE \E i \in Items: r = Reading(i)
  BY <1>2 DEF TypeOK, Reading
<1> QED BY <1>1, <1>2 DEF Readings

\* A commit at the time of a request keeps the project row typed.
LEMMA CommitTyped ==
  ASSUME TypeOK, NEW t \in Nat, Commit(t)
  PROVE  /\ clock' \in Nat
         /\ project' \in [revision: Nat, updatedAt: Nat]
         /\ \A q \in readings': q.subject \in Items /\ q.at \in 0 .. clock'
BY DEF TypeOK, Commit, NextRevision

\* Granting and ending keep the row typed and allocate one generation.
LEMMA GrantedTyped ==
  ASSUME NEW lease \in Lease, NEW task \in Tasks, NEW until \in Nat
  PROVE  Granted(lease, task, until) \in Lease
<1>1. lease.generation \in Nat /\ lease.generation + 1 \in Nat
  BY DEF Lease
<1> QED BY <1>1 DEF Granted, Lease, Status

LEMMA ClaimGrantedTyped ==
  ASSUME NEW claim \in PreparationLease, NEW task \in Tasks, NEW until \in Nat, NEW pin \in Nat
  PROVE  [Granted(claim, task, until) EXCEPT !.pin = pin] \in PreparationLease
<1>1. claim.generation \in Nat /\ claim.generation + 1 \in Nat
  BY DEF PreparationLease
<1> QED BY <1>1 DEF Granted, PreparationLease, Status

LEMMA EndedTyped ==
  ASSUME NEW lease \in Lease, NEW s \in Status, NEW t \in Nat
  PROVE  Ended(lease, s, t) \in Lease
<1>1. lease.generation \in Nat /\ lease.generation + 1 \in Nat
  BY DEF Lease
<1> QED BY <1>1 DEF Ended, Lease

LEMMA ClaimEndedTyped ==
  ASSUME NEW claim \in PreparationLease, NEW s \in Status, NEW t \in Nat
  PROVE  Ended(claim, s, t) \in PreparationLease
<1>1. claim.generation \in Nat /\ claim.generation + 1 \in Nat
  BY DEF PreparationLease
<1> QED BY <1>1 DEF Ended, PreparationLease

LEMMA SetItemStateTyped ==
  ASSUME TypeOK, NEW i \in Items, NEW s \in LiveStates \cup TerminalStates, SetItemState(i, s)
  PROVE  item' \in [Items -> Item]
BY DEF TypeOK, SetItemState, Item, NextRevision

LEMMA SetAttemptStateTyped ==
  ASSUME TypeOK, NEW i \in Items, NEW s \in {"done"} \cup OpenAttemptStates,
         SetAttemptState(i, s)
  PROVE  attempt' \in [Items -> Attempt]
<1>1. attempt[i] \in Attempt /\ NextRevision \in Nat
  BY DEF TypeOK, NextRevision
<1>2. [attempt[i] EXCEPT !.state = s, !.rev = NextRevision,
         !.candidate = IF s = "done" THEN attempt[i].candidate ELSE NoCandidate] \in Attempt
  BY <1>1 DEF Attempt
<1> QED BY <1>1, <1>2 DEF TypeOK, SetAttemptState

LEMMA FenceAttemptTyped ==
  ASSUME TypeOK, NEW i \in Items, NEW t \in Nat,
         FenceAttempt(i, t) \/ FenceRetainedAttempt(i, t)
  PROVE  attemptLease' \in [Items -> Lease]
<1>1. Ended(attemptLease[i], "revoked", t) \in Lease
  BY EndedTyped DEF TypeOK, Status
<1> QED BY <1>1 DEF TypeOK, FenceAttempt, FenceRetainedAttempt

\* The operations on preparation claims keep every row typed.
LEMMA PreparationTyped ==
  ASSUME TypeOK, NEW r \in Readings, PreparationNext(r)
  PROVE  TypeOK'
<1> DEFINE i == r.subject
<1>1. i \in Items /\ r.at \in Nat /\ r.at \in 0 .. clock
  BY ReadingTyped DEF TypeOK
<1>2. \A t \in RequestTimes(r): t \in Nat
  BY <1>1 DEF RequestTimes, TypeOK
<1>3. preparationLease[i] \in PreparationLease
  BY <1>1 DEF TypeOK
<1>4. ASSUME NEW t \in RequestTimes(r), NEW task \in Tasks, StartPreparation(r, t, task)
      PROVE  TypeOK'
  <2>1. t + LeaseTime \in Nat
    BY <1>2, LeaseTimeAssumption
  <2>2. [Granted(preparationLease[i], task, t + LeaseTime) EXCEPT !.pin = definition[i].rev]
          \in PreparationLease
    BY <1>1, <1>3, <2>1, ClaimGrantedTyped DEF TypeOK, Definition
  <2> QED BY <1>1, <1>2, <1>4, <2>2, CommitTyped DEF TypeOK, StartPreparation
<1>5. ASSUME NEW t \in RequestTimes(r), RenewPreparation(r, t)
      PROVE  TypeOK'
  <2>1. t + LeaseTime \in Nat
    BY <1>2, LeaseTimeAssumption
  <2>2. Renewed(preparationLease[i], t + LeaseTime) \in PreparationLease
    BY <1>3, <2>1 DEF Renewed, PreparationLease
  <2> QED BY <1>1, <1>2, <1>5, <2>2, CommitTyped DEF TypeOK, RenewPreparation
<1>6. ASSUME NEW t \in RequestTimes(r), ReleasePreparation(r, t) \/ RevokePreparation(r, t)
      PROVE  TypeOK'
  <2>1. /\ Ended(preparationLease[i], "released", t) \in PreparationLease
        /\ Ended(preparationLease[i], "revoked", t) \in PreparationLease
    BY <1>2, <1>3, ClaimEndedTyped DEF Status
  <2> QED
    BY <1>1, <1>2, <1>6, <2>1, CommitTyped DEF TypeOK, ReleasePreparation, RevokePreparation
<1>7. ASSUME Activate(r)
      PROVE  TypeOK'
  <2>1. Ended(preparationLease[i], "revoked", r.at) \in PreparationLease
    BY <1>1, <1>3, ClaimEndedTyped DEF Status
  <2>2. attempt' \in [Items -> Attempt]
    <3>1. definition[i].rev \in Nat /\ NextRevision \in Nat
      BY <1>1 DEF TypeOK, Definition, NextRevision
    <3>2. [NoAttempt EXCEPT !.state = "active", !.rev = NextRevision,
                            !.scope = definition[i].rev] \in Attempt
      BY <3>1 DEF NoAttempt, Attempt, OpenAttemptStates
    <3> QED BY <1>1, <1>7, <3>2 DEF TypeOK, Activate
  <2>3. item' \in [Items -> Item]
    BY <1>1, <1>7, SetItemStateTyped DEF Activate, LiveStates
  <2> QED BY <1>1, <1>7, <2>1, <2>2, <2>3, CommitTyped DEF TypeOK, Activate
<1> QED BY <1>4, <1>5, <1>6, <1>7 DEF PreparationNext

\* Acquiring, renewing and ending a worker's lease keep every row typed.
LEMMA AttemptAuthorityTyped ==
  ASSUME TypeOK, NEW r \in Readings, AttemptAuthorityNext(r)
  PROVE  TypeOK'
<1> DEFINE i == r.subject
<1>1. i \in Items /\ r.at \in 0 .. clock /\ attemptLease[i] \in Lease
  BY ReadingTyped DEF TypeOK
<1>2. PICK t \in RequestTimes(r):
        \/ \E task \in Tasks: AcquireAttempt(r, t, task)
        \/ RenewAttempt(r, t)
        \/ ReleaseAttempt(r, t)
        \/ RevokeAttempt(r, t)
  BY DEF AttemptAuthorityNext
<1>3. t \in Nat /\ t + LeaseTime \in Nat
  BY <1>1, LeaseTimeAssumption DEF RequestTimes, TypeOK
<1>4. ASSUME NEW task \in Tasks, AcquireAttempt(r, t, task)
      PROVE  TypeOK'
  <2>1. Granted(attemptLease[i], task, t + LeaseTime) \in Lease
    BY <1>1, <1>3, GrantedTyped
  <2> QED BY <1>1, <1>3, <1>4, <2>1, CommitTyped DEF TypeOK, AcquireAttempt
<1>5. ASSUME RenewAttempt(r, t)
      PROVE  TypeOK'
  <2>1. Renewed(attemptLease[i], t + LeaseTime) \in Lease
    BY <1>1, <1>3 DEF Renewed, Lease
  <2> QED BY <1>1, <1>3, <1>5, <2>1, CommitTyped DEF TypeOK, RenewAttempt
<1>6. ASSUME ReleaseAttempt(r, t) \/ RevokeAttempt(r, t)
      PROVE  TypeOK'
  <2>1. /\ Ended(attemptLease[i], "released", t) \in Lease
        /\ Ended(attemptLease[i], "revoked", t) \in Lease
    BY <1>1, <1>3, EndedTyped DEF Status
  <2> QED BY <1>1, <1>3, <1>6, <2>1, CommitTyped DEF TypeOK, ReleaseAttempt, RevokeAttempt
<1> QED BY <1>2, <1>4, <1>5, <1>6

\* Working, pausing and reviewing keep every row typed.
LEMMA AttemptLifecycleTyped ==
  ASSUME TypeOK, NEW r \in Readings, AttemptLifecycleNext(r)
  PROVE  TypeOK'
<1> DEFINE i == r.subject
<1>1. i \in Items /\ r.at \in Nat /\ attempt[i] \in Attempt /\ definition[i].rev \in Nat
  BY ReadingTyped DEF TypeOK, Definition
<1>2. NextRevision \in Nat
  BY DEF TypeOK, NextRevision
<1>3. /\ {"active", "paused", "blocked", "review", "done"} \subseteq LiveStates \cup TerminalStates
      /\ {"active", "paused", "blocked", "review", "done"} \subseteq {"done"} \cup OpenAttemptStates
  BY DEF LiveStates, TerminalStates, OpenAttemptStates
<1>4. ASSUME NEW undecided \in BOOLEAN, Pause(r, undecided)
      PROVE  TypeOK'
  <2>1. [attempt[i] EXCEPT !.state = "paused", !.rev = NextRevision,
           !.candidate = NoCandidate, !.undecided = undecided] \in Attempt
    BY <1>1, <1>2 DEF Attempt, OpenAttemptStates
  <2>2. item' \in [Items -> Item]
    BY <1>1, <1>3, <1>4, SetItemStateTyped DEF Pause
  <2> QED BY <1>1, <1>4, <2>1, <2>2, CommitTyped DEF TypeOK, Pause
<1>5. ASSUME BlockAttempt(r)
      PROVE  TypeOK'
  <2>1. item' \in [Items -> Item] /\ attempt' \in [Items -> Attempt]
    BY <1>1, <1>3, <1>5, SetItemStateTyped, SetAttemptStateTyped DEF BlockAttempt
  <2> QED BY <1>1, <1>5, <2>1, CommitTyped DEF TypeOK, BlockAttempt
<1>6. ASSUME NEW answered \in BOOLEAN, NEW revised \in BOOLEAN,
             ResumeAttempt(r, answered, revised)
      PROVE  TypeOK'
  <2>1. [attempt[i] EXCEPT !.state = "active", !.rev = NextRevision,
           !.candidate = NoCandidate, !.undecided = FALSE,
           !.scope = IF revised THEN definition[i].rev ELSE attempt[i].scope] \in Attempt
    BY <1>1, <1>2 DEF Attempt, OpenAttemptStates
  <2>2. item' \in [Items -> Item]
    BY <1>1, <1>3, <1>6, SetItemStateTyped DEF ResumeAttempt
  <2> QED BY <1>1, <1>6, <2>1, <2>2, CommitTyped DEF TypeOK, ResumeAttempt
<1>7. ASSUME RebindAttempt(r)
      PROVE  TypeOK'
  <2>1. [attempt[i] EXCEPT !.scope = definition[i].rev, !.rev = NextRevision] \in Attempt
    BY <1>1, <1>2 DEF Attempt
  <2>2. attemptLease' \in [Items -> Lease]
    BY <1>1, <1>7, FenceAttemptTyped DEF RebindAttempt
  <2> QED BY <1>1, <1>7, <2>1, <2>2, CommitTyped DEF TypeOK, RebindAttempt
<1>8. ASSUME NEW candidate \in Candidates, SubmitReview(r, candidate)
      PROVE  TypeOK'
  <2>1. [attempt[i] EXCEPT !.state = "review", !.rev = NextRevision, !.candidate = candidate]
          \in Attempt
    BY <1>1, <1>2 DEF Attempt, OpenAttemptStates
  <2>2. item' \in [Items -> Item]
    BY <1>1, <1>3, <1>8, SetItemStateTyped DEF SubmitReview
  <2> QED BY <1>1, <1>8, <2>1, <2>2, CommitTyped DEF TypeOK, SubmitReview
<1>9. ASSUME ReturnForCorrection(r) \/ AcceptReviewAndContinue(r) \/ Complete(r)
      PROVE  TypeOK'
  <2>1. item' \in [Items -> Item] /\ attempt' \in [Items -> Attempt]
    BY <1>1, <1>3, <1>9, SetItemStateTyped, SetAttemptStateTyped
       DEF ReturnForCorrection, AcceptReviewAndContinue, Complete
  <2>2. attemptLease' \in [Items -> Lease]
    BY <1>1, <1>9, FenceAttemptTyped DEF ReturnForCorrection, AcceptReviewAndContinue, Complete
  <2> QED
    BY <1>1, <1>9, <2>1, <2>2, CommitTyped
       DEF TypeOK, ReturnForCorrection, AcceptReviewAndContinue, Complete
<1>10. ASSUME NEW checkpoint \in Checkpoints, AcceptCheckpoint(r, checkpoint)
       PROVE  TypeOK'
  <2>1. item' \in [Items -> Item] /\ attempt' \in [Items -> Attempt]
    BY <1>1, <1>3, <1>10, SetItemStateTyped, SetAttemptStateTyped DEF AcceptCheckpoint
  <2>2. attemptLease' \in [Items -> Lease]
    BY <1>1, <1>10, FenceAttemptTyped DEF AcceptCheckpoint
  <2>3. accepted' \in [Items -> SUBSET Checkpoints]
    BY <1>1, <1>10 DEF TypeOK, AcceptCheckpoint
  <2> QED BY <1>1, <1>10, <2>1, <2>2, <2>3, CommitTyped DEF TypeOK, AcceptCheckpoint
<1> QED BY <1>4, <1>5, <1>6, <1>7, <1>8, <1>9, <1>10 DEF AttemptLifecycleNext

\* Deciding about items keeps every row typed.
LEMMA ItemDecisionsTyped ==
  ASSUME TypeOK, NEW r \in Readings, ItemDecisionsNext(r)
  PROVE  TypeOK'
<1> DEFINE i == r.subject
<1>1. i \in Items /\ r.at \in 0 .. clock /\ r.at \in Nat
  BY ReadingTyped DEF TypeOK
<1>2. /\ item[i] \in Item /\ definition[i] \in Definition
      /\ preparationLease[i] \in PreparationLease /\ replacement[i] \in Replacement
      /\ NextRevision \in Nat
  BY <1>1 DEF TypeOK, NextRevision
<1>3. AdvanceItem(i) => item' \in [Items -> Item]
  <2>1. [item[i] EXCEPT !.rev = NextRevision] \in Item
    BY <1>2 DEF Item
  <2> QED BY <1>1, <2>1 DEF TypeOK, AdvanceItem
<1>4. ASSUME NEW kind, NEW from, NEW to \in LiveStates \cup TerminalStates,
             MoveUnstarted(r, kind, from, to)
      PROVE  TypeOK'
  <2>1. item' \in [Items -> Item]
    BY <1>1, <1>4, SetItemStateTyped DEF MoveUnstarted
  <2> QED BY <1>1, <1>4, <2>1, CommitTyped DEF TypeOK, MoveUnstarted
<1>5. ASSUME ResumeItem(r) \/ BlockItem(r) \/ Defer(r) \/ Reopen(r) \/ CloseDone(r)
      PROVE  TypeOK'
  <2>1. {"ready", "blocked", "deferred", "done"} \subseteq LiveStates \cup TerminalStates
    BY DEF LiveStates, TerminalStates
  <2> QED BY <1>4, <1>5, <2>1 DEF ResumeItem, BlockItem, Defer, Reopen, CloseDone
<1>6. ASSUME CloseSuperseded(r)
      PROVE  TypeOK'
  <2>1. item' \in [Items -> Item]
    BY <1>1, <1>6, SetItemStateTyped DEF CloseSuperseded, LiveStates, TerminalStates
  <2>2. attempt' \in [Items -> Attempt] /\ attemptLease' \in [Items -> Lease]
    BY <1>1, <1>6, SetAttemptStateTyped, FenceAttemptTyped DEF CloseSuperseded, TypeOK
  <2> QED BY <1>1, <1>6, <2>1, <2>2, CommitTyped DEF TypeOK, CloseSuperseded
<1>7. ASSUME NEW new \in SUBSET Dependency, Revise(r, new)
      PROVE  TypeOK'
  <2>1. [rev |-> definition[i].rev + 1, deps |-> new] \in Definition
    BY <1>2 DEF Definition
  <2>2. item' \in [Items -> Item]
    BY <1>3, <1>7 DEF Revise
  <2> QED BY <1>1, <1>7, <2>1, <2>2, CommitTyped DEF TypeOK, Revise
<1>8. ASSUME NEW by \in Items, NEW status \in {"current", "withdrawn"},
             RecordReplacement(r, by, status)
      PROVE  TypeOK'
  <2>1. [rev |-> replacement[i].rev + 1, by |-> by, status |-> status, retained |-> FALSE]
          \in Replacement
    BY <1>2 DEF Replacement
  <2>2. item' \in [Items -> Item]
    BY <1>3, <1>8 DEF RecordReplacement
  <2> QED BY <1>1, <1>8, <2>1, <2>2, CommitTyped DEF TypeOK, RecordReplacement
<1>9. ASSUME RetainTemporarily(r)
      PROVE  TypeOK'
  <2>1. [replacement[i] EXCEPT !.retained = TRUE] \in Replacement
    BY <1>2 DEF Replacement
  <2>2. item' \in [Items -> Item]
    BY <1>3, <1>9 DEF RetainTemporarily
  <2> QED BY <1>1, <1>9, <2>1, <2>2, CommitTyped DEF TypeOK, RetainTemporarily
<1>10. ASSUME NEW t \in RequestTimes(r), Cancel(r, t)
       PROVE  TypeOK'
  <2>1. t \in Nat
    BY <1>1 DEF RequestTimes, TypeOK
  <2>2. Ended(preparationLease[i], "revoked", t) \in PreparationLease
    BY <1>2, <2>1, ClaimEndedTyped DEF Status
  <2>3. item' \in [Items -> Item]
    BY <1>1, <1>10, SetItemStateTyped DEF Cancel, LiveStates, TerminalStates
  <2>4. attempt' \in [Items -> Attempt] /\ attemptLease' \in [Items -> Lease]
    BY <1>1, <1>10, <2>1, SetAttemptStateTyped, FenceAttemptTyped DEF Cancel, TypeOK
  <2> QED BY <1>1, <1>10, <2>1, <2>2, <2>3, <2>4, CommitTyped DEF TypeOK, Cancel
<1> QED BY <1>5, <1>6, <1>7, <1>8, <1>9, <1>10 DEF ItemDecisionsNext

\* Every step keeps every row typed.
LEMMA NextTyped ==
  ASSUME TypeOK, [Next]_vars
  PROVE  TypeOK'
<1>1. ASSUME Tick \/ \E i \in Items: Read(i)
      PROVE  TypeOK'
  BY <1>1 DEF TypeOK, Tick, Read, Reading, ledger
<1>2. ASSUME NEW r \in readings, Forget(r)
      PROVE  TypeOK'
  BY <1>2 DEF TypeOK, Forget, ledger
<1>3. ASSUME UNCHANGED vars
      PROVE  TypeOK'
  BY <1>3 DEF TypeOK, vars
<1> QED
  BY <1>1, <1>2, <1>3, PreparationTyped, AttemptAuthorityTyped, AttemptLifecycleTyped,
     ItemDecisionsTyped DEF Next

\* Every reachable board has well-formed rows, and every reading is of an item and of the
\* past (TypeOK): no sequence of requests leaves the ranges of the schema.
THEOREM Typed == Spec => []TypeOK
<1>1. Init => TypeOK
  BY DEF Init, TypeOK, Item, LiveStates, Definition, Attempt, NoAttempt, Lease, NoLease,
         PreparationLease, NoPreparation, Replacement, NoReplacement, Status
<1> QED BY <1>1, NextTyped, PTL DEF Spec

-----------------------------------------------------------------------------
\* An active row has a task for holder, and a written row has a generation.
HeldRow(lease) ==
  /\ lease.status = "active" => lease.holder \in Tasks
  /\ Recorded(lease) => lease.generation > 0

RowsHeld == \A i \in Items: HeldRow(attemptLease[i]) /\ HeldRow(preparationLease[i])

\* All that one transaction ever does to one row.
RowGranted(old, new) ==
  /\ ~ Live(old, clock)
  /\ new.status = "active" /\ new.holder \in Tasks
  /\ new.generation = old.generation + 1 /\ new.expires \in Nat

RowRenewed(old, new) ==
  /\ old.status = "active" /\ new.status = "active" /\ new.holder = old.holder
  /\ new.generation = old.generation
  /\ new.expires \in Nat /\ new.expires > old.expires

RowEnded(old, new) ==
  /\ Recorded(old) /\ new.status \in {"released", "revoked"}
  /\ new.generation = old.generation + 1

RowStep(old, new) ==
  new = old \/ RowGranted(old, new) \/ RowRenewed(old, new) \/ RowEnded(old, new)

\* A row that looked lapsed at a request's time has lapsed by the time of the lock.
LEMMA GrantedRow ==
  ASSUME clock \in Nat, NEW t \in 0 .. clock, NEW until \in Nat, NEW task \in Tasks,
         NEW old \in Lease \cup PreparationLease, ~ Live(old, t)
  PROVE  RowGranted(old, Granted(old, task, until))
<1>1. old.generation \in Nat /\ old.generation + 1 \in Nat /\ old.expires \in Nat
  BY DEF Lease, PreparationLease
<1>2. ~ Live(old, clock)
  BY <1>1 DEF Live
<1> QED BY <1>1, <1>2 DEF RowGranted, Granted, Lease, PreparationLease

LEMMA EndedRow ==
  ASSUME NEW old \in Lease \cup PreparationLease, NEW s \in {"released", "revoked"}, NEW t \in Nat,
         Recorded(old)
  PROVE  RowEnded(old, Ended(old, s, t))
<1>1. old.generation \in Nat /\ old.generation + 1 \in Nat
  BY DEF Lease, PreparationLease
<1> QED BY <1>1 DEF RowEnded, Ended, Lease, PreparationLease

LEMMA RenewedRow ==
  ASSUME NEW old \in Lease \cup PreparationLease, NEW until \in Nat, NEW t,
         Live(old, t), until > old.expires
  PROVE  RowRenewed(old, Renewed(old, until))
BY DEF RowRenewed, Renewed, Live, Lease, PreparationLease

LEMMA WorkerRowStep ==
  ASSUME TypeOK, NEW i \in Items, [Next]_vars
  PROVE  RowStep(attemptLease[i], attemptLease'[i])
<1>1. /\ attemptLease[i] \in Lease /\ clock \in Nat
      /\ \A r \in Readings: r.subject \in Items /\ r.at \in 0 .. clock /\ r.at \in Nat
  BY ReadingTyped DEF TypeOK
<1>2. ASSUME NEW r \in Readings, NEW t \in Nat, Recorded(attemptLease[r.subject]),
             FenceAttempt(r.subject, t)
      PROVE  RowStep(attemptLease[i], attemptLease'[i])
  BY <1>1, <1>2, EndedRow DEF FenceAttempt, RowStep, TypeOK
<1>3. ASSUME UNCHANGED attemptLease
      PROVE  RowStep(attemptLease[i], attemptLease'[i])
  BY <1>3 DEF RowStep
<1>4. ASSUME NEW r \in Readings, AttemptAuthorityNext(r)
      PROVE  RowStep(attemptLease[i], attemptLease'[i])
  <2>1. PICK t \in RequestTimes(r):
          \/ \E task \in Tasks: AcquireAttempt(r, t, task)
          \/ RenewAttempt(r, t)
          \/ ReleaseAttempt(r, t)
          \/ RevokeAttempt(r, t)
    BY <1>4 DEF AttemptAuthorityNext
  <2>2. t \in 0 .. clock /\ t \in Nat /\ t + LeaseTime \in Nat
    BY <1>1, LeaseTimeAssumption DEF RequestTimes
  <2>3. ASSUME NEW task \in Tasks, AcquireAttempt(r, t, task), r.subject = i
        PROVE  RowStep(attemptLease[i], attemptLease'[i])
    <3>1. ~ Live(attemptLease[i], t)
      BY <2>3 DEF AcquireAttempt, Recorded, Live
    <3>2. attemptLease'[i] = Granted(attemptLease[i], task, t + LeaseTime)
      BY <1>1, <2>3 DEF AcquireAttempt, TypeOK
    <3> QED BY <1>1, <2>2, <3>1, <3>2, GrantedRow DEF RowStep
  <2>4. ASSUME RenewAttempt(r, t), r.subject = i
        PROVE  RowStep(attemptLease[i], attemptLease'[i])
    <3>1. attemptLease'[i] = Renewed(attemptLease[i], t + LeaseTime)
      BY <1>1, <2>4 DEF RenewAttempt, TypeOK
    <3> QED BY <1>1, <2>2, <2>4, <3>1, RenewedRow DEF RowStep, RenewAttempt, HolderMay
  <2>5. ASSUME ReleaseAttempt(r, t) \/ RevokeAttempt(r, t), r.subject = i
        PROVE  RowStep(attemptLease[i], attemptLease'[i])
    <3>1. \E s \in {"released", "revoked"}: attemptLease'[i] = Ended(attemptLease[i], s, t)
      BY <1>1, <2>5 DEF ReleaseAttempt, RevokeAttempt, TypeOK
    <3>2. Recorded(attemptLease[i])
      BY <2>5 DEF ReleaseAttempt, RevokeAttempt, HolderMay, RevokerMay, Live, Recorded
    <3> QED BY <1>1, <2>2, <3>1, <3>2, EndedRow DEF RowStep
  <2>6. CASE r.subject # i
    BY <1>1, <2>1, <2>6 DEF AcquireAttempt, RenewAttempt, ReleaseAttempt, RevokeAttempt,
       RowStep, TypeOK
  <2> QED BY <2>1, <2>3, <2>4, <2>5, <2>6
<1>5. ASSUME NEW r \in Readings, AttemptLifecycleNext(r)
      PROVE  RowStep(attemptLease[i], attemptLease'[i])
  <2>1. \/ UNCHANGED attemptLease
        \/ Recorded(attemptLease[r.subject]) /\ FenceAttempt(r.subject, r.at)
    BY <1>5 DEF AttemptLifecycleNext, Pause, BlockAttempt, ResumeAttempt, RebindAttempt,
       SubmitReview, ReturnForCorrection, AcceptCheckpoint, AcceptReviewAndContinue, Complete,
       FenceRetainedAttempt
  <2> QED BY <1>1, <1>2, <1>3, <2>1
<1>6. ASSUME NEW r \in Readings, ItemDecisionsNext(r)
      PROVE  RowStep(attemptLease[i], attemptLease'[i])
  <2>1. \/ UNCHANGED attemptLease
        \/ \E t \in RequestTimes(r) \cup {r.at}:
             Recorded(attemptLease[r.subject]) /\ FenceAttempt(r.subject, t)
    BY <1>6 DEF ItemDecisionsNext, MoveUnstarted, ResumeItem, BlockItem, Defer, Reopen,
       CloseDone, CloseSuperseded, Revise, RecordReplacement, RetainTemporarily, Cancel,
       FenceRetainedAttempt
  <2>2. \A t \in RequestTimes(r) \cup {r.at}: t \in Nat
    BY <1>1 DEF RequestTimes
  <2> QED BY <1>2, <1>3, <2>1, <2>2
<1>7. ASSUME NEW r \in Readings, PreparationNext(r)
      PROVE  UNCHANGED attemptLease
  BY <1>7 DEF PreparationNext, StartPreparation, RenewPreparation, ReleasePreparation,
     RevokePreparation, Activate
<1>8. ASSUME Tick \/ (\E j \in Items: Read(j)) \/ (\E r \in readings: Forget(r))
             \/ UNCHANGED vars
      PROVE  UNCHANGED attemptLease
  BY <1>8 DEF Tick, Read, Forget, ledger, vars
<1> QED BY <1>3, <1>4, <1>5, <1>6, <1>7, <1>8 DEF Next

LEMMA PreparerRowStep ==
  ASSUME TypeOK, NEW i \in Items, [Next]_vars
  PROVE  RowStep(preparationLease[i], preparationLease'[i])
<1>1. /\ preparationLease[i] \in PreparationLease /\ definition[i].rev \in Nat /\ clock \in Nat
      /\ \A r \in Readings: r.subject \in Items /\ r.at \in 0 .. clock /\ r.at \in Nat
  BY ReadingTyped DEF TypeOK, Definition
<1>2. ASSUME UNCHANGED preparationLease
      PROVE  RowStep(preparationLease[i], preparationLease'[i])
  BY <1>2 DEF RowStep
<1>3. ASSUME NEW t \in Nat, NEW s \in {"released", "revoked"}, Recorded(preparationLease[i]),
             preparationLease'[i] = Ended(preparationLease[i], s, t)
      PROVE  RowStep(preparationLease[i], preparationLease'[i])
  BY <1>1, <1>3, EndedRow DEF RowStep
<1>4. ASSUME NEW r \in Readings, PreparationNext(r), r.subject = i
      PROVE  RowStep(preparationLease[i], preparationLease'[i])
  <2>1. \A t \in RequestTimes(r): t \in 0 .. clock /\ t \in Nat /\ t + LeaseTime \in Nat
    BY <1>1, LeaseTimeAssumption DEF RequestTimes
  <2>2. ASSUME NEW t \in RequestTimes(r), NEW task \in Tasks, StartPreparation(r, t, task)
        PROVE  RowStep(preparationLease[i], preparationLease'[i])
    <3> DEFINE new == Granted(preparationLease[i], task, t + LeaseTime)
    <3>1. ~ Live(preparationLease[i], t)
      BY <1>4, <2>2 DEF StartPreparation
    <3>2. RowGranted(preparationLease[i], new) /\ new \in PreparationLease
      BY ZenonT(40), <1>1, <2>1, <3>1, GrantedRow, ClaimGrantedTyped
      DEF Granted, PreparationLease, Status
    <3>3. preparationLease'[i] = [new EXCEPT !.pin = definition[i].rev]
      BY <1>1, <1>4, <2>2 DEF StartPreparation, TypeOK
    <3>4. RowGranted(preparationLease[i], preparationLease'[i])
      <4> HIDE DEF new
      <4> QED BY <3>2, <3>3 DEF RowGranted, PreparationLease
    <3> QED BY <3>4 DEF RowStep
  <2>3. ASSUME NEW t \in RequestTimes(r), RenewPreparation(r, t)
        PROVE  RowStep(preparationLease[i], preparationLease'[i])
    <3>1. preparationLease'[i] = Renewed(preparationLease[i], t + LeaseTime)
      BY <1>1, <1>4, <2>3 DEF RenewPreparation, TypeOK
    <3> QED
      BY <1>1, <1>4, <2>1, <2>3, <3>1, RenewedRow DEF RowStep, RenewPreparation, PreparerMay, HolderMay
  <2>4. ASSUME NEW t \in RequestTimes(r), ReleasePreparation(r, t) \/ RevokePreparation(r, t)
        PROVE  RowStep(preparationLease[i], preparationLease'[i])
    <3>1. \E s \in {"released", "revoked"}:
            preparationLease'[i] = Ended(preparationLease[i], s, t)
      BY <1>1, <1>4, <2>4 DEF ReleasePreparation, RevokePreparation, TypeOK
    <3>2. Recorded(preparationLease[i])
      BY <1>4, <2>4 DEF ReleasePreparation, RevokePreparation, PreparerMay, HolderMay, RevokerMay,
         Live, Recorded
    <3> QED BY <1>3, <2>1, <3>1, <3>2
  <2>5. ASSUME Activate(r)
        PROVE  RowStep(preparationLease[i], preparationLease'[i])
    <3>1. preparationLease'[i] = Ended(preparationLease[i], "revoked", r.at)
      BY <1>1, <1>4, <2>5 DEF Activate, TypeOK
    <3>2. Recorded(preparationLease[i])
      BY <1>4, <2>5 DEF Activate, PreparerAuthority, PreparationLive, Live, Recorded
    <3> QED BY <1>1, <1>3, <3>1, <3>2
  <2> QED BY <1>4, <2>2, <2>3, <2>4, <2>5 DEF PreparationNext
<1>5. ASSUME NEW r \in Readings, PreparationNext(r), r.subject # i
      PROVE  RowStep(preparationLease[i], preparationLease'[i])
  BY <1>1, <1>5 DEF PreparationNext, StartPreparation, RenewPreparation, ReleasePreparation,
     RevokePreparation, Activate, RowStep, TypeOK
<1>6. ASSUME NEW r \in Readings, ItemDecisionsNext(r)
      PROVE  RowStep(preparationLease[i], preparationLease'[i])
  <2>1. ASSUME NEW t \in RequestTimes(r), Cancel(r, t)
        PROVE  RowStep(preparationLease[i], preparationLease'[i])
    <3>1. \/ preparationLease'[i] = preparationLease[i]
          \/ /\ Recorded(preparationLease[i])
             /\ preparationLease'[i] = Ended(preparationLease[i], "revoked", t)
      BY <1>1, <2>1 DEF Cancel, TypeOK
    <3>2. t \in Nat
      BY <1>1 DEF RequestTimes
    <3> QED BY <1>3, <3>1, <3>2 DEF RowStep
  <2>2. CASE ~ \E t \in RequestTimes(r): Cancel(r, t)
    BY <1>2, <1>6, <2>2 DEF ItemDecisionsNext, MoveUnstarted, ResumeItem, BlockItem, Defer, Reopen,
       CloseDone, CloseSuperseded, Revise, RecordReplacement, RetainTemporarily
  <2> QED BY <2>1, <2>2
<1>7. ASSUME NEW r \in Readings, AttemptAuthorityNext(r) \/ AttemptLifecycleNext(r)
      PROVE  UNCHANGED preparationLease
  BY <1>7 DEF AttemptAuthorityNext, AcquireAttempt, RenewAttempt, ReleaseAttempt, RevokeAttempt,
     AttemptLifecycleNext, Pause, BlockAttempt, ResumeAttempt, RebindAttempt, SubmitReview,
     ReturnForCorrection, AcceptCheckpoint, AcceptReviewAndContinue, Complete
<1>8. ASSUME Tick \/ (\E j \in Items: Read(j)) \/ (\E r \in readings: Forget(r))
             \/ UNCHANGED vars
      PROVE  UNCHANGED preparationLease
  BY <1>8 DEF Tick, Read, Forget, ledger, vars
<1> QED BY <1>2, <1>4, <1>5, <1>6, <1>7, <1>8 DEF Next

\* Time passes alone: a step that moves a row happens at one moment.
LEMMA TimePassesAlone ==
  ASSUME TypeOK, [Next]_vars
  PROVE  \/ clock' = clock
         \/ clock' = clock + 1 /\ UNCHANGED <<attemptLease, preparationLease>>
<1>1. ASSUME NEW r \in Readings, PreparationNext(r) \/ AttemptAuthorityNext(r)
      PROVE  clock' = clock
  BY <1>1 DEF PreparationNext, StartPreparation, RenewPreparation, ReleasePreparation,
     RevokePreparation, Activate, AttemptAuthorityNext, AcquireAttempt, RenewAttempt,
     ReleaseAttempt, RevokeAttempt, Commit
<1>2. ASSUME NEW r \in Readings, AttemptLifecycleNext(r)
      PROVE  clock' = clock
  BY <1>2 DEF AttemptLifecycleNext, Pause, BlockAttempt, ResumeAttempt, RebindAttempt,
     SubmitReview, ReturnForCorrection, AcceptCheckpoint, AcceptReviewAndContinue, Complete, Commit
<1>3. ASSUME NEW r \in Readings, ItemDecisionsNext(r)
      PROVE  clock' = clock
  BY <1>3 DEF ItemDecisionsNext, MoveUnstarted, ResumeItem, BlockItem, Defer, Reopen, CloseDone,
     CloseSuperseded, Revise, RecordReplacement, RetainTemporarily, Cancel, Commit
<1> QED BY <1>1, <1>2, <1>3 DEF Next, Tick, Read, Forget, ledger, vars

LEMMA NextHeld ==
  ASSUME TypeOK, RowsHeld, [Next]_vars
  PROVE  RowsHeld'
<1>1. ASSUME NEW old \in Lease \cup PreparationLease, NEW new, HeldRow(old), RowStep(old, new)
      PROVE  HeldRow(new)
  <2>1. old.generation \in Nat
    BY DEF Lease, PreparationLease
  <2> QED
    BY <1>1, <2>1 DEF HeldRow, RowStep, RowGranted, RowRenewed, RowEnded, Recorded
<1> SUFFICES ASSUME NEW i \in Items
             PROVE  HeldRow(attemptLease'[i]) /\ HeldRow(preparationLease'[i])
  BY DEF RowsHeld, HeldRow, Recorded
<1>2. attemptLease[i] \in Lease /\ preparationLease[i] \in PreparationLease
  BY DEF TypeOK
<1> QED BY <1>1, <1>2, WorkerRowStep, PreparerRowStep DEF RowsHeld

\* Each step of a worker's row is a step of FencedLease, or none.
LEMMA WorkerStepFenced ==
  ASSUME TypeOK, RowsHeld, NEW i \in Items, [Next]_vars
  PROVE  [AttemptGrant(i)!Next]_(AttemptGrant(i)!vars)
<1> DEFINE old == attemptLease[i]
           new == attemptLease'[i]
<1>1. /\ old \in Lease /\ clock \in Nat /\ HeldRow(old) /\ old.generation \in Nat
      /\ RowStep(old, new)
      /\ clock' = clock \/ (clock' = clock + 1 /\ UNCHANGED <<attemptLease, preparationLease>>)
  BY WorkerRowStep, TimePassesAlone DEF TypeOK, RowsHeld, Lease
<1>2. CASE new = old
  BY <1>1, <1>2 DEF AttemptGrant!Next, AttemptGrant!Tick, AttemptGrant!vars, Holder, Deadline
<1>3. CASE RowGranted(old, new) /\ clock' = clock
  <2>1. AttemptGrant(i)!Lapsed
    BY <1>1, <1>3, TasksAssumption DEF AttemptGrant!Lapsed, RowGranted, Live, Holder, Deadline, Lease
  <2>2. AttemptGrant(i)!Grant(new.holder)
    BY <1>3, <2>1 DEF AttemptGrant!Grant, RowGranted, Holder, Deadline
  <2> QED BY <1>3, <2>2 DEF AttemptGrant!Next, RowGranted
<1>4. CASE RowRenewed(old, new) /\ clock' = clock
  <2>1. AttemptGrant(i)!Extend
    BY <1>1, <1>4, TasksAssumption DEF AttemptGrant!Extend, RowRenewed, HeldRow, Holder, Deadline
  <2> QED BY <2>1 DEF AttemptGrant!Next
<1>5. CASE RowEnded(old, new) /\ clock' = clock
  <2>1. AttemptGrant(i)!End
    BY <1>1, <1>5 DEF AttemptGrant!End, RowEnded, HeldRow, Holder, Deadline
  <2> QED BY <2>1 DEF AttemptGrant!Next
<1> QED BY <1>1, <1>2, <1>3, <1>4, <1>5 DEF RowStep

\* The same for a preparer's row.
LEMMA PreparerStepFenced ==
  ASSUME TypeOK, RowsHeld, NEW i \in Items, [Next]_vars
  PROVE  [PreparationGrant(i)!Next]_(PreparationGrant(i)!vars)
<1> DEFINE old == preparationLease[i]
           new == preparationLease'[i]
<1>1. /\ old \in PreparationLease /\ clock \in Nat /\ HeldRow(old) /\ old.generation \in Nat
      /\ RowStep(old, new)
      /\ clock' = clock \/ (clock' = clock + 1 /\ UNCHANGED <<attemptLease, preparationLease>>)
  BY PreparerRowStep, TimePassesAlone DEF TypeOK, RowsHeld, PreparationLease
<1>2. CASE new = old
  BY <1>1, <1>2 DEF PreparationGrant!Next, PreparationGrant!Tick, PreparationGrant!vars,
     Holder, Deadline
<1>3. CASE RowGranted(old, new) /\ clock' = clock
  <2>1. PreparationGrant(i)!Lapsed
    BY <1>1, <1>3, TasksAssumption
    DEF PreparationGrant!Lapsed, RowGranted, Live, Holder, Deadline, PreparationLease
  <2>2. PreparationGrant(i)!Grant(new.holder)
    BY <1>3, <2>1 DEF PreparationGrant!Grant, RowGranted, Holder, Deadline
  <2> QED BY <1>3, <2>2 DEF PreparationGrant!Next, RowGranted
<1>4. CASE RowRenewed(old, new) /\ clock' = clock
  <2>1. PreparationGrant(i)!Extend
    BY <1>1, <1>4, TasksAssumption
    DEF PreparationGrant!Extend, RowRenewed, HeldRow, Holder, Deadline
  <2> QED BY <2>1 DEF PreparationGrant!Next
<1>5. CASE RowEnded(old, new) /\ clock' = clock
  <2>1. PreparationGrant(i)!End
    BY <1>1, <1>5 DEF PreparationGrant!End, RowEnded, HeldRow, Holder, Deadline
  <2> QED BY <2>1 DEF PreparationGrant!Next
<1> QED BY <1>1, <1>2, <1>3, <1>4, <1>5 DEF RowStep

LEMMA Held == Spec => []RowsHeld
<1>1. Init => RowsHeld
  BY DEF Init, RowsHeld, HeldRow, Recorded, NoLease, NoPreparation
<1> QED BY <1>1, Typed, NextHeld, PTL DEF Spec

\* The worker authority over every attempt implements FencedLease (AttemptIsFenced): one
\* grant at a time by the clock, and a generation for every grant and every end.
THEOREM WorkersFenced == Spec => AttemptIsFenced
<1>1. Init => \A i \in Items: AttemptGrant(i)!Init
  BY DEF Init, AttemptGrant!Init, NoLease, Holder, Deadline
<1>2. TypeOK /\ RowsHeld /\ [Next]_vars
        => [\A i \in Items: [AttemptGrant(i)!Next]_(AttemptGrant(i)!vars)]_vars
  BY WorkerStepFenced
<1> QED BY <1>1, <1>2, Typed, Held, PTL DEF Spec, AttemptIsFenced

\* The preparation authority over every item implements FencedLease (PreparationIsFenced),
\* activation and cancellation included.
THEOREM PreparersFenced == Spec => PreparationIsFenced
<1>1. Init => \A i \in Items: PreparationGrant(i)!Init
  BY DEF Init, PreparationGrant!Init, NoPreparation, Holder, Deadline
<1>2. TypeOK /\ RowsHeld /\ [Next]_vars
        => [\A i \in Items: [PreparationGrant(i)!Next]_(PreparationGrant(i)!vars)]_vars
  BY PreparerStepFenced
<1> QED BY <1>1, <1>2, Typed, Held, PTL DEF Spec, PreparationIsFenced

\* Seen from one item, the board is FencedLease itself: the authority over its attempt,
\* with the board's clock, behaves like the specification of a single fenced lease.
THEOREM WorkerRefinement ==
  ASSUME NEW CONSTANT i \in Items
  PROVE  Spec => AttemptGrant(i)!Spec
<1>1. Init => AttemptGrant(i)!Init
  BY DEF Init, AttemptGrant!Init, NoLease, Holder, Deadline
<1>2. TypeOK /\ RowsHeld /\ [Next]_vars => [AttemptGrant(i)!Next]_(AttemptGrant(i)!vars)
  BY WorkerStepFenced
<1> QED BY <1>1, <1>2, Typed, Held, PTL DEF Spec, AttemptGrant!Spec

\* And so does the authority over its preparation.
THEOREM PreparerRefinement ==
  ASSUME NEW CONSTANT i \in Items
  PROVE  Spec => PreparationGrant(i)!Spec
<1>1. Init => PreparationGrant(i)!Init
  BY DEF Init, PreparationGrant!Init, NoPreparation, Holder, Deadline
<1>2. TypeOK /\ RowsHeld /\ [Next]_vars => [PreparationGrant(i)!Next]_(PreparationGrant(i)!vars)
  BY PreparerStepFenced
<1> QED BY <1>1, <1>2, Typed, Held, PTL DEF Spec, PreparationGrant!Spec
=============================================================================
