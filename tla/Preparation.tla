----------------------------- MODULE Preparation ----------------------------
(***************************************************************************)
(* Preparation of a ready item: an agent claims it while it compiles the   *)
(* brief of the work, and activation turns the claim into an attempt.      *)
(***************************************************************************)
EXTENDS BoardState

\* Mutant: the claim is taken by what was read before the lock.
StartPreparationOnReading(r, t, task) ==
  LET i == r.subject IN
  /\ "start-preparation" \in Kinds
  /\ ~ Live(r.preparationLease, t)
  /\ item[i].state = "ready"
  /\ preparationLease' =
       [preparationLease EXCEPT ![i] =
          [Granted(@, task, t + LeaseTime) EXCEPT !.pin = definition[i].rev]]
  /\ Commit(t)
  /\ UNCHANGED <<item, definition, attempt, attemptLease, replacement, accepted>>

\* A new claim, or the transfer of one that was inactive when the request was made.
StartPreparation(r, t, task) ==
  LET i == r.subject IN
  /\ "start-preparation" \in Kinds
  /\ ClaimReadable(i)
  /\ ~ Live(preparationLease[i], t)
  /\ item[i].state = "ready"
  /\ ~ UnresolvedReplacement(i)
  /\ DependenciesSatisfied(i)
  /\ preparationLease' =
       [preparationLease EXCEPT ![i] =
          [Granted(@, task, t + LeaseTime) EXCEPT !.pin = definition[i].rev]]
  /\ Commit(t)
  /\ UNCHANGED <<item, definition, attempt, attemptLease, replacement, accepted>>

\* The exact holder's request, live when it was made.
PreparerMay(r, t) ==
  /\ ClaimReadable(r.subject)
  /\ HolderMay(preparationLease[r.subject], r.preparationLease, t)
  /\ preparationLease[r.subject].pin = r.preparationLease.pin

\* Mutant: the renewed claim is not read back.
RenewPreparationUnread(r, t) ==
  LET i == r.subject IN
  /\ "renew-preparation" \in Kinds
  /\ PreparerMay(r, t)
  /\ t + LeaseTime > preparationLease[i].expires
  /\ preparationLease' = [preparationLease EXCEPT ![i] = Renewed(@, t + LeaseTime)]
  /\ Commit(t)
  /\ UNCHANGED <<item, definition, attempt, attemptLease, replacement, accepted>>

\* The committed claim is read back inside its transaction, which fails when it
\* looks live and its item is no longer ready at the pinned definition.
RenewPreparation(r, t) ==
  LET i == r.subject IN
  /\ "renew-preparation" \in Kinds
  /\ PreparerMay(r, t)
  /\ t + LeaseTime > preparationLease[i].expires
  /\ preparationLease' = [preparationLease EXCEPT ![i] = Renewed(@, t + LeaseTime)]
  /\ Commit(t)
  /\ UNCHANGED <<item, definition, attempt, attemptLease, replacement, accepted>>
  /\ ClaimReadable(i)'

ReleasePreparation(r, t) ==
  LET i == r.subject IN
  /\ "release-preparation" \in Kinds
  /\ PreparerMay(r, t)
  /\ preparationLease' = [preparationLease EXCEPT ![i] = Ended(@, "released", t)]
  /\ Commit(t)
  /\ UNCHANGED <<item, definition, attempt, attemptLease, replacement, accepted>>

\* The project revokes a claim by its holder and generation.
RevokePreparation(r, t) ==
  LET i == r.subject IN
  /\ "revoke-preparation" \in Kinds
  /\ ClaimReadable(i)
  /\ RevokerMay(preparationLease[i], r.preparationLease)
  /\ preparationLease' = [preparationLease EXCEPT ![i] = Ended(@, "revoked", t)]
  /\ Commit(t)
  /\ UNCHANGED <<item, definition, attempt, attemptLease, replacement, accepted>>

\* The claim is consumed, the attempt created and the item started in one step.
Activate(r) ==
  LET i == r.subject IN
  /\ Selected(r, "activate")
  /\ PreparerAuthority(r)
  /\ preparationLease[i].pin = definition[i].rev
  /\ SetItemState(i, "active")
  /\ preparationLease' = [preparationLease EXCEPT ![i] = Ended(@, "revoked", r.at)]
  /\ attempt[i].state = "none"
  /\ attempt' = [attempt EXCEPT ![i] =
       [NoAttempt EXCEPT !.state = "active", !.rev = NextRevision,
                         !.scope = definition[i].rev]]
  /\ Commit(r.at)
  /\ UNCHANGED <<definition, attemptLease, replacement, accepted>>

PreparationNext(r) ==
  \/ \E t \in RequestTimes(r):
       \/ \E task \in Tasks: StartPreparation(r, t, task)
       \/ RenewPreparation(r, t)
       \/ ReleasePreparation(r, t)
       \/ RevokePreparation(r, t)
  \/ Activate(r)
=============================================================================
