-------------------------- MODULE AttemptAuthority --------------------------
(***************************************************************************)
(* The worker authority over an attempt: acquired once the attempt is      *)
(* active, renewed and released by its holder, revoked by the project and  *)
(* transferred when it ended or expired.                                   *)
(***************************************************************************)
EXTENDS BoardState

\* Initial acquisition needs an active attempt; a transfer only a nonterminal one.
AcquireAttempt(r, t, task) ==
  LET i == r.subject IN
  /\ "acquire-attempt" \in Kinds
  /\ IF Recorded(attemptLease[i]) THEN HasAttempt(i) /\ ~ Live(attemptLease[i], t)
     ELSE attempt[i].state = "active"
  /\ attemptLease' = [attemptLease EXCEPT ![i] = Granted(@, task, t + LeaseTime)]
  /\ Commit(t)
  /\ UNCHANGED <<item, definition, attempt, preparationLease, replacement, accepted>>

RenewAttempt(r, t) ==
  LET i == r.subject IN
  /\ "renew-attempt" \in Kinds
  /\ HolderMay(attemptLease[i], r.attemptLease, t)
  /\ t + LeaseTime > attemptLease[i].expires
  /\ attemptLease' = [attemptLease EXCEPT ![i] = Renewed(@, t + LeaseTime)]
  /\ Commit(t)
  /\ UNCHANGED <<item, definition, attempt, preparationLease, replacement, accepted>>

ReleaseAttempt(r, t) ==
  LET i == r.subject IN
  /\ "release-attempt" \in Kinds
  /\ HolderMay(attemptLease[i], r.attemptLease, t)
  /\ attemptLease' = [attemptLease EXCEPT ![i] = Ended(@, "released", t)]
  /\ Commit(t)
  /\ UNCHANGED <<item, definition, attempt, preparationLease, replacement, accepted>>

RevokeAttempt(r, t) ==
  LET i == r.subject IN
  /\ "revoke-attempt" \in Kinds
  /\ RevokerMay(attemptLease[i], r.attemptLease)
  /\ attemptLease' = [attemptLease EXCEPT ![i] = Ended(@, "revoked", t)]
  /\ Commit(t)
  /\ UNCHANGED <<item, definition, attempt, preparationLease, replacement, accepted>>

AttemptAuthorityNext(r) ==
  \E t \in RequestTimes(r):
    \/ \E task \in Tasks: AcquireAttempt(r, t, task)
    \/ RenewAttempt(r, t)
    \/ ReleaseAttempt(r, t)
    \/ RevokeAttempt(r, t)
=============================================================================
