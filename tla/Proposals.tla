----------------------------- MODULE Proposals ------------------------------
(***************************************************************************)
(* How items come into the ledger, and how one that nobody started leaves  *)
(* it again without a decision about the item itself.  Every item begins   *)
(* as a proposal; its rows and the ones of the item it is related to are   *)
(* written in one transaction (domain/proposal_decisions.py).              *)
(***************************************************************************)
EXTENDS Board

VARIABLE existing   \* the items that have rows; the others stay as in Init

intakeVars == <<vars, existing>>

\* The ledger of a new project is empty.
IntakeInit ==
  /\ existing = {}
  /\ definition = [i \in Items |-> [rev |-> 1, deps |-> {}]]
  /\ Init

-----------------------------------------------------------------------------
\* A wait that may be written now: a checkpoint is declared by a live item only.
Authored(d) ==
  /\ d.item \in existing
  /\ d.checkpoint # WholeItem => item[d.item].state \in LiveStates

\* The rows of a new item, and the subject revision of the items it touches.
CreateRow(new, touched) ==
  item' = [i \in Items |->
    IF i = new THEN [state |-> "ready", rev |-> NextRevision]
    ELSE [item[i] EXCEPT !.rev = IF i \in touched THEN NextRevision ELSE @]]

Create(new, touched, t) ==
  /\ "create-proposal" \in Kinds
  /\ Commit(t)
  /\ new \in Items \ existing
  /\ existing' = existing \cup {new}
  /\ CreateRow(new, touched)
  /\ UNCHANGED <<attempt, attemptLease, preparationLease, accepted>>

\* Independent, a clarification, a duplicate or a contradiction: nothing but the item.
ProposeAlone(new, t) ==
  /\ Create(new, {}, t)
  /\ UNCHANGED <<definition, replacement>>

\* The new item waits for an item or for a checkpoint of it.
ProposeFollowUp(new, d, t) ==
  /\ Authored(d)
  /\ Create(new, {}, t)
  /\ definition' = [definition EXCEPT ![new].deps = {d}]
  /\ UNCHANGED replacement

\* Mutant: a live claim on the related item is not looked for.
ProposePrerequisiteUnclaimed(new, i, t) ==
  /\ i \in existing /\ item[i].state \in LiveStates
  /\ Create(new, {i}, t)
  /\ definition' = [definition EXCEPT ![i] =
       [rev |-> @.rev + 1, deps |-> @.deps \cup {[item |-> new, checkpoint |-> WholeItem]}]]
  /\ UNCHANGED replacement

\* A live item waits for the new one from now on, by a new revision of its definition;
\* one that ended is left alone.
ProposePrerequisite(new, i, t) ==
  /\ i \in existing
  /\ ~ Live(preparationLease[i], t)
  /\ IF item[i].state \in LiveStates
     THEN /\ Create(new, {i}, t)
          /\ definition' = [definition EXCEPT ![i] =
               [rev |-> @.rev + 1, deps |-> @.deps \cup {[item |-> new, checkpoint |-> WholeItem]}]]
     ELSE /\ Create(new, {}, t)
          /\ UNCHANGED definition
  /\ UNCHANGED replacement

\* The new item is planned to replace another one, whatever state that is in.
ProposeReplacement(new, i, t) ==
  /\ i \in existing
  /\ Create(new, {i}, t)
  /\ replacement' = [replacement EXCEPT ![i] =
       [rev |-> @.rev + 1, by |-> new, status |-> "current", retained |-> FALSE]]
  /\ UNCHANGED definition

-----------------------------------------------------------------------------
\* The proposal of an item that was never started and that nobody prepares.  The
\* capability carries the revision of the proposal's own row, so what the item went
\* through since it was proposed does not matter.
Unstarted(i) ==
  /\ i \in existing
  /\ item[i].state \in {"ready", "blocked", "deferred"}
  /\ ~ HasAttempt(i)
  /\ ~ PreparationLive(i)

EndProposal(i, outcome, t) ==
  /\ Unstarted(i)
  /\ SetItemState(i, outcome)
  /\ Commit(t)
  /\ UNCHANGED <<existing, definition, attempt, attemptLease, preparationLease,
                 replacement, accepted>>

\* The target only has to exist.
MergeProposal(i, target, t) ==
  /\ "merge-proposal" \in Kinds
  /\ target \in existing
  /\ EndProposal(i, "superseded", t)

RejectProposal(i, t) ==
  /\ "reject-proposal" \in Kinds
  /\ EndProposal(i, "dropped", t)

ProposalsNext(t) ==
  \E i \in Items:
    \/ ProposeAlone(i, t)
    \/ \E d \in Dependency: ProposeFollowUp(i, d, t)
    \/ \E related \in Items:
         \/ ProposePrerequisite(i, related, t)
         \/ ProposeReplacement(i, related, t)
         \/ MergeProposal(i, related, t)
    \/ RejectProposal(i, t)

\* What the rest of the board does, to items that exist and naming items that exist.
BoardNext ==
  /\ \/ Tick
     \/ \E i \in existing: Read(i)
     \/ \E r \in readings: Forget(r)
     \/ \E r \in {r \in Readings: r.subject \in existing}:
          \/ PreparationNext(r)
          \/ AttemptAuthorityNext(r)
          \/ AttemptLifecycleNext(r)
          \/ ItemDecisionsNext(r)
  /\ \A i \in existing: /\ Prerequisites(definition'[i].deps) \subseteq existing
                        /\ replacement'[i].by \in existing \cup {NoItem}
  /\ UNCHANGED existing
=============================================================================
