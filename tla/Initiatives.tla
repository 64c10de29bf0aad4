---------------------------- MODULE Initiatives -----------------------------
(***************************************************************************)
(* Initiatives group items under a goal with an observable success signal. *)
(* Their tables only grow: revisions of the definition, the contexts that  *)
(* judgments refer to, membership episodes, human decisions, assessments.  *)
(* One request is one transaction and adds one note to one history         *)
(* (domain/initiatives.py, adapters/sqlite/initiatives.py); whole-database *)
(* validation reads all of it back.                                        *)
(***************************************************************************)
EXTENDS Naturals, FiniteSets, FiniteSetsExt

CONSTANTS Initiatives,
          Items,
          Goals,        \* a goal together with its success signal
          MaxRevision,  \* bound: how many transactions commit
          MaxReadings   \* bound: readings that agents hold at once

ASSUME InitiativesBounds == MaxRevision \in Nat /\ MaxReadings \in Nat

VARIABLES
  revision,     \* project_meta.revision
  items,        \* work_items
  subject,      \* initiatives: the subject revision, 0 where there is no row
  revisions,    \* initiative_revisions
  contexts,     \* initiative_contexts
  memberships,  \* initiative_memberships; removed is 0 for NULL
  decisions,    \* initiative_decisions
  assessments,  \* initiative_assessments, each with the goal its author meant
  readings      \* what agents read of initiatives and may still act upon

history == <<revisions, contexts, memberships, decisions, assessments>>
vars == <<revision, items, subject, history, readings>>

NextRevision == revision + 1

Of(n, rows) == {row \in rows: row.initiative = n}

\* The revision that read_current selects.
Current(n) ==
  CHOOSE row \in Of(n, revisions): \A other \in Of(n, revisions): other.revision <= row.revision

Reading(n) ==
  [initiative |-> n, revision |-> subject[n],
   context |-> Current(n).context, goal |-> Current(n).goal]

Readings == readings \cup {Reading(n): n \in {m \in Initiatives: subject[m] > 0}}

Active(n, i) ==
  \E row \in Of(n, memberships): row.item = i /\ row.removed = 0

Init ==
  /\ revision = 0
  /\ items = {}
  /\ subject = [n \in Initiatives |-> 0]
  /\ revisions = {} /\ contexts = {} /\ memberships = {}
  /\ decisions = {} /\ assessments = {}
  /\ readings = {}

Read(n) ==
  /\ Cardinality(readings) < MaxReadings
  /\ subject[n] > 0
  /\ readings' = readings \cup {Reading(n)}
  /\ UNCHANGED <<revision, items, subject, history>>

Forget(r) ==
  /\ readings' = readings \ {r}
  /\ UNCHANGED <<revision, items, subject, history>>

\* Every other transaction of the ledger; one that creates an item.
CreateItem(i) ==
  /\ revision < MaxRevision
  /\ i \notin items
  /\ items' = items \cup {i}
  /\ revision' = NextRevision
  /\ UNCHANGED <<subject, history, readings>>

-----------------------------------------------------------------------------
\* Both revisions advance together with the one note that is written.
Commit(n) ==
  /\ revision < MaxRevision
  /\ revision' = NextRevision
  /\ subject' = [subject EXCEPT ![n] = @ + 1]
  /\ UNCHANGED <<items, readings>>

\* A definition with its context, whose row is new when the context is.
Define(n, context, goal) ==
  /\ revisions' = revisions \cup
       {[initiative |-> n, revision |-> subject[n] + 1, context |-> context,
         goal |-> goal, at |-> NextRevision]}
  /\ contexts' = contexts \cup {[initiative |-> n, context |-> context, goal |-> goal]}
  /\ UNCHANGED <<memberships, decisions, assessments>>

Create(n, goal) ==
  /\ subject[n] = 0
  /\ Define(n, 1, goal)
  /\ Commit(n)

\* The request names the subject revision that its author read.
Expected(r) == r.revision = subject[r.initiative]

Revise(r, goal) ==
  LET n == r.initiative
      context == Current(n).context + (IF goal = Current(n).goal THEN 0 ELSE 1)
  IN  /\ Expected(r)
      /\ Define(n, context, goal)
      /\ Commit(n)

\* Mutant: episodes are counted over active memberships.
NextActiveEpisode(n, i) ==
  1 + Max({0} \cup {row.episode: row \in {m \in Of(n, memberships): m.item = i /\ m.removed = 0}})

NextEpisode(n, i) ==
  1 + Max({0} \cup {row.episode: row \in {m \in Of(n, memberships): m.item = i}})

AddMember(r, i) ==
  LET n == r.initiative IN
  /\ Expected(r)
  /\ i \in items /\ ~ Active(n, i)
  /\ memberships' = memberships \cup
       {[initiative |-> n, item |-> i, episode |-> NextEpisode(n, i),
         added |-> NextRevision, removed |-> 0]}
  /\ Commit(n)
  /\ UNCHANGED <<revisions, contexts, decisions, assessments>>

RemoveMember(r, i) ==
  LET n == r.initiative
      Ended(row) == row.initiative = n /\ row.item = i /\ row.removed = 0
  IN  /\ Expected(r)
      /\ Active(n, i)
      /\ memberships' = {IF Ended(row) THEN [row EXCEPT !.removed = NextRevision] ELSE row:
                           row \in memberships}
      /\ Commit(n)
      /\ UNCHANGED <<revisions, contexts, decisions, assessments>>

RecordDecision(r) ==
  /\ Expected(r)
  /\ decisions' = decisions \cup {[initiative |-> r.initiative, at |-> NextRevision]}
  /\ Commit(r.initiative)
  /\ UNCHANGED <<revisions, contexts, memberships, assessments>>

\* Mutant: a fresh subject revision is enough to judge.
AssessAnyContext(r, e) ==
  LET n == r.initiative IN
  /\ Expected(r)
  /\ e.initiative = n
  /\ assessments' = assessments \cup
       {[initiative |-> n, at |-> NextRevision, context |-> Current(n).context,
         meant |-> e.goal]}
  /\ Commit(n)
  /\ UNCHANGED <<revisions, contexts, memberships, decisions>>

\* A judgment names the context that was evaluated, maybe from an earlier reading than
\* the one that gave the subject revision: refusals ask to read that one again.
Assess(r, e) ==
  LET n == r.initiative IN
  /\ Expected(r)
  /\ e.initiative = n /\ e.context = Current(n).context
  /\ assessments' = assessments \cup
       {[initiative |-> n, at |-> NextRevision, context |-> Current(n).context,
         meant |-> e.goal]}
  /\ Commit(n)
  /\ UNCHANGED <<revisions, contexts, memberships, decisions>>

Next ==
  \/ \E n \in Initiatives: Read(n) \/ \E goal \in Goals: Create(n, goal)
  \/ \E r \in readings: Forget(r)
  \/ \E i \in Items: CreateItem(i)
  \/ \E r \in Readings:
       \/ \E goal \in Goals: Revise(r, goal)
       \/ \E i \in Items: AddMember(r, i) \/ RemoveMember(r, i)
       \/ RecordDecision(r)
       \/ \E e \in Readings: Assess(r, e)

Spec == Init /\ [][Next]_vars

-----------------------------------------------------------------------------
\* The commits that wrote the history of an initiative, one for each note.
Removals(n) == {row \in Of(n, memberships): row.removed > 0}

Commits(n) ==
  {row.at: row \in Of(n, revisions) \cup Of(n, decisions) \cup Of(n, assessments)}
  \cup {row.added: row \in Of(n, memberships)} \cup {row.removed: row \in Removals(n)}

Notes(n) ==
  Cardinality(Of(n, revisions)) + Cardinality(Of(n, decisions)) + Cardinality(Of(n, assessments))
  + Cardinality(Of(n, memberships)) + Cardinality(Removals(n))

\* The context grows by one with every revision that changes the goal, also back to an
\* earlier one.
ContextChain(rows) ==
  /\ \E row \in rows: row.revision = 1 /\ row.context = 1
  /\ \A row, next \in rows:
       /\ row.revision < next.revision
       /\ ~ \E between \in rows: between.revision \in (row.revision + 1) .. (next.revision - 1)
       => next.context = row.context + (IF next.goal = row.goal THEN 0 ELSE 1)

Episodes(n, i) == {row.episode: row \in {m \in Of(n, memberships): m.item = i}}

\* Whatever revisions, memberships and judgments are asked for, in whatever order and from
\* readings of whatever age, reading the database back finds it valid: a history that is
\* refused makes the whole state unreadable (validate_all, read_selected).
InitiativesValidate ==
  /\ \A n \in {m \in Initiatives: subject[m] > 0}:
       /\ ContextChain(Of(n, revisions))
       /\ \A row \in Of(n, revisions): row.revision <= subject[n]
       /\ \A i \in Items: Episodes(n, i) = 1 .. Cardinality(Episodes(n, i))
       /\ \A row, other \in Of(n, memberships):
            row # other /\ row.item = other.item => row.episode # other.episode
       /\ subject[n] = Notes(n)
       /\ Commits(n) \subseteq 1 .. revision
       /\ Cardinality(Commits(n)) = Notes(n)
  /\ \A n, m \in Initiatives: n # m => Commits(n) \cap Commits(m) = {}
  /\ contexts = {[initiative |-> row.initiative, context |-> row.context, goal |-> row.goal]:
                   row \in revisions}

\* A judgment is shown with the goal that its author evaluated, and that goal was the
\* initiative's when the judgment was committed: goals that change and come back do not
\* take over the judgments of their first life (decide, read_selected).
AssessmentsNameTheirGoal ==
  \A a \in assessments:
    LET earlier == {row \in Of(a.initiative, revisions): row.at < a.at}
        inForce == CHOOSE row \in earlier: \A other \in earlier: other.at <= row.at
    IN  /\ [initiative |-> a.initiative, context |-> a.context, goal |-> a.meant] \in contexts
        /\ inForce.context = a.context
=============================================================================
