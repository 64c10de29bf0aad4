------------------------- MODULE Initiatives_proofs -------------------------
(***************************************************************************)
(* Judgments of initiatives name the goal that was evaluated, and reading  *)
(* the whole history back finds it valid, for any initiatives, items and   *)
(* goals and any bound.                                                    *)
(***************************************************************************)
EXTENDS Initiatives, FiniteSetTheorems, TLAPS

ContextRow == [initiative: Initiatives, context: Nat, goal: Goals]
RevisionRow == [initiative: Initiatives, revision: Nat, context: Nat, goal: Goals, at: Nat]
ReadingRow == [initiative: Initiatives, revision: Nat, context: Nat, goal: Goals]
AssessmentRow == [initiative: Initiatives, at: Nat, context: Nat, meant: Goals]

TypeOK ==
  /\ revision \in Nat
  /\ subject \in [Initiatives -> Nat]
  /\ revisions \subseteq RevisionRow
  /\ contexts \subseteq ContextRow
  /\ assessments \subseteq AssessmentRow
  /\ readings \subseteq ReadingRow

\* The context of a revision or of a reading.
ContextOf(row) == [initiative |-> row.initiative, context |-> row.context, goal |-> row.goal]

\* A definition is written by an earlier commit, under a revision that the initiative has
\* reached, and its context is recorded.
Written(row) ==
  /\ row.at <= revision
  /\ row.revision > 0 /\ row.revision <= subject[row.initiative]
  /\ ContextOf(row) \in contexts

\* The definitions of an initiative are numbered in the order of their commits.
Before(row, other) == row.revision < other.revision /\ row.at < other.at
Numbered ==
  \A row, other \in revisions:
    row.initiative = other.initiative /\ row # other => Before(row, other) \/ Before(other, row)

\* An initiative has a last definition.
LastOf(n, row) == \A other \in Of(n, revisions): other.revision <= row.revision
Founded == \A n \in Initiatives: subject[n] > 0 => \E row \in Of(n, revisions): LastOf(n, row)

\* What was read of an initiative is on record.
Recorded(r) == subject[r.initiative] > 0 /\ ContextOf(r) \in contexts

\* The definition that was in force when a judgment was committed.
Earlier(a) == {row \in Of(a.initiative, revisions): row.at < a.at}
InForce(a) == CHOOSE row \in Earlier(a): \A other \in Earlier(a): other.at <= row.at

Named(a) ==
  /\ a.at <= revision
  /\ [initiative |-> a.initiative, context |-> a.context, goal |-> a.meant] \in contexts
  /\ InForce(a).context = a.context

Inv ==
  /\ TypeOK
  /\ \A row \in revisions: Written(row)
  /\ Numbered
  /\ Founded
  /\ \A r \in readings: Recorded(r)
  /\ \A a \in assessments: Named(a)

-----------------------------------------------------------------------------
\* The definition that read_current selects is the one committed last.
LEMMA CurrentIsLast ==
  ASSUME Inv, NEW n \in Initiatives, subject[n] > 0
  PROVE  /\ Current(n) \in Of(n, revisions) /\ Current(n) \in RevisionRow
         /\ \A other \in Of(n, revisions) \ {Current(n)}: Before(other, Current(n))
<1>1. \E row \in Of(n, revisions): \A other \in Of(n, revisions): other.revision <= row.revision
  BY DEF Inv, Founded, LastOf
<1>2. /\ Current(n) \in Of(n, revisions)
      /\ \A other \in Of(n, revisions): other.revision <= Current(n).revision
  BY <1>1 DEF Current
<1>3. Of(n, revisions) \subseteq RevisionRow /\ Of(n, revisions) \subseteq revisions
  BY DEF Inv, TypeOK, Of
<1>4. ASSUME NEW other \in Of(n, revisions) \ {Current(n)}
      PROVE  Before(other, Current(n))
  <2>1. Before(other, Current(n)) \/ Before(Current(n), other)
    BY <1>2, <1>3, <1>4 DEF Inv, Numbered, Of
  <2>2. other.revision \in Nat /\ Current(n).revision \in Nat
    BY <1>2, <1>3, <1>4 DEF RevisionRow
  <2> QED BY <1>2, <1>4, <2>1, <2>2 DEF Before
<1> QED BY <1>2, <1>3, <1>4

\* Whatever a request rests on is on record.
LEMMA ReadingsRecorded ==
  ASSUME Inv, NEW r \in Readings
  PROVE  r \in ReadingRow /\ Recorded(r)
<1>1. CASE r \in readings
  BY <1>1 DEF Inv, TypeOK
<1>2. CASE \E n \in {m \in Initiatives: subject[m] > 0}: r = Reading(n)
  <2>1. PICK n \in Initiatives: subject[n] > 0 /\ r = Reading(n)
    BY <1>2
  <2>2. Current(n) \in Of(n, revisions) /\ Current(n) \in RevisionRow
    BY <2>1, CurrentIsLast
  <2>3. Current(n).initiative = n /\ ContextOf(Current(n)) \in contexts
    BY <2>2 DEF Inv, Written, Of
  <2>4. subject[n] \in Nat
    BY DEF Inv, TypeOK
  <2> QED BY <2>1, <2>2, <2>3, <2>4 DEF Reading, Recorded, ContextOf, RevisionRow, ReadingRow
<1> QED BY <1>1, <1>2 DEF Readings

\* Every transaction lets both counters grow.
Advances == revision' \in Nat /\ revision' >= revision /\ subject' \in [Initiatives -> Nat]
            /\ \A n \in Initiatives: subject'[n] >= subject[n]

LEMMA CommitAdvances ==
  ASSUME TypeOK, NEW n \in Initiatives, Commit(n)
  PROVE  /\ Advances /\ UNCHANGED readings
         /\ revision' = revision + 1 /\ subject'[n] = subject[n] + 1
         /\ \A m \in Initiatives \ {n}: subject'[m] = subject[m]
BY DEF TypeOK, Commit, NextRevision, Advances

\* A definition that is written later changes nothing of what was in force.
LEMMA NamedStays ==
  ASSUME TypeOK, NEW a \in assessments, Named(a), Advances, contexts \subseteq contexts',
         revisions \subseteq revisions', \A row \in revisions' \ revisions: row.at = revision + 1
  PROVE  Named(a)'
<1>1. a.at \in Nat /\ a.at <= revision /\ revision \in Nat
  BY DEF TypeOK, AssessmentRow, Named
<1>2. Earlier(a)' = Earlier(a)
  BY <1>1 DEF Earlier, Of
<1>3. InForce(a)' = InForce(a)
  BY <1>2 DEF InForce
<1> QED BY <1>1, <1>3 DEF Named, Advances

LEMMA RecordedStays ==
  ASSUME TypeOK, NEW r, r.initiative \in Initiatives, Recorded(r), Advances, contexts \subseteq contexts'
  PROVE  Recorded(r)'
BY DEF TypeOK, Recorded, Advances, ContextOf

LEMMA WrittenStays ==
  ASSUME TypeOK, NEW row \in RevisionRow, Written(row), Advances, contexts \subseteq contexts'
  PROVE  Written(row)'
<1>1. /\ row.at \in Nat /\ row.revision \in Nat /\ row.initiative \in Initiatives
      /\ revision \in Nat /\ revision' \in Nat
      /\ subject[row.initiative] \in Nat /\ subject'[row.initiative] \in Nat
  BY DEF RevisionRow, TypeOK, Advances
<1>2. row.at <= revision'
  BY <1>1 DEF Written, Advances
<1>3. row.revision > 0 /\ row.revision <= subject'[row.initiative]
  BY <1>1 DEF Written, Advances
<1> QED BY <1>2, <1>3 DEF Written, ContextOf

\* A step that writes neither definitions nor judgments.
LEMMA AsideKeeps ==
  ASSUME Inv, Advances, UNCHANGED <<revisions, contexts, assessments>>, readings' \subseteq Readings,
         \A n \in Initiatives: subject'[n] > 0 => subject[n] > 0
  PROVE  Inv'
<1>1. TypeOK /\ \A r \in readings': r \in ReadingRow /\ Recorded(r)
  BY ReadingsRecorded DEF Inv
<1>2. \A r \in readings': Recorded(r)'
  BY <1>1, RecordedStays DEF ReadingRow
<1>3. TypeOK'
  BY <1>1 DEF TypeOK, Advances
<1>4. \A row \in revisions: Written(row)'
  <2>1. \A row \in revisions: row \in RevisionRow /\ Written(row)
    BY DEF Inv, TypeOK
  <2> QED BY <1>1, <2>1, WrittenStays
<1>5. Numbered' /\ Founded'
  BY DEF Inv, Numbered, Before, Founded, LastOf, Of
<1>6. \A a \in assessments: Named(a)'
  BY <1>1, NamedStays DEF Inv
<1> QED BY <1>2, <1>3, <1>4, <1>5, <1>6 DEF Inv

\* A new definition is the last one, by its revision and by its commit.
LEMMA DefineKeeps ==
  ASSUME Inv, NEW n \in Initiatives, NEW context \in Nat, NEW goal \in Goals,
         Define(n, context, goal), Commit(n)
  PROVE  Inv'
<1>0. PICK new, row0:
        /\ new = [initiative |-> n, revision |-> subject[n] + 1, context |-> context,
                  goal |-> goal, at |-> NextRevision]
        /\ row0 = [initiative |-> n, context |-> context, goal |-> goal]
  OBVIOUS
<1>1. /\ revisions' = revisions \cup {new} /\ contexts' = contexts \cup {row0}
      /\ UNCHANGED <<assessments, readings>>
  BY <1>0 DEF Define, Commit
<1>2. /\ TypeOK /\ Advances
      /\ revision' = revision + 1 /\ subject'[n] = subject[n] + 1
      /\ \A m \in Initiatives \ {n}: subject'[m] = subject[m]
  BY CommitAdvances DEF Inv
<1>3. new \in RevisionRow /\ row0 \in ContextRow /\ ContextOf(new) = row0
  BY <1>0, <1>2 DEF TypeOK, RevisionRow, ContextRow, ContextOf, NextRevision
<1>4. /\ new.initiative = n /\ new.revision = subject[n] + 1 /\ new.at = revision + 1
      /\ revision \in Nat /\ \A m \in Initiatives: subject[m] \in Nat
  BY <1>0, <1>2 DEF TypeOK, NextRevision
<1>5. \A row \in revisions: row \in RevisionRow /\ Written(row)
  BY <1>2 DEF TypeOK, Inv
<1>6. TypeOK'
  BY <1>1, <1>2, <1>3 DEF TypeOK, Advances
<1>7. \A row \in revisions': Written(row)'
  <2>1. ASSUME NEW row \in revisions
        PROVE  Written(row)'
    BY <1>1, <1>2, <1>5, WrittenStays
  <2>2. Written(new)'
    BY <1>1, <1>2, <1>3, <1>4 DEF Written, ContextOf
  <2> QED BY <1>1, <2>1, <2>2
<1>8. \A row \in revisions: row.initiative = n => Before(row, new)
  BY <1>4, <1>5 DEF Written, Before, RevisionRow
<1>9. Numbered'
  <2>1. \A row, other \in revisions':
          row.initiative = other.initiative /\ row # other => Before(row, other) \/ Before(other, row)
    BY <1>1, <1>4, <1>8 DEF Inv, Numbered
  <2> QED BY <2>1 DEF Numbered, Before
<1>10. Founded'
  <2> SUFFICES ASSUME NEW m \in Initiatives, subject'[m] > 0
               PROVE  \E row \in Of(m, revisions)': LastOf(m, row)'
    BY DEF Founded
  <2>1. CASE m = n
    <3>1. \A row \in Of(n, revisions'): row.revision <= new.revision
      <4> SUFFICES ASSUME NEW row \in revisions, row.initiative = n
                   PROVE  row.revision <= new.revision
        BY <1>1, <1>4 DEF Of
      <4> QED BY <1>4, <1>5, <1>8 DEF Before, RevisionRow
    <3> QED BY <1>1, <1>4, <2>1, <3>1 DEF Of, LastOf
  <2>2. CASE m # n
    <3>1. Of(m, revisions') = Of(m, revisions)
      BY <1>1, <1>4, <2>2 DEF Of
    <3>2. PICK row \in Of(m, revisions): LastOf(m, row)
      BY <1>2, <2>2 DEF Inv, Founded
    <3> QED BY <3>1, <3>2 DEF LastOf
  <2> QED BY <2>1, <2>2
<1>11. \A r \in readings': Recorded(r)'
  <2>1. \A r \in readings: r \in ReadingRow /\ Recorded(r)
    BY <1>2 DEF Inv, TypeOK
  <2> QED BY <1>1, <1>2, <2>1, RecordedStays DEF ReadingRow
<1>12. \A a \in assessments': Named(a)'
  BY <1>1, <1>2, <1>4, NamedStays DEF Inv
<1> QED BY <1>6, <1>7, <1>9, <1>10, <1>11, <1>12 DEF Inv

\* A judgment is accepted when the context that was evaluated is the one in force.
LEMMA AssessKeeps ==
  ASSUME Inv, NEW r \in Readings, NEW e \in Readings, Assess(r, e)
  PROVE  Inv'
<1> DEFINE n == r.initiative
<1>0. PICK new: new = [initiative |-> n, at |-> NextRevision, context |-> Current(n).context,
                        meant |-> e.goal]
  OBVIOUS
<1>1. r \in ReadingRow /\ Recorded(r) /\ e \in ReadingRow /\ Recorded(e)
  BY ReadingsRecorded
<1>2. n \in Initiatives /\ subject[n] > 0
  BY <1>1 DEF ReadingRow, Recorded
<1>3. /\ UNCHANGED <<revisions, contexts, readings>> /\ assessments' = assessments \cup {new}
      /\ Commit(n) /\ e.initiative = n /\ e.context = Current(n).context
  BY <1>0 DEF Assess, Commit
<1>4. /\ TypeOK /\ Advances
      /\ revision' = revision + 1 /\ subject'[n] = subject[n] + 1
      /\ \A m \in Initiatives \ {n}: subject'[m] = subject[m]
  BY <1>2, <1>3, CommitAdvances DEF Inv
<1>5. /\ Current(n) \in Of(n, revisions) /\ Current(n) \in RevisionRow
      /\ \A other \in Of(n, revisions) \ {Current(n)}: Before(other, Current(n))
  BY <1>2, CurrentIsLast
<1>6. \A row \in revisions: row \in RevisionRow /\ Written(row)
  BY <1>4 DEF Inv, TypeOK
<1>7. new \in AssessmentRow
  BY <1>0, <1>1, <1>2, <1>4, <1>5 DEF AssessmentRow, ReadingRow, RevisionRow, TypeOK, NextRevision
<1>8. /\ new.initiative = n /\ new.at = revision + 1 /\ new.context = Current(n).context
      /\ new.meant = e.goal /\ revision \in Nat
  BY <1>0, <1>4 DEF NextRevision, TypeOK
\* All definitions are earlier, and the one that is in force is the current one.
<1>9. InForce(new) = Current(n)
  <2>1. Earlier(new) = Of(n, revisions)
    <3>1. \A row \in Of(n, revisions): row.at < new.at
      BY <1>6, <1>8 DEF Of, Written, RevisionRow
    <3> QED BY <1>8, <3>1 DEF Earlier
  <2>2. \A other \in Earlier(new): other.at <= Current(n).at
    <3>1. ASSUME NEW other \in Earlier(new)
          PROVE  other.at <= Current(n).at
      <4>1. other.at \in Nat /\ Current(n).at \in Nat
        BY <1>5, <1>6, <2>1 DEF Of, RevisionRow
      <4>2. CASE other = Current(n)
        BY <4>1, <4>2
      <4>3. CASE other # Current(n)
        BY <1>5, <2>1, <4>1, <4>3 DEF Before
      <4> QED BY <4>2, <4>3
    <3> QED BY <3>1
  <2>3. /\ InForce(new) \in Earlier(new)
        /\ \A other \in Earlier(new): other.at <= InForce(new).at
    BY <1>5, <2>1, <2>2 DEF InForce
  <2>4. Current(n).at <= InForce(new).at
    BY <1>5, <2>1, <2>3
  <2>5. InForce(new).at \in Nat /\ Current(n).at \in Nat
    BY <1>5, <1>6, <2>1, <2>3 DEF Of, RevisionRow
  <2> QED BY <1>5, <2>1, <2>3, <2>4, <2>5 DEF Before
<1>10. Named(new)'
  <2>1. InForce(new)' = InForce(new)
    BY <1>3 DEF InForce, Earlier, Of
  <2>2. [initiative |-> new.initiative, context |-> new.context, goal |-> new.meant] \in contexts
    BY <1>1, <1>3, <1>8 DEF Recorded, ContextOf
  <2> QED BY <1>3, <1>4, <1>8, <1>9, <2>1, <2>2 DEF Named
<1>11. ASSUME NEW a \in assessments
       PROVE  Named(a)'
  BY <1>3, <1>4, NamedStays DEF Inv
<1>12. TypeOK'
  BY <1>3, <1>4, <1>7 DEF TypeOK, Advances
<1>13. \A row \in revisions: Written(row)'
  BY <1>3, <1>4, <1>6, WrittenStays
<1>14. Numbered' /\ Founded'
  <2>1. \A m \in Initiatives: subject'[m] > 0 => subject[m] > 0
    BY <1>2, <1>4
  <2> QED BY <1>3, <2>1 DEF Inv, Numbered, Before, Founded, LastOf, Of
<1>15. \A p \in readings: Recorded(p)'
  <2>1. \A p \in readings: p \in ReadingRow /\ Recorded(p)
    BY <1>4 DEF Inv, TypeOK
  <2> QED BY <1>3, <1>4, <2>1, RecordedStays DEF ReadingRow
<1> QED BY <1>3, <1>10, <1>11, <1>12, <1>13, <1>14, <1>15 DEF Inv

-----------------------------------------------------------------------------
\* A membership or a decision changes what requests are checked against, and no goal.
LEMMA NextKeeps == Inv /\ [Next]_vars => Inv'
<1> SUFFICES ASSUME Inv, [Next]_vars
             PROVE  Inv'
  OBVIOUS
<1>1. TypeOK
  BY DEF Inv
<1>2. ASSUME UNCHANGED <<revision, subject, revisions, contexts, assessments>>,
             readings' \subseteq Readings
      PROVE  Inv'
  BY <1>1, <1>2, AsideKeeps DEF Advances, TypeOK
<1>3. CASE UNCHANGED vars
  BY <1>2, <1>3 DEF vars, history, Readings
<1>4. ASSUME NEW n \in Initiatives, Read(n)
      PROVE  Inv'
  BY <1>2, <1>4 DEF Read, history, Readings
<1>5. ASSUME NEW r \in readings, Forget(r)
      PROVE  Inv'
  BY <1>2, <1>5 DEF Forget, history, Readings
<1>6. ASSUME NEW i \in Items, CreateItem(i)
      PROVE  Inv'
  BY <1>1, <1>6, AsideKeeps DEF CreateItem, history, Readings, Advances, TypeOK, NextRevision
<1>7. ASSUME NEW n \in Initiatives, NEW goal \in Goals, Create(n, goal)
      PROVE  Inv'
  BY <1>7, DefineKeeps DEF Create
<1>8. ASSUME NEW r \in Readings, NEW goal \in Goals, Revise(r, goal)
      PROVE  Inv'
  <2>1. r.initiative \in Initiatives /\ subject[r.initiative] > 0
    BY ReadingsRecorded DEF ReadingRow, Recorded
  <2>2. Current(r.initiative).context \in Nat
    BY <2>1, CurrentIsLast DEF RevisionRow
  <2> QED BY <1>8, <2>1, <2>2, DefineKeeps DEF Revise
<1>9. ASSUME NEW r \in Readings, (\E i \in Items: AddMember(r, i) \/ RemoveMember(r, i)) \/ RecordDecision(r)
      PROVE  Inv'
  <2>1. r.initiative \in Initiatives /\ subject[r.initiative] > 0
    BY ReadingsRecorded DEF ReadingRow, Recorded
  <2>2. Commit(r.initiative) /\ UNCHANGED <<revisions, contexts, assessments>>
    BY <1>9 DEF AddMember, RemoveMember, RecordDecision
  <2>3. /\ Advances /\ UNCHANGED readings
        /\ \A m \in Initiatives: subject'[m] > 0 => subject[m] > 0
    BY <1>1, <2>1, <2>2, CommitAdvances
  <2> QED BY <2>2, <2>3, AsideKeeps DEF Readings
<1>10. ASSUME NEW r \in Readings, NEW e \in Readings, Assess(r, e)
       PROVE  Inv'
  BY <1>10, AssessKeeps
<1> QED BY <1>3, <1>4, <1>5, <1>6, <1>7, <1>8, <1>9, <1>10 DEF Next

LEMMA Begins == Init => Inv
BY DEF Init, Inv, TypeOK, Numbered, Founded

\* A judgment stands with the goal that its author evaluated, in a context that was in
\* force at its commit, however old the readings are that it was asked from
\* (AssessmentsNameTheirGoal; decide and read_selected of initiatives.py).
THEOREM JudgmentsNamed == Spec => []AssessmentsNameTheirGoal
<1>1. Inv => AssessmentsNameTheirGoal
  BY DEF Inv, Named, InForce, Earlier, AssessmentsNameTheirGoal
<1> QED BY <1>1, Begins, NextKeeps, PTL DEF Spec
-----------------------------------------------------------------------------
\* What the validation of the whole database counts: one note for every advance of the
\* subject revision, and a commit of its own for every note.
Finite(n) ==
  /\ IsFiniteSet(Of(n, revisions)) /\ IsFiniteSet(Of(n, memberships))
  /\ IsFiniteSet(Of(n, decisions)) /\ IsFiniteSet(Of(n, assessments))

Counted(n) ==
  /\ Finite(n)
  /\ subject[n] = Notes(n)
  /\ Commits(n) \subseteq 1 .. revision
  /\ Cardinality(Commits(n)) = Notes(n)

Apart == \A n, m \in Initiatives: n # m => Commits(n) \cap Commits(m) = {}

Counts == (\A n \in Initiatives: Counted(n)) /\ Apart

\* The tables of another initiative.
Same(m) ==
  /\ Of(m, revisions') = Of(m, revisions) /\ Of(m, memberships') = Of(m, memberships)
  /\ Of(m, decisions') = Of(m, decisions) /\ Of(m, assessments') = Of(m, assessments)

LEMMA Sizes ==
  ASSUME NEW n \in Initiatives, Finite(n)
  PROVE  /\ Cardinality(Of(n, revisions)) \in Nat /\ Cardinality(Of(n, memberships)) \in Nat
         /\ Cardinality(Of(n, decisions)) \in Nat /\ Cardinality(Of(n, assessments)) \in Nat
         /\ IsFiniteSet(Removals(n)) /\ Cardinality(Removals(n)) \in Nat
         /\ Notes(n) \in Nat
<1>1. IsFiniteSet(Removals(n))
  BY FS_Subset DEF Removals, Finite
<1>2. /\ Cardinality(Of(n, revisions)) \in Nat /\ Cardinality(Of(n, memberships)) \in Nat
      /\ Cardinality(Of(n, decisions)) \in Nat /\ Cardinality(Of(n, assessments)) \in Nat
      /\ Cardinality(Removals(n)) \in Nat
  BY <1>1, FS_CardinalityType DEF Finite
<1> QED BY <1>1, <1>2 DEF Notes

LEMMA CommitsOf ==
  ASSUME NEW n
  PROVE  \A c: c \in Commits(n) <=>
           \/ \E row \in Of(n, revisions): c = row.at
           \/ \E row \in Of(n, decisions): c = row.at
           \/ \E row \in Of(n, assessments): c = row.at
           \/ \E row \in Of(n, memberships): c = row.added
           \/ \E row \in Removals(n): c = row.removed
BY DEF Commits

\* A new row adds one to the size of its own table.
LEMMA AddedRow ==
  ASSUME NEW old, NEW new, NEW row, NEW n,
         new = old \cup {row}, row.initiative = n, row \notin old, IsFiniteSet(Of(n, old))
  PROVE  /\ Of(n, new) = Of(n, old) \cup {row}
         /\ IsFiniteSet(Of(n, new))
         /\ Cardinality(Of(n, new)) = Cardinality(Of(n, old)) + 1
         /\ \A m: m # n => Of(m, new) = Of(m, old)
<1>1. Of(n, new) = Of(n, old) \cup {row} /\ row \notin Of(n, old)
  BY DEF Of
<1>2. \A m: m # n => Of(m, new) = Of(m, old)
  BY DEF Of
<1>3. IsFiniteSet(Of(n, old) \cup {row}) /\ Cardinality(Of(n, old) \cup {row}) = Cardinality(Of(n, old)) + 1
  BY <1>1, FS_AddElement
<1> QED BY <1>1, <1>2, <1>3

\* A commit that writes one note of one initiative keeps the count.
LEMMA CountsKept ==
  ASSUME TypeOK, Counts, NEW n \in Initiatives, Commit(n), Finite(n)',
         Notes(n)' = Notes(n) + 1, Commits(n)' = Commits(n) \cup {NextRevision},
         \A m \in Initiatives \ {n}: Same(m)
  PROVE  Counts'
<1>1. /\ revision \in Nat /\ NextRevision = revision + 1 /\ revision' = revision + 1
      /\ subject'[n] = subject[n] + 1 /\ \A m \in Initiatives \ {n}: subject'[m] = subject[m]
  BY CommitAdvances DEF TypeOK, NextRevision
<1>2. ASSUME NEW m \in Initiatives \ {n}
      PROVE  Counted(m)' /\ Commits(m)' = Commits(m)
  <2>1. Same(m) /\ Counted(m)
    BY DEF Counts
  <2>2. Removals(m)' = Removals(m)
    BY <2>1 DEF Same, Removals
  <2>3. Notes(m)' = Notes(m)
    BY <2>1, <2>2 DEF Same, Notes
  <2>4. Commits(m)' = Commits(m)
    BY <2>1, <2>2 DEF Same, Commits
  <2>5. Finite(m)'
    BY <2>1 DEF Same, Finite, Counted
  <2> QED BY <1>1, <2>1, <2>3, <2>4, <2>5 DEF Counted
<1>3. Counted(n)'
  <2>1. Counted(n)
    BY DEF Counts
  <2>2. IsFiniteSet(Commits(n)) /\ NextRevision \notin Commits(n)
    <3>1. IsFiniteSet(1 .. revision)
      BY <1>1, FS_Interval
    <3> QED BY <1>1, <2>1, <3>1, FS_Subset DEF Counted
  <2>3. Cardinality(Commits(n) \cup {NextRevision}) = Cardinality(Commits(n)) + 1
    BY <2>2, FS_AddElement
  <2>4. Cardinality(Commits(n)') = Notes(n)'
    BY <2>1, <2>3 DEF Counted
  <2>5. Commits(n)' \subseteq 1 .. revision'
    BY <1>1, <2>1 DEF Counted
  <2>6. subject'[n] = Notes(n)'
    BY <1>1, <2>1 DEF Counted
  <2> QED BY <2>4, <2>5, <2>6 DEF Counted
<1>4. Apart'
  <2>1. \A m \in Initiatives: NextRevision \notin Commits(m)
    BY <1>1 DEF Counts, Counted
  <2>2. ASSUME NEW a \in Initiatives, NEW b \in Initiatives, a # b
        PROVE  Commits(a)' \cap Commits(b)' = {}
    BY <1>2, <2>1, <2>2 DEF Counts, Apart
  <2> QED BY <2>2 DEF Apart
<1> QED BY <1>2, <1>3, <1>4 DEF Counts
\* A row that names the commit being made is new.
LEMMA NewRow ==
  ASSUME TypeOK, Counts, NEW n \in Initiatives, NEW row, row.initiative = n
  PROVE  /\ NextRevision \notin Commits(n)
         /\ row.at = NextRevision =>
              row \notin revisions /\ row \notin decisions /\ row \notin assessments
         /\ row.added = NextRevision => row \notin memberships
<1>1. NextRevision \notin Commits(n)
  BY DEF TypeOK, NextRevision, Counts, Counted
<1>2. row \in revisions \cup decisions \cup assessments => row.at \in Commits(n)
  BY CommitsOf DEF Of
<1>3. row \in memberships => row.added \in Commits(n)
  BY CommitsOf DEF Of
<1> QED BY <1>1, <1>2, <1>3

LEMMA DefineCounts ==
  ASSUME TypeOK, Counts, NEW n \in Initiatives, NEW context, NEW goal,
         Define(n, context, goal), Commit(n)
  PROVE  Counts'
<1>1. PICK new: new = [initiative |-> n, revision |-> subject[n] + 1, context |-> context,
                       goal |-> goal, at |-> NextRevision]
  OBVIOUS
<1>2. /\ revisions' = revisions \cup {new} /\ new.initiative = n /\ new.at = NextRevision
      /\ UNCHANGED <<memberships, decisions, assessments>>
  BY <1>1 DEF Define
<1>3. Finite(n) /\ new \notin revisions
  BY <1>2, NewRow DEF Counts, Counted
<1>4. /\ Of(n, revisions') = Of(n, revisions) \cup {new}
      /\ IsFiniteSet(Of(n, revisions'))
      /\ Cardinality(Of(n, revisions')) = Cardinality(Of(n, revisions)) + 1
      /\ \A m: m # n => Of(m, revisions') = Of(m, revisions)
  <2>1. IsFiniteSet(Of(n, revisions)) /\ revisions' = revisions \cup {new} /\ new.initiative = n
    BY <1>2, <1>3 DEF Finite
  <2> QED BY <1>3, <2>1, AddedRow
<1>5. Finite(n)' /\ \A m \in Initiatives \ {n}: Same(m)
  BY <1>2, <1>3, <1>4 DEF Finite, Same
<1>6. Notes(n)' = Notes(n) + 1
  BY <1>2, <1>3, <1>4, Sizes DEF Notes, Removals
<1>7. Commits(n)' = Commits(n) \cup {NextRevision}
  BY <1>2, <1>4 DEF Commits, Removals
<1> QED BY <1>5, <1>6, <1>7, CountsKept

LEMMA DecisionCounts ==
  ASSUME TypeOK, Counts, NEW r, r.initiative \in Initiatives, RecordDecision(r)
  PROVE  Counts'
<1> DEFINE n == r.initiative
<1>1. PICK new: new = [initiative |-> n, at |-> NextRevision]
  OBVIOUS
<1>2. /\ decisions' = decisions \cup {new} /\ new.initiative = n /\ new.at = NextRevision
      /\ UNCHANGED <<revisions, memberships, assessments>> /\ Commit(n)
  BY <1>1 DEF RecordDecision
<1>3. Finite(n) /\ new \notin decisions
  BY <1>2, NewRow DEF Counts, Counted
<1>4. /\ Of(n, decisions') = Of(n, decisions) \cup {new}
      /\ IsFiniteSet(Of(n, decisions'))
      /\ Cardinality(Of(n, decisions')) = Cardinality(Of(n, decisions)) + 1
      /\ \A m: m # n => Of(m, decisions') = Of(m, decisions)
  <2>1. IsFiniteSet(Of(n, decisions)) /\ decisions' = decisions \cup {new} /\ new.initiative = n
    BY <1>2, <1>3 DEF Finite
  <2> QED BY <1>3, <2>1, AddedRow
<1>5. Finite(n)' /\ \A m \in Initiatives \ {n}: Same(m)
  BY <1>2, <1>3, <1>4 DEF Finite, Same
<1>6. Notes(n)' = Notes(n) + 1
  BY <1>2, <1>3, <1>4, Sizes DEF Notes, Removals
<1>7. Commits(n)' = Commits(n) \cup {NextRevision}
  BY <1>2, <1>4 DEF Commits, Removals
<1> QED BY <1>2, <1>5, <1>6, <1>7, CountsKept

LEMMA AssessCounts ==
  ASSUME TypeOK, Counts, NEW r, NEW e, r.initiative \in Initiatives, Assess(r, e)
  PROVE  Counts'
<1> DEFINE n == r.initiative
<1>1. PICK new: new = [initiative |-> n, at |-> NextRevision, context |-> Current(n).context,
                       meant |-> e.goal]
  OBVIOUS
<1>2. /\ assessments' = assessments \cup {new} /\ new.initiative = n /\ new.at = NextRevision
      /\ UNCHANGED <<revisions, memberships, decisions>> /\ Commit(n)
  BY <1>1 DEF Assess
<1>3. Finite(n) /\ new \notin assessments
  BY <1>2, NewRow DEF Counts, Counted
<1>4. /\ Of(n, assessments') = Of(n, assessments) \cup {new}
      /\ IsFiniteSet(Of(n, assessments'))
      /\ Cardinality(Of(n, assessments')) = Cardinality(Of(n, assessments)) + 1
      /\ \A m: m # n => Of(m, assessments') = Of(m, assessments)
  <2>1. IsFiniteSet(Of(n, assessments)) /\ assessments' = assessments \cup {new} /\ new.initiative = n
    BY <1>2, <1>3 DEF Finite
  <2> QED BY SMTT(30), <1>3, <2>1, AddedRow
<1>5. Finite(n)' /\ \A m \in Initiatives \ {n}: Same(m)
  BY <1>2, <1>3, <1>4 DEF Finite, Same
<1>6. Notes(n)' = Notes(n) + 1
  BY <1>2, <1>3, <1>4, Sizes DEF Notes, Removals
<1>7. Commits(n)' = Commits(n) \cup {NextRevision}
  BY <1>2, <1>4 DEF Commits, Removals
<1> QED BY <1>2, <1>5, <1>6, <1>7, CountsKept
-----------------------------------------------------------------------------
MemberRow == [initiative: Initiatives, item: Items, episode: Nat, added: Nat, removed: Nat]

\* The episodes of one item in one initiative are 1, 2, ..., and one at most is active.
Member(n, i) == {row \in Of(n, memberships): row.item = i}

Chronicle(rows) ==
  /\ \E k \in Nat: {row.episode: row \in rows} = 1 .. k
  /\ \A row, other \in rows:
       row.episode = other.episode \/ (row.removed = 0 /\ other.removed = 0) => row = other

Membered ==
  /\ memberships \subseteq MemberRow
  /\ \A n \in Initiatives, i \in Items: Chronicle(Member(n, i))

LEMMA AddMemberCounts ==
  ASSUME TypeOK, Counts, Membered, NEW r, NEW i \in Items, r.initiative \in Initiatives, AddMember(r, i)
  PROVE  Counts' /\ Membered'
<1> DEFINE n == r.initiative
<1>1. PICK new: new = [initiative |-> n, item |-> i, episode |-> NextEpisode(n, i),
                       added |-> NextRevision, removed |-> 0]
  OBVIOUS
<1>2. /\ memberships' = memberships \cup {new} /\ new.initiative = n /\ new.added = NextRevision
      /\ new.removed = 0 /\ new.item = i /\ new.episode = NextEpisode(n, i)
      /\ UNCHANGED <<revisions, decisions, assessments>> /\ Commit(n)
      /\ ~ Active(n, i)
  BY <1>1 DEF AddMember
<1>3. Finite(n) /\ new \notin memberships
  BY <1>2, NewRow DEF Counts, Counted
<1>4. /\ Of(n, memberships') = Of(n, memberships) \cup {new}
      /\ IsFiniteSet(Of(n, memberships'))
      /\ Cardinality(Of(n, memberships')) = Cardinality(Of(n, memberships)) + 1
      /\ \A m: m # n => Of(m, memberships') = Of(m, memberships)
  <2>1. /\ IsFiniteSet(Of(n, memberships)) /\ memberships' = memberships \cup {new}
        /\ new.initiative = n /\ new \notin memberships
    BY <1>2, <1>3 DEF Finite
  <2>2. \A m: m # n => Of(m, memberships') = Of(m, memberships)
    BY <2>1 DEF Of
  <2>3. PICK next: next = memberships'
    OBVIOUS
  <2>4. /\ Of(n, next) = Of(n, memberships) \cup {new} /\ IsFiniteSet(Of(n, next))
        /\ Cardinality(Of(n, next)) = Cardinality(Of(n, memberships)) + 1
    BY <2>1, <2>3, AddedRow
  <2> QED BY <2>2, <2>3, <2>4
<1>5. Removals(n)' = Removals(n)
  BY <1>2, <1>4 DEF Removals
<1>6. Finite(n)' /\ \A m \in Initiatives \ {n}: Same(m)
  BY <1>2, <1>3, <1>4 DEF Finite, Same
<1>7. Notes(n)' = Notes(n) + 1
  BY <1>2, <1>3, <1>4, <1>5, Sizes DEF Notes
<1>8. Commits(n)' = Commits(n) \cup {NextRevision}
  BY <1>2, <1>4, <1>5 DEF Commits
\* The new episode follows the last one, and no episode is active.
<1>9. PICK k \in Nat: {row.episode: row \in Member(n, i)} = 1 .. k
  BY DEF Membered, Chronicle
<1>10. new.episode = k + 1
  <2>1. {0} \cup {row.episode: row \in {m \in Of(n, memberships): m.item = i}} = 0 .. k
    BY <1>9 DEF Member
  <2>2. Max(0 .. k) = k
    BY DEF Max
  <2>3. NextEpisode(n, i) = 1 + Max(0 .. k)
    BY <2>1, Zenon DEF NextEpisode
  <2> QED BY <1>2, <2>2, <2>3
<1>11. Chronicle(Member(n, i)')
  <2>1. Member(n, i)' = Member(n, i) \cup {new}
    BY <1>2, <1>4 DEF Member
  <2>2. {row.episode: row \in Member(n, i) \cup {new}} = 1 .. (k + 1)
    <3>1. {row.episode: row \in Member(n, i) \cup {new}} = (1 .. k) \cup {k + 1}
      BY <1>9, <1>10
    <3> QED BY <3>1
  <2>3. \A row \in Member(n, i): row.removed # 0 /\ row.episode \in 1 .. k
    BY <1>2, <1>9 DEF Active, Member
  <2>4. ASSUME NEW row \in Member(n, i) \cup {new}, NEW other \in Member(n, i) \cup {new},
               row.episode = other.episode \/ (row.removed = 0 /\ other.removed = 0)
        PROVE  row = other
    BY <1>10, <2>3, <2>4 DEF Membered, Chronicle
  <2> QED BY <2>1, <2>2, <2>4 DEF Chronicle
<1>12. \A m \in Initiatives, j \in Items: m # n \/ j # i => Member(m, j)' = Member(m, j)
  BY <1>2, <1>4 DEF Member
<1>13. new \in MemberRow
  BY <1>1, <1>10 DEF MemberRow, TypeOK, NextRevision
<1>14. Membered'
  BY <1>2, <1>11, <1>12, <1>13 DEF Membered
<1> QED BY <1>2, <1>6, <1>7, <1>8, <1>14, CountsKept

LEMMA RemoveMemberCounts ==
  ASSUME TypeOK, Counts, Membered, NEW r, NEW i \in Items, r.initiative \in Initiatives,
         RemoveMember(r, i)
  PROVE  Counts' /\ Membered'
<1> DEFINE n == r.initiative
           Ended(row) == row.initiative = n /\ row.item = i /\ row.removed = 0
\* One row is ended, the only active one.
<1>1. PICK old \in Of(n, memberships): old.item = i /\ old.removed = 0
  BY DEF RemoveMember, Active
<1>2. PICK new: new = [old EXCEPT !.removed = NextRevision]
  OBVIOUS
<1>3. /\ old \in memberships /\ old \in MemberRow /\ old.initiative = n
      /\ \A row \in memberships: Ended(row) => row = old
  BY <1>1 DEF Membered, Chronicle, Member, Of
<1>4. /\ new \in MemberRow /\ new.initiative = n /\ new.item = i /\ new.removed = NextRevision
      /\ new.added = old.added /\ new.episode = old.episode /\ NextRevision > 0
  BY <1>1, <1>2, <1>3 DEF MemberRow, TypeOK, NextRevision
<1>5. /\ memberships' = (memberships \ {old}) \cup {new}
      /\ UNCHANGED <<revisions, decisions, assessments>> /\ Commit(n)
  <2>1. memberships' = {IF Ended(row) THEN [row EXCEPT !.removed = NextRevision] ELSE row:
                          row \in memberships}
    BY DEF RemoveMember
  <2>2. \A row \in memberships: Ended(row) <=> row = old
    BY <1>1, <1>3
  <2> HIDE DEF Ended
  <2>3. memberships' = {IF row = old THEN new ELSE row: row \in memberships}
    BY <1>2, <2>1, <2>2
  <2>4. memberships' = (memberships \ {old}) \cup {new}
    BY <1>3, <2>3
  <2> QED BY <2>4 DEF RemoveMember
<1>6. Counted(n) /\ Finite(n) /\ NextRevision \notin Commits(n)
  BY <1>4, NewRow DEF Counts, Counted
<1>7. new \notin Removals(n) /\ old \notin Removals(n) /\ new \notin Of(n, memberships)
  <2>1. new \notin Removals(n)
    BY <1>4, <1>6, CommitsOf
  <2> QED BY <1>1, <1>4, <2>1 DEF Removals, Of
<1>8. /\ Of(n, memberships') = (Of(n, memberships) \ {old}) \cup {new}
      /\ \A m \in Initiatives \ {n}: Of(m, memberships') = Of(m, memberships)
      /\ Removals(n)' = Removals(n) \cup {new}
  <2>1. Of(n, memberships') = (Of(n, memberships) \ {old}) \cup {new}
    BY <1>4, <1>5 DEF Of
  <2>2. \A m \in Initiatives \ {n}: Of(m, memberships') = Of(m, memberships)
    BY <1>3, <1>4, <1>5 DEF Of
  <2>3. Removals(n)' = Removals(n) \cup {new}
    BY <1>1, <1>4, <2>1 DEF Removals
  <2> QED BY <2>1, <2>2, <2>3
<1>9. /\ IsFiniteSet(Of(n, memberships'))
      /\ Cardinality(Of(n, memberships')) = Cardinality(Of(n, memberships))
  <2> DEFINE rest == Of(n, memberships) \ {old}
  <2>1. /\ IsFiniteSet(rest) /\ Cardinality(rest) = Cardinality(Of(n, memberships)) - 1
        /\ Cardinality(Of(n, memberships)) \in Nat
    BY <1>1, <1>6, FS_RemoveElement, Sizes DEF Finite
  <2>2. new \notin rest
    BY <1>7
  <2> HIDE DEF rest
  <2>3. IsFiniteSet(rest \cup {new}) /\ Cardinality(rest \cup {new}) = Cardinality(rest) + 1
    BY <2>1, <2>2, FS_AddElement
  <2>4. Of(n, memberships') = rest \cup {new}
    BY <1>8 DEF rest
  <2> QED BY <2>1, <2>3, <2>4
<1>10. Cardinality(Removals(n)') = Cardinality(Removals(n)) + 1
  BY <1>6, <1>7, <1>8, Sizes, FS_AddElement
<1>11. Finite(n)' /\ \A m \in Initiatives \ {n}: Same(m)
  BY <1>5, <1>6, <1>8, <1>9 DEF Finite, Same
<1>12. Notes(n)' = Notes(n) + 1
  BY <1>5, <1>6, <1>9, <1>10, Sizes DEF Notes
<1>13. Commits(n)' = Commits(n) \cup {NextRevision}
  <2>1. \A c: (\E row \in Of(n, memberships'): c = row.added) <=> (\E row \in Of(n, memberships): c = row.added)
    BY <1>1, <1>4, <1>8
  <2>2. \A c: (\E row \in Removals(n)': c = row.removed)
              <=> (\E row \in Removals(n): c = row.removed) \/ c = NextRevision
    BY <1>4, <1>8
  <2>3. {row.added: row \in Of(n, memberships')} = {row.added: row \in Of(n, memberships)}
    BY <2>1
  <2>4. {row.removed: row \in Removals(n)'} = {row.removed: row \in Removals(n)} \cup {NextRevision}
    BY <2>2
  <2> QED BY <1>5, <2>3, <2>4 DEF Commits
<1>14. Chronicle(Member(n, i)')
  <2>1. Member(n, i)' = (Member(n, i) \ {old}) \cup {new} /\ old \in Member(n, i)
    BY <1>1, <1>4, <1>8 DEF Member
  <2>2. PICK k \in Nat: {row.episode: row \in Member(n, i)} = 1 .. k
    BY DEF Membered, Chronicle
  <2>3. {row.episode: row \in (Member(n, i) \ {old}) \cup {new}} = {row.episode: row \in Member(n, i)}
    BY <1>4, <2>1
  <2>4. ASSUME NEW row \in (Member(n, i) \ {old}) \cup {new}, NEW other \in (Member(n, i) \ {old}) \cup {new},
               row.episode = other.episode \/ (row.removed = 0 /\ other.removed = 0)
        PROVE  row = other
    <3>1. \A a, b \in Member(n, i): a.episode = b.episode \/ (a.removed = 0 /\ b.removed = 0) => a = b
      BY DEF Membered, Chronicle
    <3> QED BY <1>1, <1>4, <2>1, <2>4, <3>1
  <2> QED BY <2>1, <2>2, <2>3, <2>4 DEF Chronicle
<1>15. \A m \in Initiatives, j \in Items: m # n \/ j # i => Member(m, j)' = Member(m, j)
  <2>1. \A m \in Initiatives, j \in Items: m # n => Member(m, j)' = Member(m, j)
    BY <1>8 DEF Member
  <2>2. \A j \in Items: j # i => Member(n, j)' = Member(n, j)
    BY <1>1, <1>4, <1>8 DEF Member
  <2> QED BY <2>1, <2>2
<1>16. Membered'
  BY <1>4, <1>5, <1>14, <1>15 DEF Membered
<1> QED BY <1>5, <1>11, <1>12, <1>13, <1>16, CountsKept
-----------------------------------------------------------------------------
\* The definitions of every initiative form a chain of contexts, all of them recorded.
Chained == \A n \in Initiatives: subject[n] > 0 => ContextChain(Of(n, revisions))
Preserved == contexts = {ContextOf(row): row \in revisions}

\* The context that follows is one above the current one, for another goal.
NextContext(n, context, goal) ==
  IF subject[n] = 0 THEN context = 1
  ELSE context = Current(n).context + (IF goal = Current(n).goal THEN 0 ELSE 1)

LEMMA DefineChains ==
  ASSUME Inv, Chained, Preserved, NEW n \in Initiatives, NEW context \in Nat, NEW goal \in Goals,
         NextContext(n, context, goal), Define(n, context, goal), Commit(n)
  PROVE  Chained' /\ Preserved'
<1> DEFINE rows == Of(n, revisions)
<1>1. PICK new, row0:
        /\ new = [initiative |-> n, revision |-> subject[n] + 1, context |-> context,
                  goal |-> goal, at |-> NextRevision]
        /\ row0 = [initiative |-> n, context |-> context, goal |-> goal]
  OBVIOUS
<1>2. /\ revisions' = revisions \cup {new} /\ contexts' = contexts \cup {row0}
      /\ new.initiative = n /\ new.revision = subject[n] + 1 /\ new.context = context
      /\ new.goal = goal /\ ContextOf(new) = row0
  BY <1>1 DEF Define, ContextOf
<1>3. /\ subject[n] \in Nat /\ subject'[n] = subject[n] + 1
      /\ \A m \in Initiatives \ {n}: subject'[m] = subject[m]
  BY CommitAdvances DEF Inv, TypeOK
<1>4. \A row \in rows: row.revision \in Nat /\ 0 < row.revision /\ row.revision <= subject[n]
  BY DEF Inv, TypeOK, Written, Of, RevisionRow
<1>5. Of(n, revisions') = rows \cup {new} /\ \A m \in Initiatives \ {n}: Of(m, revisions') = Of(m, revisions)
  BY <1>2 DEF Of
<1> HIDE DEF rows
<1>6. CASE subject[n] = 0
  <2>1. rows = {}
    BY <1>4, <1>6
  <2>2. new.revision = 1 /\ new.context = 1
    BY <1>2, <1>6 DEF NextContext
  <2>3. ContextChain({new})
    BY <2>2 DEF ContextChain
  <2> QED BY <1>2, <1>3, <1>5, <2>1, <2>3 DEF Chained, Preserved
<1>7. CASE subject[n] > 0
  <2>1. ContextChain(rows)
    BY <1>7 DEF Chained, rows
  <2>2. /\ Current(n) \in rows
        /\ \A other \in rows \ {Current(n)}: other.revision < Current(n).revision
    BY <1>7, CurrentIsLast DEF Before, rows
  <2>3. context = Current(n).context + (IF goal = Current(n).goal THEN 0 ELSE 1)
    BY <1>3, <1>7 DEF NextContext
  <2>4. ASSUME NEW row \in rows \cup {new}, NEW next \in rows \cup {new}, row.revision < next.revision,
               ~ \E between \in rows \cup {new}:
                   between.revision \in (row.revision + 1) .. (next.revision - 1)
        PROVE  next.context = row.context + (IF next.goal = row.goal THEN 0 ELSE 1)
    <3>1. row \in rows
      BY <1>2, <1>3, <1>4, <2>4
    <3>2. CASE next \in rows
      BY <2>1, <2>4, <3>1, <3>2 DEF ContextChain
    <3>3. CASE next = new
      <4>1. row = Current(n)
        <5>1. ASSUME row # Current(n)
              PROVE  Current(n).revision \in (row.revision + 1) .. (next.revision - 1)
          <6>1. /\ row.revision < Current(n).revision /\ Current(n).revision <= subject[n]
                /\ row.revision \in Nat /\ Current(n).revision \in Nat
            BY <1>4, <2>2, <3>1, <5>1
          <6> QED BY <1>2, <1>3, <3>3, <6>1
        <5> QED BY <2>2, <2>4, <5>1
      <4> QED BY <1>2, <2>3, <3>3, <4>1
    <3> QED BY <3>2, <3>3
  <2>5. ContextChain(rows \cup {new})
    <3>1. \E row \in rows \cup {new}: row.revision = 1 /\ row.context = 1
      BY <2>1 DEF ContextChain
    <3> QED BY <2>4, <3>1 DEF ContextChain
  <2> QED BY <1>2, <1>3, <1>5, <2>5 DEF Chained, Preserved
<1> QED BY <1>3, <1>6, <1>7

History == Counts /\ Membered /\ Chained /\ Preserved

\* A step that leaves the history alone, and one that writes no definition.
LEMMA HistoryStays ==
  ASSUME TypeOK, History, UNCHANGED <<subject, history>>, revision' \in Nat, revision' >= revision
  PROVE  History'
<1>1. ASSUME NEW n \in Initiatives
      PROVE  Counted(n)'
  <2>1. Notes(n)' = Notes(n) /\ Commits(n)' = Commits(n) /\ (Finite(n)' <=> Finite(n))
    BY DEF Notes, Commits, Finite, Removals, Of, history
  <2>2. Counted(n) /\ revision \in Nat
    BY DEF History, Counts, TypeOK
  <2>3. 1 .. revision \subseteq 1 .. revision'
    BY <2>2
  <2>4. Commits(n)' \subseteq 1 .. revision'
    BY <2>1, <2>2, <2>3 DEF Counted
  <2> QED BY <2>1, <2>2, <2>4 DEF Counted
<1>2. Apart'
  <2>1. \A n \in Initiatives: Commits(n)' = Commits(n)
    BY DEF Commits, Removals, Of, history
  <2> QED BY <2>1 DEF History, Counts, Apart
<1>3. Membered' /\ Chained' /\ Preserved'
  BY DEF History, Membered, Member, Chained, Preserved, Of, history
<1> QED BY <1>1, <1>2, <1>3 DEF History, Counts

LEMMA ChainsStay ==
  ASSUME Chained, Preserved, UNCHANGED <<revisions, contexts>>,
         \A n \in Initiatives: subject'[n] > 0 => subject[n] > 0
  PROVE  Chained' /\ Preserved'
BY DEF Chained, Preserved, Of

LEMMA NextHistory == Inv /\ History /\ [Next]_vars => History'
<1> SUFFICES ASSUME Inv, History, [Next]_vars
             PROVE  History'
  OBVIOUS
<1>1. TypeOK /\ Counts /\ Membered /\ Chained /\ Preserved
  BY DEF Inv, History
<1>2. CASE UNCHANGED vars \/ (\E n \in Initiatives: Read(n)) \/ \E r \in readings: Forget(r)
  <2>1. UNCHANGED <<revision, subject, history>>
    BY <1>2 DEF vars, Read, Forget
  <2> QED BY <1>1, <2>1, HistoryStays DEF TypeOK
<1>3. ASSUME NEW i \in Items, CreateItem(i)
      PROVE  History'
  BY <1>1, <1>3, HistoryStays DEF CreateItem, TypeOK, NextRevision
<1>4. ASSUME NEW n \in Initiatives, NEW goal \in Goals, Create(n, goal)
      PROVE  History'
  <2>1. Counts'
    BY <1>1, <1>4, DefineCounts DEF Create
  <2>2. Membered'
    BY <1>1, <1>4 DEF Create, Define, Membered, Member, Of
  <2>3. Chained' /\ Preserved'
    BY <1>1, <1>4, DefineChains DEF Create, NextContext
  <2> QED BY <2>1, <2>2, <2>3 DEF History
<1>5. ASSUME NEW r \in Readings, NEW goal \in Goals, Revise(r, goal)
      PROVE  History'
  <2> DEFINE n == r.initiative
  <2>1. n \in Initiatives /\ subject[n] > 0
    BY ReadingsRecorded DEF ReadingRow, Recorded
  <2>2. PICK context: /\ context = Current(n).context + (IF goal = Current(n).goal THEN 0 ELSE 1)
                      /\ Define(n, context, goal) /\ Commit(n)
    BY <1>5 DEF Revise
  <2>3. context \in Nat /\ subject[n] # 0
    BY <1>1, <2>1, <2>2, CurrentIsLast DEF RevisionRow, TypeOK
  <2>4. Counts'
    BY <1>1, <2>1, <2>2, DefineCounts
  <2>5. Membered'
    BY <1>1, <2>2 DEF Define, Membered, Member, Of
  <2>6. Chained' /\ Preserved'
    BY <1>1, <2>1, <2>2, <2>3, DefineChains DEF NextContext
  <2> QED BY <2>4, <2>5, <2>6 DEF History
<1>6. ASSUME NEW r \in Readings,
             \/ \E i \in Items: AddMember(r, i) \/ RemoveMember(r, i)
             \/ RecordDecision(r)
             \/ \E e \in Readings: Assess(r, e)
      PROVE  History'
  <2>1. r.initiative \in Initiatives /\ subject[r.initiative] > 0
    BY ReadingsRecorded DEF ReadingRow, Recorded
  <2>2. Commit(r.initiative) /\ UNCHANGED <<revisions, contexts>>
    BY <1>6 DEF AddMember, RemoveMember, RecordDecision, Assess
  <2>3. Chained' /\ Preserved'
    <3>1. \A n \in Initiatives: subject'[n] > 0 => subject[n] > 0
      BY <1>1, <2>1, <2>2, CommitAdvances
    <3> QED BY <1>1, <2>2, <3>1, ChainsStay
  <2>4. CASE \E i \in Items: AddMember(r, i) \/ RemoveMember(r, i)
    BY <1>1, <2>1, <2>3, <2>4, AddMemberCounts, RemoveMemberCounts DEF History
  <2>5. CASE RecordDecision(r) \/ \E e \in Readings: Assess(r, e)
    <3>1. Counts'
      BY <1>1, <2>1, <2>5, DecisionCounts, AssessCounts
    <3>2. Membered'
      BY <1>1, <2>5 DEF RecordDecision, Assess, Membered, Member, Of
    <3> QED BY <2>3, <3>1, <3>2 DEF History
  <2> QED BY <1>6, <2>4, <2>5
<1> QED BY <1>2, <1>3, <1>4, <1>5, <1>6 DEF Next

LEMMA HistoryBegins == Init => History
<1> SUFFICES ASSUME Init
             PROVE  History
  OBVIOUS
<1>1. \A n \in Initiatives: /\ Of(n, revisions) = {} /\ Of(n, memberships) = {}
                             /\ Of(n, decisions) = {} /\ Of(n, assessments) = {}
                             /\ Removals(n) = {} /\ Commits(n) = {} /\ subject[n] = 0
  BY DEF Init, Of, Removals, Commits
<1>2. IsFiniteSet({}) /\ Cardinality({}) = 0
  BY FS_EmptySet
<1>3. \A n \in Initiatives: Notes(n) = 0
  BY <1>1, <1>2 DEF Notes
<1>4. Counts
  BY <1>1, <1>2, <1>3 DEF Counts, Counted, Finite, Apart
<1>5. Membered
  <2>1. Chronicle({})
    <3>1. {row.episode: row \in {}} = 1 .. 0
      OBVIOUS
    <3> QED BY <3>1 DEF Chronicle
  <2>2. \A n \in Initiatives, i \in Items: Member(n, i) = {}
    BY <1>1 DEF Member
  <2> QED BY <2>1, <2>2 DEF Membered, Init
<1>6. Chained /\ Preserved
  BY <1>1 DEF Chained, Preserved, Init
<1> QED BY <1>4, <1>5, <1>6 DEF History

\* Reading the database back never finds what the writers left invalid: contexts, episodes
\* and commits of every initiative are complete and in order, whatever was asked for, in
\* whatever order and from readings of whatever age (InitiativesValidate; validate_all and
\* read_selected against persist).
THEOREM HistoriesValidate == Spec => []InitiativesValidate
<1>1. ASSUME Inv, History
      PROVE  InitiativesValidate
  <2>1. ASSUME NEW n \in Initiatives, NEW i \in Items
        PROVE  Episodes(n, i) = 1 .. Cardinality(Episodes(n, i))
    <3>1. PICK k \in Nat: {row.episode: row \in Member(n, i)} = 1 .. k
      BY <1>1 DEF History, Membered, Chronicle
    <3>2. Episodes(n, i) = 1 .. k
      BY <3>1 DEF Episodes, Member
    <3>3. Cardinality(1 .. k) = k
      BY FS_Interval
    <3> QED BY <3>2, <3>3
  <2>2. ASSUME NEW n \in Initiatives, NEW row \in Of(n, memberships), NEW other \in Of(n, memberships),
               row # other, row.item = other.item
        PROVE  row.episode # other.episode
    <3>1. row.item \in Items
      BY <1>1 DEF History, Membered, Of, MemberRow
    <3>2. row \in Member(n, row.item) /\ other \in Member(n, row.item)
      BY <2>2 DEF Member
    <3> QED BY <1>1, <2>2, <3>1, <3>2 DEF History, Membered, Chronicle
  <2>3. \A n \in Initiatives: \A row \in Of(n, revisions): row.revision <= subject[n]
    BY <1>1 DEF Inv, Written, Of
  <2>4. contexts = {[initiative |-> row.initiative, context |-> row.context, goal |-> row.goal]:
                      row \in revisions}
    BY <1>1 DEF History, Preserved, ContextOf
  <2>5. \A n \in Initiatives: /\ subject[n] = Notes(n) /\ Commits(n) \subseteq 1 .. revision
                              /\ Cardinality(Commits(n)) = Notes(n)
                              /\ subject[n] > 0 => ContextChain(Of(n, revisions))
    BY <1>1 DEF History, Counts, Counted, Chained
  <2>6. \A n, m \in Initiatives: n # m => Commits(n) \cap Commits(m) = {}
    BY <1>1 DEF History, Counts, Apart
  <2> QED BY <2>1, <2>2, <2>3, <2>4, <2>5, <2>6 DEF InitiativesValidate
<1> QED BY <1>1, Begins, HistoryBegins, NextKeeps, NextHistory, PTL DEF Spec
=============================================================================
