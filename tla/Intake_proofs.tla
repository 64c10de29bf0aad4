--------------------------- MODULE Intake_proofs ----------------------------
(***************************************************************************)
(* The prerequisites of the items form no cycle, and live claims stay      *)
(* exact, however items come in and however they are consolidated; and the *)
(* roadmap of every ledger that this leads to is faithful.                 *)
(***************************************************************************)
EXTENDS Roadmap, Lifecycle_proofs, FiniteSetTheorems, SequenceTheorems, WellFoundedInduction

\* An item that is not there waits for nothing, and nothing waits for it.
Grown ==
  /\ existing \subseteq Items
  /\ \A i \in existing: Prerequisites(definition[i].deps) \subseteq existing
  /\ \A i \in Items \ existing: definition[i].deps = {}

\* Merging waits keeps their producers.
LEMMA MergedWaits ==
  ASSUME NEW waits \in SUBSET Dependency
  PROVE  /\ Merged(waits) \subseteq Dependency
         /\ Prerequisites(Merged(waits)) = Prerequisites(waits)
<1> DEFINE Only(d) == \A e \in waits: e.item = d.item => e = d
           One(d) == [item |-> d.item,
                      checkpoint |-> IF Only(d) THEN d.checkpoint ELSE WholeItem]
<1>1. Merged(waits) = {One(d): d \in waits}
  BY DEF Merged
<1>2. \A d \in waits: One(d) \in Dependency /\ One(d).item = d.item
  BY DEF Dependency
<1> HIDE DEF One
<1> QED BY <1>1, <1>2 DEF Prerequisites

\* When the search finds no cycle through any of the items whose waits change, there is
\* none at all.  Take a smallest set of items that each wait for one of the set.  It has a
\* changed item i, for the old graph has no such set; and what the search from i has met,
\* which i is not among, contains a smaller one.
LEMMA ManyRevisedAcyclic ==
  ASSUME Acyclic, NEW G, NEW C \in SUBSET Items,
         \A i \in Items \ C: G[i] = definition[i].deps,
         FreeOfCycles(C, G)
  PROVE  \A T \in SUBSET Items: T # {} => \E j \in T: Prerequisites(G[j]) \cap T = {}
<1> DEFINE Waiting(T) == T # {} /\ \A j \in T: Prerequisites(G[j]) \cap T # {}
           Cycles == {T \in SUBSET Items: Waiting(T)}
<1> SUFFICES ASSUME Cycles # {}
             PROVE  FALSE
  OBVIOUS
<1>1. IsWellFoundedOn(StrictSubsetOrdering(Items), SUBSET Items)
  BY FS_StrictSubsetOrderingWellFounded, FS_FiniteSubsetsOfFinite, ItemsAssumption
<1>2. PICK T \in Cycles: \A U \in Cycles: ~ (<<U, T>> \in StrictSubsetOrdering(Items))
  <2>1. Cycles \subseteq SUBSET Items
    OBVIOUS
  <2> HIDE DEF Cycles
  <2> QED BY <1>1, <2>1, WFMin
<1>3. PICK i \in T: i \in C
  <2>1. CASE T \cap C = {}
    <3>1. PICK j \in T: Prerequisites(definition[j].deps) \cap T = {}
      BY DEF Acyclic
    <3> QED BY <2>1, <3>1
  <2> QED BY <2>1
<1>4. PICK S \in SUBSET (Items \ {i}): Prerequisites(G[i]) \subseteq S /\ Closed(S, G)
  BY <1>3 DEF FreeOfCycles
<1>5. T \cap S \in Cycles
  BY <1>4 DEF Closed
<1>6. <<T \cap S, T>> \in StrictSubsetOrdering(Items)
  BY <1>4 DEF StrictSubsetOrdering
<1> QED BY <1>2, <1>5, <1>6

-----------------------------------------------------------------------------
\* The rest of the board changes prerequisites by a revision of an existing item alone.
LEMMA BoardDefinition ==
  ASSUME TypeOK, existing \subseteq Items, BoardNext
  PROVE  \/ UNCHANGED definition
         \/ \E i \in existing, new \in SUBSET Dependency:
              definition' = [definition EXCEPT ![i] = [rev |-> @.rev + 1, deps |-> new]]
<1>1. ASSUME NEW r \in Readings, r.subject \in existing, ItemDecisionsNext(r)
      PROVE  \/ UNCHANGED definition
             \/ \E i \in existing, new \in SUBSET Dependency:
                  definition' = [definition EXCEPT ![i] = [rev |-> @.rev + 1, deps |-> new]]
  BY <1>1 DEF ItemDecisionsNext, MoveUnstarted, ResumeItem, BlockItem, Defer, Reopen,
     CloseDone, CloseSuperseded, RecordReplacement, RetainTemporarily, Cancel, Revise
<1>2. ASSUME NEW r \in Readings, PreparationNext(r) \/ AttemptAuthorityNext(r)
      PROVE  UNCHANGED definition
  BY <1>2 DEF PreparationNext, StartPreparation, RenewPreparation, ReleasePreparation,
     RevokePreparation, Activate, AttemptAuthorityNext, AcquireAttempt, RenewAttempt,
     ReleaseAttempt, RevokeAttempt
<1>3. ASSUME NEW r \in Readings, AttemptLifecycleNext(r)
      PROVE  UNCHANGED definition
  BY <1>3 DEF AttemptLifecycleNext, Pause, BlockAttempt, ResumeAttempt, RebindAttempt,
     SubmitReview, ReturnForCorrection, AcceptCheckpoint, AcceptReviewAndContinue, Complete
<1>4. ASSUME Tick \/ (\E i \in existing: Read(i)) \/ (\E r \in readings: Forget(r))
      PROVE  UNCHANGED definition
  BY <1>4 DEF Tick, Read, Forget, ledger
<1> QED BY <1>1, <1>2, <1>3, <1>4 DEF BoardNext

LEMMA BoardKeeps ==
  ASSUME TypeOK, Grown, Acyclic, BoardNext
  PROVE  TypeOK' /\ Grown' /\ Acyclic'
<1>1. Next
  BY DEF BoardNext, Next, Grown
<1>2. TypeOK' /\ Acyclic'
  BY <1>1, NextTyped, NextAcyclic
<1>3. /\ existing' = existing
      /\ \A i \in existing: Prerequisites(definition'[i].deps) \subseteq existing
  BY DEF BoardNext
<1>4. \A i \in Items \ existing: definition'[i] = definition[i]
  BY BoardDefinition DEF Grown, TypeOK
<1> QED BY <1>2, <1>3, <1>4 DEF Grown, Prerequisites

\* A new item and what it changes of one that is there keep every row typed.
LEMMA CreateTyped ==
  ASSUME TypeOK, NEW new \in Items, NEW touched \in SUBSET Items, NEW t \in Nat,
         Create(new, touched, t),
         definition' \in [Items -> Definition], replacement' \in [Items -> Replacement]
  PROVE  TypeOK'
<1>1. NextRevision \in Nat
  BY DEF TypeOK, NextRevision
<1>2. item' \in [Items -> Item]
  BY <1>1 DEF Create, CreateRow, TypeOK, Item, LiveStates
<1> QED BY <1>2, CommitTyped DEF Create, TypeOK

\* Creating an item, with any relation, keeps the graph acyclic: nothing waits for the
\* new item but what is given it as a prerequisite, and then it waits for nothing itself.
LEMMA ProposalsKeep ==
  ASSUME TypeOK, Grown, Acyclic, NEW t \in Nat, ProposalsNext(t)
  PROVE  TypeOK' /\ Grown' /\ Acyclic'
<1>1. ASSUME NEW new \in Items, ProposeAlone(new, t)
      PROVE  TypeOK' /\ Grown' /\ Acyclic'
  <2>1. Create(new, {}, t) /\ UNCHANGED <<definition, replacement>>
    BY <1>1 DEF ProposeAlone
  <2>2. TypeOK'
    BY <2>1, CreateTyped DEF TypeOK
  <2>3. existing' = existing \cup {new} /\ new \notin existing
    BY <2>1 DEF Create
  <2>4. Grown'
    BY <2>1, <2>3 DEF Grown, Prerequisites
  <2> QED BY <2>1, <2>2, <2>4 DEF Acyclic, Prerequisites
<1>2. ASSUME NEW new \in Items, NEW d \in Dependency, ProposeFollowUp(new, d, t)
      PROVE  TypeOK' /\ Grown' /\ Acyclic'
  <2>1. /\ Create(new, {}, t) /\ UNCHANGED replacement
        /\ d.item \in existing
        /\ definition' = [definition EXCEPT ![new].deps = {d}]
    BY <1>2 DEF ProposeFollowUp, Authored
  <2>2. existing' = existing \cup {new} /\ new \notin existing
    BY <2>1 DEF Create
  <2>3. definition' \in [Items -> Definition]
    BY <2>1 DEF TypeOK, Definition
  <2>4. TypeOK'
    BY <2>1, <2>3, CreateTyped DEF TypeOK
  <2>5. /\ definition'[new].deps = {d}
        /\ \A i \in Items \ {new}: definition'[i] = definition[i]
    BY <2>1 DEF TypeOK, Definition
  <2>6. Grown'
    BY <2>1, <2>2, <2>5 DEF Grown, Prerequisites
  <2>7. Acyclic'
    <3> SUFFICES ASSUME NEW T \in SUBSET Items, T # {}
                 PROVE  \E j \in T: Prerequisites(definition'[j].deps) \cap T = {}
      BY DEF Acyclic, Prerequisites
    <3>1. CASE T \cap existing # {}
      <4>1. PICK j \in T \cap existing: Prerequisites(definition[j].deps) \cap (T \cap existing) = {}
        BY <3>1 DEF Acyclic
      <4>2. Prerequisites(definition[j].deps) \subseteq existing
        BY DEF Grown
      <4> QED BY <2>2, <2>5, <4>1, <4>2
    <3>2. CASE T \cap existing = {}
      <4>1. PICK j \in T: TRUE
        OBVIOUS
      <4>2. Prerequisites(definition'[j].deps) \subseteq existing
        BY <2>1, <2>5, <3>2, <4>1 DEF Grown, Prerequisites
      <4> QED BY <3>2, <4>2
    <3> QED BY <3>1, <3>2
  <2> QED BY <2>4, <2>6, <2>7
<1>3. ASSUME NEW new \in Items, NEW i \in Items, ProposePrerequisite(new, i, t)
      PROVE  TypeOK' /\ Grown' /\ Acyclic'
  <2> DEFINE wait == [item |-> new, checkpoint |-> WholeItem]
  <2>1. /\ i \in existing
        /\ Create(new, {i}, t) \/ Create(new, {}, t)
        /\ UNCHANGED replacement
        /\ \/ UNCHANGED definition
           \/ definition' = [definition EXCEPT ![i] =
                [rev |-> @.rev + 1, deps |-> @.deps \cup {wait}]]
    BY <1>3 DEF ProposePrerequisite
  <2>2. existing' = existing \cup {new} /\ new \notin existing
    BY <2>1 DEF Create
  <2>3. wait \in Dependency
    BY DEF Dependency
  <2>4. definition' \in [Items -> Definition]
    BY <2>1, <2>3 DEF TypeOK, Definition
  <2>5. TypeOK'
    BY ZenonT(40), <2>1, <2>4, CreateTyped DEF TypeOK
  <2>6. /\ definition'[i].deps \in {definition[i].deps, definition[i].deps \cup {wait}}
        /\ \A j \in Items \ {i}: definition'[j] = definition[j]
    BY <2>1 DEF TypeOK, Definition
  <2>7. \A j \in Items: /\ Prerequisites(definition'[j].deps)
                           \subseteq Prerequisites(definition[j].deps) \cup {new}
                        /\ j # i => definition'[j].deps = definition[j].deps
    BY <2>6 DEF Prerequisites
  <2>8. Grown'
    <3>1. \A j \in existing': Prerequisites(definition'[j].deps) \subseteq existing'
      <4> SUFFICES ASSUME NEW j \in existing'
                   PROVE  Prerequisites(definition'[j].deps) \subseteq existing'
        OBVIOUS
      <4>1. CASE j = new
        BY <2>1, <2>2, <2>7, <4>1 DEF Grown, Prerequisites
      <4>2. CASE j \in existing
        BY <2>2, <2>7, <4>2 DEF Grown
      <4> QED BY <2>2, <4>1, <4>2
    <3>2. \A j \in Items \ existing': definition'[j].deps = {}
      BY <2>1, <2>2, <2>7 DEF Grown
    <3> QED BY <2>2, <3>1, <3>2 DEF Grown, Prerequisites
  <2>9. Acyclic'
    <3> SUFFICES ASSUME NEW T \in SUBSET Items, T # {}
                 PROVE  \E j \in T: Prerequisites(definition'[j].deps) \cap T = {}
      BY DEF Acyclic, Prerequisites
    <3>1. CASE new \in T
      BY <2>1, <2>2, <2>7, <3>1 DEF Grown, Prerequisites
    <3>2. CASE new \notin T
      <4>1. PICK j \in T: Prerequisites(definition[j].deps) \cap T = {}
        BY DEF Acyclic
      <4> QED BY <2>7, <3>2, <4>1
    <3> QED BY <3>1, <3>2
  <2> QED BY <2>5, <2>8, <2>9
<1>4. ASSUME NEW new \in Items, NEW i \in Items, ProposeReplacement(new, i, t)
      PROVE  TypeOK' /\ Grown' /\ Acyclic'
  <2>1. /\ Create(new, {i}, t) /\ UNCHANGED definition
        /\ replacement' = [replacement EXCEPT ![i] =
             [rev |-> @.rev + 1, by |-> new, status |-> "current", retained |-> FALSE]]
    BY <1>4 DEF ProposeReplacement
  <2>2. replacement' \in [Items -> Replacement]
    BY <2>1 DEF TypeOK, Replacement
  <2>3. TypeOK'
    BY <2>1, <2>2, CreateTyped DEF TypeOK
  <2>4. existing' = existing \cup {new} /\ new \notin existing
    BY <2>1 DEF Create
  <2>5. Grown'
    BY <2>1, <2>4 DEF Grown, Prerequisites
  <2> QED BY <2>1, <2>3, <2>5 DEF Acyclic, Prerequisites
<1>5. ASSUME NEW i \in Items, (\E target \in Items: MergeProposal(i, target, t)) \/ RejectProposal(i, t)
      PROVE  TypeOK' /\ Grown' /\ Acyclic'
  <2>1. PICK outcome \in {"superseded", "dropped"}: EndProposal(i, outcome, t)
    BY <1>5 DEF MergeProposal, RejectProposal
  <2>2. SetItemState(i, outcome) /\ outcome \in LiveStates \cup TerminalStates
    BY <2>1 DEF EndProposal, TerminalStates
  <2>3. item' \in [Items -> Item]
    BY <2>2, SetItemStateTyped
  <2>4. TypeOK'
    BY <2>1, <2>3, CommitTyped DEF EndProposal, TypeOK
  <2> QED BY <2>1, <2>4 DEF EndProposal, Grown, Acyclic, Prerequisites
<1> QED BY <1>1, <1>2, <1>3, <1>4, <1>5 DEF ProposalsNext

-----------------------------------------------------------------------------
\* The waits of every item after a consolidation are waits on items that exist then.
LEMMA RetargetedWaits ==
  ASSUME TypeOK, Grown, NEW c \in Items, NEW sources \in SUBSET existing,
         NEW waits \in SUBSET Dependency,
         \A d \in waits: d.item \notin sources => Authored(d),
         NEW mapped \in [Outside(c, sources) -> Checkpoints \cup {WholeItem}],
         NEW i \in Items
  PROVE  /\ RetargetedGraph(c, sources, waits, mapped)[i] \subseteq Dependency
         /\ i \in existing \cup {c} =>
              Prerequisites(RetargetedGraph(c, sources, waits, mapped)[i]) \subseteq existing \cup {c}
         /\ i \notin {c} \cup Outside(c, sources) =>
              RetargetedGraph(c, sources, waits, mapped)[i] = definition[i].deps
<1> DEFINE deps == RetargetedGraph(c, sources, waits, mapped)
           kept == {d \in waits \cup UNION {definition[j].deps: j \in sources \cup {c}}:
                      d.item \notin sources \cup {c}}
           moved(k) == {IF d.item \in sources \cup {c} THEN [item |-> c, checkpoint |-> k] ELSE d:
                          d \in definition[i].deps}
<1>1. \A j \in Items: definition[j].deps \subseteq Dependency
  BY DEF TypeOK, Definition
<1>2. CASE i = c
  <2>1. deps[i] = Merged(kept)
    <3>1. deps[c] = CASE c = c -> CampaignWaits(c, sources, waits)
                      [] c \in DOMAIN mapped -> Retargeted(definition[c].deps, c, sources, mapped[c])
                      [] OTHER -> definition[c].deps
      BY DEF RetargetedGraph
    <3>2. c \notin DOMAIN mapped
      BY DEF Outside
    <3>3. CampaignWaits(c, sources, waits) = Merged(kept)
      BY DEF CampaignWaits
    <3> QED BY <1>2, <3>1, <3>2, <3>3
  <2>2. kept \in SUBSET Dependency
    BY <1>1 DEF Grown
  <2>3. Prerequisites(kept) \subseteq existing
    <3>1. \A d \in kept: d.item \in existing
      BY DEF Authored, Grown, Prerequisites
    <3> QED BY <3>1 DEF Prerequisites
  <2> HIDE DEF kept
  <2> QED BY <1>2, <2>1, <2>2, <2>3, MergedWaits
<1>3. CASE i # c /\ i \in Outside(c, sources)
  <2>1. deps[i] = Merged(moved(mapped[i]))
    BY <1>3 DEF RetargetedGraph, Retargeted
  <2>2. mapped[i] \in Checkpoints \cup {WholeItem}
    BY <1>3
  <2>3. moved(mapped[i]) \in SUBSET Dependency
    BY <1>1, <2>2 DEF Dependency
  <2>4. Prerequisites(moved(mapped[i])) \subseteq existing \cup {c}
    <3>1. \A d \in definition[i].deps: d.item \in existing
      BY <1>3 DEF Grown, Prerequisites, Outside
    <3> QED BY <3>1 DEF Prerequisites
  <2> HIDE DEF moved
  <2> QED BY <1>3, <2>1, <2>3, <2>4, MergedWaits
<1>4. CASE i \notin {c} \cup Outside(c, sources)
  <2>1. deps[i] = definition[i].deps
    BY <1>4 DEF RetargetedGraph
  <2> QED BY <1>1, <1>4, <2>1 DEF Grown
<1> QED BY <1>2, <1>3, <1>4

\* A consolidation passes the search for a cycle from every item whose waits it changes.
LEMMA ConsolidateKeeps ==
  ASSUME TypeOK, Grown, Acyclic, NEW t \in Nat, NEW c \in Items,
         NEW sources \in SUBSET existing, Consolidate(c, sources, t)
  PROVE  TypeOK' /\ Grown' /\ Acyclic'
<1>1. PICK waits \in RequestedWaits,
           mapped \in [Outside(c, sources) -> Checkpoints \cup {WholeItem}]:
        LET deps == RetargetedGraph(c, sources, waits, mapped)
            changed == {c} \cup DOMAIN mapped IN
        /\ \A d \in waits: d.item \notin sources => Authored(d)
        /\ FreeOfCycles(changed, deps)
        /\ definition' = [i \in Items |->
             [rev |-> definition[i].rev + (IF i \in changed \cap existing THEN 1 ELSE 0),
              deps |-> deps[i]]]
  BY DEF Consolidate, RetargetDefinitions
<1> DEFINE deps == RetargetedGraph(c, sources, waits, mapped)
           changed == {c} \cup Outside(c, sources)
<1>2. DOMAIN mapped = Outside(c, sources) /\ waits \in SUBSET Dependency
  BY DEF RequestedWaits
<1>3. /\ FreeOfCycles(changed, deps)
      /\ definition' = [i \in Items |->
           [rev |-> definition[i].rev + (IF i \in changed \cap existing THEN 1 ELSE 0),
            deps |-> deps[i]]]
  BY <1>1, <1>2
<1>4. \A i \in Items:
        /\ deps[i] \subseteq Dependency
        /\ i \in existing \cup {c} => Prerequisites(deps[i]) \subseteq existing \cup {c}
        /\ i \notin changed => deps[i] = definition[i].deps
  <2> SUFFICES ASSUME NEW i \in Items
               PROVE  /\ deps[i] \subseteq Dependency
                      /\ i \in existing \cup {c} => Prerequisites(deps[i]) \subseteq existing \cup {c}
                      /\ i \notin changed => deps[i] = definition[i].deps
    OBVIOUS
  <2>1. \A d \in waits: d.item \notin sources => Authored(d)
    BY <1>1
  <2>2. mapped \in [Outside(c, sources) -> Checkpoints \cup {WholeItem}]
    OBVIOUS
  <2> QED BY <1>2, <2>1, <2>2, RetargetedWaits
<1>5. changed \in SUBSET Items /\ existing' = existing \cup {c} /\ existing \subseteq Items
  BY DEF Outside, Grown, Consolidate
<1> HIDE DEF deps, changed
<1>6. Grown'
  <2>1. \A i \in Items \ (existing \cup {c}): deps[i] = {}
    BY <1>4 DEF Grown, changed, Outside
  <2> QED BY <1>3, <1>4, <1>5, <2>1 DEF Grown, Prerequisites
<1>7. Acyclic'
  <2>1. \A T \in SUBSET Items: T # {} => \E j \in T: Prerequisites(deps[j]) \cap T = {}
    BY <1>3, <1>4, <1>5, ManyRevisedAcyclic
  <2> QED BY <1>3, <2>1 DEF Acyclic, Prerequisites
<1>8. definition' \in [Items -> Definition]
  <2>1. \A i \in Items: definition[i].rev \in Nat
    BY DEF TypeOK, Definition
  <2> QED BY <1>3, <1>4, <2>1 DEF Definition
<1>9. NextRevision \in Nat
  BY DEF TypeOK, NextRevision
<1>10. item' \in [Items -> Item]
  BY ZenonT(40), <1>9 DEF Consolidate, TypeOK, Item, TerminalStates
<1>11. replacement' \in [Items -> Replacement]
  <2>1. \A s \in Items: replacement[s] \in Replacement /\ replacement[s].rev + 1 \in Nat
    BY DEF TypeOK, Replacement
  <2>2. \A s \in Items: replacement'[s] = IF s \notin sources THEN replacement[s] ELSE
          [rev |-> replacement[s].rev + 1, by |-> c, status |-> "current", retained |-> FALSE]
    BY DEF Consolidate
  <2>3. ASSUME NEW s \in Items
        PROVE  replacement'[s] \in Replacement
    <3>1. CASE s \in sources
      <4>1. replacement'[s] = [rev |-> replacement[s].rev + 1, by |-> c,
                               status |-> "current", retained |-> FALSE]
        BY <2>2, <3>1
      <4> QED BY <2>1, <4>1 DEF Replacement
    <3>2. CASE s \notin sources
      BY <2>1, <2>2, <3>2
    <3> QED BY <3>1, <3>2
  <2> QED BY <2>3 DEF Consolidate
<1>12. attempt' \in [Items -> Attempt]
  BY ZenonT(40), <1>9 DEF Consolidate, TypeOK, Attempt
<1>13. attemptLease' \in [Items -> Lease]
  <2>1. \A i \in Items: Ended(attemptLease[i], "revoked", t) \in Lease
    BY EndedTyped DEF TypeOK, Status
  <2> QED BY <2>1 DEF Consolidate, TypeOK
<1>14. TypeOK'
  BY <1>8, <1>10, <1>11, <1>12, <1>13, CommitTyped DEF Consolidate, TypeOK
<1> QED BY <1>6, <1>7, <1>14

\* What all ways of growing the ledger keep of its rows and its graph.
Whole == TypeOK /\ Grown /\ Acyclic

LEMMA IntakeKeepsWhole == Whole /\ [IntakeNext]_intakeVars => Whole'
<1> SUFFICES ASSUME Whole, [IntakeNext]_intakeVars
             PROVE  Whole'
  OBVIOUS
<1> USE DEF Whole
<1>1. CASE UNCHANGED intakeVars
  <2>1. [Next]_vars /\ existing' = existing
    BY <1>1 DEF intakeVars
  <2>2. TypeOK' /\ Acyclic'
    BY <2>1, NextTyped, NextAcyclic
  <2>3. definition' = definition
    BY <1>1 DEF intakeVars, vars
  <2> QED BY <2>1, <2>2, <2>3 DEF Grown, Prerequisites
<1>2. CASE BoardNext
  BY <1>2, BoardKeeps
<1>3. ASSUME NEW t \in 0 .. clock,
             \/ ProposalsNext(t)
             \/ \E c \in Items, sources \in SUBSET existing: Consolidate(c, sources, t)
      PROVE  Whole'
  <2>1. t \in Nat
    BY DEF TypeOK
  <2> QED BY <1>3, <2>1, ProposalsKeep, ConsolidateKeeps
<1> QED BY <1>1, <1>2, <1>3 DEF IntakeNext

LEMMA AlwaysWhole == IntakeSpec => []Whole
<1>1. IntakeInit => Whole
  <2>1. Init => TypeOK
    BY DEF Init, TypeOK, Item, LiveStates, Definition, Attempt, NoAttempt, Lease, NoLease,
           PreparationLease, NoPreparation, Replacement, NoReplacement, Status
  <2> QED BY <2>1 DEF Whole, IntakeInit, Init, Grown
<1> QED BY <1>1, IntakeKeepsWhole, PTL DEF IntakeSpec

\* No way of creating, revising or consolidating items, by whatever sequence of requests,
\* makes a group of items wait for one another (Acyclic; introduces_dependency_cycle and
\* the graph that consolidation.decide gives it).
THEOREM IntakeNoCycles == IntakeSpec => []Acyclic
<1>1. Whole => Acyclic
  BY DEF Whole
<1> QED BY <1>1, AlwaysWhole, PTL

-----------------------------------------------------------------------------
\* An item that is not there has no attempt, and the state that it will begin in.
Absent == \A i \in Items \ existing: item[i].state = "ready" /\ attempt[i].state = "none"

Exact == AttemptMatchesItem /\ LiveClaimIsExact /\ Absent

\* A claim that had lapsed at the request's time has lapsed at the lock.
LEMMA LapsedByNow ==
  ASSUME TypeOK, NEW i \in Items, NEW t \in 0 .. clock, ~ Live(preparationLease[i], t)
  PROVE  ~ PreparationLive(i)
<1>1. clock \in Nat /\ preparationLease[i].expires \in Nat
  BY DEF TypeOK, PreparationLease
<1> QED BY <1>1 DEF Live, PreparationLive

\* Growing the ledger keeps the claims exact when it touches no item with a live one.
LEMMA GrowingKeepsExact ==
  ASSUME LiveClaimIsExact, UNCHANGED <<clock, preparationLease>>,
         \A i \in Items: PreparationLive(i) =>
           /\ item'[i].state = item[i].state \/ item'[i].state = "ready"
           /\ definition'[i].rev = definition[i].rev
  PROVE  LiveClaimIsExact'
BY DEF LiveClaimIsExact, PreparationLive, ClaimExact

LEMMA BoardKeepsExact ==
  ASSUME Whole, Exact, BoardNext
  PROVE  Exact'
<1>1. Next /\ TypeOK /\ existing' = existing
  BY DEF BoardNext, Next, Whole, Grown
<1>2. AttemptMatchesItem' /\ LiveClaimIsExact'
  BY <1>1, NextMatches, NextKeepsExact DEF Exact
<1>3. ASSUME NEW i \in Items \ existing
      PROVE  item'[i] = item[i] /\ attempt'[i] = attempt[i]
  <2>1. ASSUME NEW r \in Readings, r.subject \in existing,
               \/ PreparationNext(r) \/ AttemptAuthorityNext(r)
               \/ AttemptLifecycleNext(r) \/ ItemDecisionsNext(r)
        PROVE  item'[i] = item[i] /\ attempt'[i] = attempt[i]
    <3>1. Stamps(r.subject)
      BY <1>1, <2>1, PreparationStamps, AttemptAuthorityStamps, AttemptLifecycleStamps,
         ItemDecisionsStamp
    <3> QED BY <2>1, <3>1 DEF Stamps, SameDecisions, SameFacts
  <2>2. CASE Tick \/ (\E j \in existing: Read(j)) \/ (\E r \in readings: Forget(r))
    BY <2>2 DEF Tick, Read, Forget, ledger
  <2> QED BY <2>1, <2>2 DEF BoardNext
<1> QED BY <1>1, <1>2, <1>3 DEF Exact, Absent

LEMMA ProposalsKeepExact ==
  ASSUME Whole, Exact, NEW t \in 0 .. clock, ProposalsNext(t)
  PROVE  Exact'
<1>1. TypeOK /\ existing \subseteq Items /\ item \in [Items -> Item] /\ definition \in [Items -> Definition]
  BY DEF Whole, Grown, TypeOK
\* Creating an item: the related one keeps its state, and the new one has no attempt.
<1>2. ASSUME NEW new \in Items, NEW touched \in SUBSET Items, Create(new, touched, t),
             \A i \in Items: PreparationLive(i) => definition'[i].rev = definition[i].rev
      PROVE  Exact'
  <2>1. /\ UNCHANGED <<clock, attempt, preparationLease>>
        /\ new \notin existing /\ existing' = existing \cup {new}
    BY <1>2 DEF Create, Commit
  <2>2. \A i \in Items: item'[i].state = IF i = new THEN "ready" ELSE item[i].state
    BY <1>1, <1>2 DEF Create, CreateRow, Item
  <2>3. LiveClaimIsExact'
    BY <1>2, <2>1, <2>2, GrowingKeepsExact DEF Exact
  <2>4. AttemptMatchesItem'
    <3> SUFFICES ASSUME NEW i \in Items
                 PROVE  attempt'[i].state \in AllowedAttemptStates(item'[i].state)
      BY DEF AttemptMatchesItem, AllowedAttemptStates
    <3>1. CASE i = new
      BY <2>1, <2>2, <3>1 DEF Exact, Absent, AllowedAttemptStates
    <3>2. CASE i # new
      BY <2>1, <2>2, <3>2 DEF Exact, AttemptMatchesItem
    <3> QED BY <3>1, <3>2
  <2> QED BY <1>1, <2>1, <2>2, <2>3, <2>4 DEF Exact, Absent
<1>3. ASSUME NEW new \in Items,
             \/ ProposeAlone(new, t)
             \/ \E d \in Dependency: ProposeFollowUp(new, d, t)
             \/ \E i \in Items: ProposeReplacement(new, i, t)
      PROVE  Exact'
  <2>1. PICK touched \in SUBSET Items: Create(new, touched, t)
    BY <1>3 DEF ProposeAlone, ProposeFollowUp, ProposeReplacement
  <2>2. \A i \in Items: definition'[i].rev = definition[i].rev
    BY ZenonT(40), <1>1, <1>3 DEF ProposeAlone, ProposeFollowUp, ProposeReplacement, Definition
  <2> QED BY <1>2, <2>1, <2>2
<1>4. ASSUME NEW new \in Items, NEW i \in Items, ProposePrerequisite(new, i, t)
      PROVE  Exact'
  <2>1. ~ PreparationLive(i)
    BY <1>1, <1>4, LapsedByNow DEF ProposePrerequisite
  <2>2. PICK touched \in SUBSET Items: Create(new, touched, t)
    BY <1>4 DEF ProposePrerequisite
  <2>3. \A j \in Items \ {i}: definition'[j].rev = definition[j].rev
    BY <1>1, <1>4 DEF ProposePrerequisite
  <2> QED BY <1>2, <2>1, <2>2, <2>3
<1>5. ASSUME NEW i \in Items, NEW outcome \in {"superseded", "dropped"}, EndProposal(i, outcome, t)
      PROVE  Exact'
  <2>1. /\ UNCHANGED <<clock, existing, definition, attempt, preparationLease>>
        /\ i \in existing /\ ~ PreparationLive(i) /\ ~ HasAttempt(i)
        /\ SetItemState(i, outcome)
    BY <1>5 DEF EndProposal, Unstarted, Commit
  <2>2. item'[i].state = outcome /\ \A j \in Items \ {i}: item'[j] = item[j]
    BY <1>1, <2>1, SetItemStateEffect
  <2>3. LiveClaimIsExact'
    BY <2>1, <2>2, GrowingKeepsExact DEF Exact
  <2>4. attempt[i].state \in {"none", "done"}
    BY <1>1, <2>1 DEF HasAttempt, TypeOK, Attempt
  <2>5. attempt'[i].state \in AllowedAttemptStates(item'[i].state)
    BY <2>1, <2>2, <2>4 DEF AllowedAttemptStates
  <2>6. AttemptMatchesItem'
    BY <2>1, <2>2, <2>5, OneMoves, TogetherMatches DEF Exact
  <2> QED BY <2>1, <2>2, <2>3, <2>6 DEF Exact, Absent
<1>6. ASSUME NEW i \in Items, (\E target \in Items: MergeProposal(i, target, t)) \/ RejectProposal(i, t)
      PROVE  Exact'
  BY <1>5, <1>6 DEF MergeProposal, RejectProposal
<1> QED BY <1>3, <1>4, <1>6 DEF ProposalsNext

\* Of all items, a consolidation moves its sources alone to another state.
LEMMA ConsolidateEnds ==
  ASSUME TypeOK, NEW t, NEW c \in Items, NEW sources \in SUBSET existing,
         Consolidate(c, sources, t)
  PROVE  \A i \in Items: item'[i].state = IF i \in sources THEN "superseded" ELSE item[i].state
<1> SUFFICES ASSUME NEW i \in Items
             PROVE  item'[i].state = IF i \in sources THEN "superseded" ELSE item[i].state
  OBVIOUS
<1>1. item[i] \in Item /\ c \notin sources
  BY DEF TypeOK, Consolidate, MayConsolidate
<1>2. item'[i] = CASE i \in sources -> [state |-> "superseded", rev |-> NextRevision]
                   [] i \in {c} \cup Outside(c, sources) -> [item[i] EXCEPT !.rev = NextRevision]
                   [] OTHER -> item[i]
  BY DEF Consolidate
<1>3. CASE i \in sources
  <2>1. i \notin {c} \cup Outside(c, sources)
    BY <1>1, <1>3 DEF Outside
  <2> QED BY <1>2, <1>3, <2>1
<1>4. CASE i \in {c} \cup Outside(c, sources) /\ i \notin sources
  BY <1>1, <1>2, <1>4 DEF Item
<1>5. CASE i \notin sources \cup {c} \cup Outside(c, sources)
  BY <1>2, <1>5
<1> QED BY <1>3, <1>4, <1>5

\* A consolidation asks of every item that it touches that nobody prepares it.
LEMMA ConsolidateKeepsExact ==
  ASSUME Whole, Exact, NEW t \in 0 .. clock, NEW c \in Items,
         NEW sources \in SUBSET existing, Consolidate(c, sources, t)
  PROVE  Exact'
<1>1. TypeOK /\ sources \subseteq Items /\ Outside(c, sources) \subseteq Items
  BY DEF Whole, Grown, Outside
<1>2. /\ UNCHANGED <<clock, preparationLease>> /\ existing' = existing \cup {c}
      /\ c \notin sources
      /\ \A s \in sources: item[s].state \in LiveStates \ {"active", "review"}
      /\ \A i \in sources \cup {c} \cup Outside(c, sources): ~ Live(preparationLease[i], t)
  BY DEF Consolidate, MayConsolidate, Commit
<1>3. \A i \in sources \cup {c} \cup Outside(c, sources): ~ PreparationLive(i)
  BY <1>1, <1>2, LapsedByNow
<1>4. \A i \in Items: item'[i].state = IF i \in sources THEN "superseded" ELSE item[i].state
  BY <1>1, ConsolidateEnds
<1>5. \A i \in Items: attempt'[i].state =
        IF i \in sources /\ HasAttempt(i) THEN "done" ELSE attempt[i].state
  <2>1. \A i \in Items: attempt[i] \in Attempt
    BY <1>1 DEF TypeOK
  <2> QED BY <2>1 DEF Consolidate, Attempt
<1>6. \A i \in Items: PreparationLive(i) => definition'[i].rev = definition[i].rev
  <2>1. PICK waits \in RequestedWaits,
             mapped \in [Outside(c, sources) -> Checkpoints \cup {WholeItem}]:
          LET graph == RetargetedGraph(c, sources, waits, mapped)
              changed == {c} \cup DOMAIN mapped IN
          definition' = [i \in Items |->
            [rev |-> definition[i].rev + (IF i \in changed \cap existing THEN 1 ELSE 0),
             deps |-> graph[i]]]
    BY DEF Consolidate, RetargetDefinitions
  <2>2. ASSUME NEW i \in Items, PreparationLive(i)
        PROVE  definition'[i].rev = definition[i].rev
    <3>1. i \notin {c} \cup DOMAIN mapped
      BY <1>3, <2>2
    <3>2. definition[i].rev \in Nat
      BY <1>1 DEF TypeOK, Definition
    <3> QED BY <2>1, <3>1, <3>2
  <2> QED BY <2>2
<1>7. LiveClaimIsExact'
  BY <1>2, <1>3, <1>4, <1>6, GrowingKeepsExact DEF Exact
<1>8. AttemptMatchesItem'
  <2> SUFFICES ASSUME NEW i \in Items
               PROVE  attempt'[i].state \in AllowedAttemptStates(item'[i].state)
    BY DEF AttemptMatchesItem, AllowedAttemptStates
  <2>1. attempt[i].state \in AllowedAttemptStates(item[i].state) /\ attempt[i] \in Attempt
    BY <1>1 DEF Exact, AttemptMatchesItem, TypeOK
  <2>2. CASE i \in sources
    BY <1>4, <1>5, <2>1, <2>2 DEF AllowedAttemptStates, HasAttempt, Attempt
  <2>3. CASE i \notin sources
    BY <1>4, <1>5, <2>1, <2>3
  <2> QED BY <2>2, <2>3
<1>9. Absent'
  BY <1>2, <1>4, <1>5 DEF Exact, Absent
<1> QED BY <1>7, <1>8, <1>9 DEF Exact

\* Every step keeps the claims exact.
LEMMA AlwaysExact == IntakeSpec => []Exact
<1>1. IntakeInit => Exact
  BY DEF IntakeInit, Init, Exact, AttemptMatchesItem, AllowedAttemptStates, LiveClaimIsExact,
     PreparationLive, Live, Absent, NoAttempt, NoPreparation
<1>2. Whole /\ Exact /\ [IntakeNext]_intakeVars => Exact'
  <2> SUFFICES ASSUME Whole, Exact, [IntakeNext]_intakeVars
               PROVE  Exact'
    OBVIOUS
  <2>1. CASE UNCHANGED intakeVars
    BY <2>1 DEF intakeVars, vars, Exact, AttemptMatchesItem, AllowedAttemptStates,
       LiveClaimIsExact, PreparationLive, ClaimExact, Absent
  <2>2. CASE ~ UNCHANGED intakeVars
    BY <2>2, BoardKeepsExact, ProposalsKeepExact, ConsolidateKeepsExact DEF IntakeNext
  <2> QED BY <2>1, <2>2
<1> QED BY <1>1, <1>2, AlwaysWhole, PTL DEF IntakeSpec

\* A live claim names a ready item at its current definition also in a ledger that grows:
\* no proposal, merge or consolidation revises or ends what somebody prepares
\* (LiveClaimIsExact; proposal_decisions and consolidation read the claims under the lock).
THEOREM IntakeExactClaims == IntakeSpec => []LiveClaimIsExact
<1>1. Exact => LiveClaimIsExact
  BY DEF Exact
<1> QED BY <1>1, AlwaysExact, PTL

-----------------------------------------------------------------------------
\* Who stands for x after these sources went into the campaign c.
HeirOf(x, c, sources) == IF x \in sources THEN c ELSE x

\* No decision of the board itself both revises a replacement and moves an item.
LEMMA BoardConsolidatesNothing ==
  ASSUME TypeOK, existing \subseteq Items, BoardNext
  PROVE  replacement' = replacement \/ \A i \in Items: item'[i].state = item[i].state
<1>1. ASSUME NEW r \in Readings, ItemDecisionsNext(r)
      PROVE  replacement' = replacement \/ \A i \in Items: item'[i].state = item[i].state
  <2>1. CASE (\E by \in Items, status \in {"current", "withdrawn"}: RecordReplacement(r, by, status))
             \/ RetainTemporarily(r)
    <3>1. AdvanceItem(r.subject) /\ r.subject \in Items
      BY <2>1, ReadingTyped DEF RecordReplacement, RetainTemporarily
    <3> QED BY <3>1, AdvanceItemEffect
  <2>2. CASE ~ (\/ \E by \in Items, status \in {"current", "withdrawn"}: RecordReplacement(r, by, status)
                \/ RetainTemporarily(r))
    BY <1>1, <2>2 DEF ItemDecisionsNext, MoveUnstarted, ResumeItem, BlockItem, Defer, Reopen,
       CloseDone, CloseSuperseded, Cancel, Revise
  <2> QED BY <2>1, <2>2
<1>2. ASSUME NEW r \in Readings, PreparationNext(r) \/ AttemptAuthorityNext(r)
      PROVE  replacement' = replacement
  BY <1>2 DEF PreparationNext, StartPreparation, RenewPreparation, ReleasePreparation,
     RevokePreparation, Activate, AttemptAuthorityNext, AcquireAttempt, RenewAttempt,
     ReleaseAttempt, RevokeAttempt
<1>3. ASSUME NEW r \in Readings, AttemptLifecycleNext(r)
      PROVE  replacement' = replacement
  BY <1>3 DEF AttemptLifecycleNext, Pause, BlockAttempt, ResumeAttempt, RebindAttempt,
     SubmitReview, ReturnForCorrection, AcceptCheckpoint, AcceptReviewAndContinue, Complete
<1>4. ASSUME Tick \/ (\E i \in existing: Read(i)) \/ (\E r \in readings: Forget(r))
      PROVE  replacement' = replacement
  BY <1>4 DEF Tick, Read, Forget, ledger
<1> QED BY <1>1, <1>2, <1>3, <1>4 DEF BoardNext

\* Nor does a proposal: one that ends leaves the replacements alone.
LEMMA ProposalsConsolidateNothing ==
  ASSUME TypeOK, existing \subseteq Items, NEW t, ProposalsNext(t)
  PROVE  replacement' = replacement \/ \A i \in existing: item'[i].state = item[i].state
<1>1. ASSUME NEW new \in Items, NEW touched \in SUBSET Items, Create(new, touched, t)
      PROVE  \A i \in existing: item'[i].state = item[i].state
  BY <1>1 DEF Create, CreateRow, TypeOK, Item
<1> QED BY <1>1 DEF ProposalsNext, ProposeAlone, ProposeFollowUp, ProposePrerequisite,
     ProposeReplacement, MergeProposal, RejectProposal, EndProposal

\* The live producers of an item's waits.
Producers(j) ==
  Prerequisites(definition[j].deps) \cap {i \in Items: item[i].state \in LiveStates}

\* A wait of one live item for another is one between their heirs afterwards, unless the
\* two have the same heir.
LEMMA WaitsInherited ==
  ASSUME TypeOK, Grown, Absent, NEW t, NEW c \in Items, NEW sources \in SUBSET existing,
         Consolidate(c, sources, t),
         NEW j \in Items, item[j].state \in LiveStates, NEW y \in Producers(j)
  PROVE  \/ HeirOf(y, c, sources) = HeirOf(j, c, sources)
         \/ HeirOf(y, c, sources) \in Producers(HeirOf(j, c, sources))'
<1> DEFINE group == sources \cup {c}
           h(x) == HeirOf(x, c, sources)
<1>1. PICK waits \in RequestedWaits,
           mapped \in [Outside(c, sources) -> Checkpoints \cup {WholeItem}]:
        definition' = [i \in Items |->
          [rev |-> definition[i].rev + (IF i \in ({c} \cup DOMAIN mapped) \cap existing THEN 1 ELSE 0),
           deps |-> RetargetedGraph(c, sources, waits, mapped)[i]]]
  BY DEF Consolidate, RetargetDefinitions
<1>2. waits \in SUBSET Dependency /\ \A i \in Items: definition[i].deps \in SUBSET Dependency
  BY DEF RequestedWaits, TypeOK, Definition
<1>3. /\ existing \subseteq Items /\ c \notin sources
      /\ c \in existing => item[c].state \in LiveStates
      /\ \A s \in sources: item[s].state \in LiveStates
  BY DEF Grown, Consolidate, MayConsolidate
<1>4. \A i \in Items: item'[i].state = IF i \in sources THEN "superseded" ELSE item[i].state
  BY ConsolidateEnds
<1>5. item[c].state \in LiveStates
  BY <1>3 DEF Absent, LiveStates
<1>6. /\ y \in Items /\ item[y].state \in LiveStates
      /\ \E d \in definition[j].deps: d.item = y
  BY DEF Producers, Prerequisites
<1>7. h(y) \in Items /\ item'[h(y)].state \in LiveStates
  BY <1>3, <1>4, <1>5, <1>6 DEF HeirOf
<1>8. ASSUME h(y) \in Prerequisites(definition'[h(j)].deps)
      PROVE  h(y) \in Producers(h(j))'
  BY <1>7, <1>8 DEF Producers, Prerequisites
<1>9. CASE j \in group
  <2> DEFINE kept == {d \in waits \cup UNION {definition[i].deps: i \in group}: d.item \notin group}
  <2>1. h(j) = c
    BY <1>9 DEF HeirOf
  <2>2. CASE y \in group
    BY <2>1, <2>2 DEF HeirOf
  <2>3. CASE y \notin group
    <3>1. h(y) = y
      BY <2>3 DEF HeirOf
    <3>2. kept \in SUBSET Dependency
      BY <1>2, <1>3
    <3>3. y \in Prerequisites(kept)
      BY <1>6, <1>9, <2>3 DEF Prerequisites
    <3>4. definition'[c].deps = Merged(kept)
      <4>1. definition'[c].deps = CampaignWaits(c, sources, waits)
        BY <1>1 DEF RetargetedGraph, Outside
      <4> QED BY <4>1 DEF CampaignWaits
    <3> HIDE DEF kept
    <3>5. y \in Prerequisites(definition'[c].deps)
      BY <3>2, <3>3, <3>4, MergedWaits
    <3> QED BY <1>8, <2>1, <3>1, <3>5
  <2> QED BY <2>2, <2>3
<1>10. CASE j \notin group /\ j \in Outside(c, sources)
  <2> DEFINE moved == {IF d.item \in group THEN [item |-> c, checkpoint |-> mapped[j]] ELSE d:
                         d \in definition[j].deps}
  <2>1. h(j) = j /\ h(y) = (IF y \in group THEN c ELSE y)
    BY <1>10 DEF HeirOf
  <2>2. definition'[j].deps = Merged(moved)
    <3>1. definition'[j].deps = Retargeted(definition[j].deps, c, sources, mapped[j])
      BY <1>1, <1>10 DEF RetargetedGraph
    <3> QED BY <3>1 DEF Retargeted
  <2>3. moved \in SUBSET Dependency
    <3>1. mapped[j] \in Checkpoints \cup {WholeItem}
      BY <1>10
    <3> QED BY <1>2, <3>1 DEF Dependency
  <2>4. h(y) \in Prerequisites(moved)
    <3>1. PICK d \in definition[j].deps: d.item = y
      BY <1>6
    <3>2. (IF d.item \in group THEN [item |-> c, checkpoint |-> mapped[j]] ELSE d) \in moved
      BY <3>1
    <3>3. (IF d.item \in group THEN [item |-> c, checkpoint |-> mapped[j]] ELSE d).item = h(y)
      BY <2>1, <3>1
    <3> QED BY <3>2, <3>3 DEF Prerequisites
  <2> HIDE DEF moved
  <2>5. h(y) \in Prerequisites(definition'[j].deps)
    BY <2>2, <2>3, <2>4, MergedWaits
  <2> QED BY <1>8, <2>1, <2>5
<1>11. CASE j \notin group /\ j \notin Outside(c, sources)
  <2>1. definition'[j].deps = definition[j].deps
    BY <1>1, <1>11 DEF RetargetedGraph
  <2>2. y \notin sources
    <3>1. j \in existing
      BY <1>6 DEF Grown
    <3>2. Prerequisites(definition[j].deps) \cap sources = {}
      BY <1>11, <3>1 DEF Outside
    <3> QED BY <3>2 DEF Producers
  <2>3. h(y) = y /\ h(j) = j
    BY <1>11, <2>2 DEF HeirOf
  <2>4. y \in Prerequisites(definition'[j].deps)
    BY <2>1 DEF Producers, Prerequisites
  <2> QED BY <1>8, <2>3, <2>4
<1> QED BY <1>9, <1>10, <1>11

\* So what was awaited, through any number of items, is awaited by the heir.
LEMMA ConsolidateKeepsWaits ==
  ASSUME TypeOK, Grown, Absent, NEW t, NEW c \in Items, NEW sources \in SUBSET existing,
         Consolidate(c, sources, t),
         NEW i \in existing, item[i].state \in LiveStates, NEW x \in Awaited(i),
         HeirOf(x, c, sources) # HeirOf(i, c, sources)
  PROVE  HeirOf(x, c, sources) \in Awaited(HeirOf(i, c, sources))'
<1> DEFINE W == {j \in Items: item[j].state \in LiveStates}
           V == {j \in Items: item'[j].state \in LiveStates}
           D == [j \in Items |-> Producers(j)]
           E == [j \in Items |-> Producers(j)']
           heir == [j \in Items |-> HeirOf(j, c, sources)]
<1>1. existing \subseteq Items /\ c \notin sources /\ i \in W /\ c \in W
  BY DEF Grown, Consolidate, MayConsolidate, Absent, LiveStates
<1>2. V = W \ sources
  <2>1. \A j \in Items: item'[j].state = IF j \in sources THEN "superseded" ELSE item[j].state
    BY ConsolidateEnds
  <2> QED BY <2>1 DEF LiveStates
<1>3. \A j \in W: heir[j] \in V /\ D[j] \subseteq W
  BY <1>1, <1>2 DEF HeirOf, Producers
<1>4. \A j \in W: \A y \in D[j]: heir[y] = heir[j] \/ heir[y] \in E[heir[j]]
  <2> SUFFICES ASSUME NEW j \in W, NEW y \in D[j]
               PROVE  heir[y] = heir[j] \/ heir[y] \in E[heir[j]]
    OBVIOUS
  <2>1. /\ j \in Items /\ item[j].state \in LiveStates
        /\ y \in Producers(j) /\ y \in Items
    BY DEF Producers
  <2>2. heir[j] = HeirOf(j, c, sources) /\ heir[y] = HeirOf(y, c, sources) /\ heir[j] \in Items
    BY <1>3, <2>1
  <2>3. E[heir[j]] = Producers(HeirOf(j, c, sources))'
    BY <2>2
  <2> QED BY <2>1, <2>2, <2>3, WaitsInherited
<1>5. /\ x \in W
      /\ \A S \in SUBSET W: D[i] \subseteq S /\ (\A j \in S: D[j] \subseteq S) => x \in S
  BY <1>1 DEF Awaited, Producers
<1>6. heir[x] # heir[i] /\ heir[x] \in V /\ heir[i] \in V
  BY <1>1, <1>3, <1>5
<1>7. \A S \in SUBSET V: E[heir[i]] \subseteq S /\ (\A j \in S: E[j] \subseteq S) => heir[x] \in S
  <2> HIDE DEF W, V, D, E, heir
  <2> SUFFICES ASSUME NEW S \in SUBSET V, E[heir[i]] \subseteq S, \A j \in S: E[j] \subseteq S
               PROVE  heir[x] \in S
    OBVIOUS
\* The items whose heirs are in S, or are the heir of i, are closed under the old waits.
  <2> DEFINE U == {y \in W: heir[y] \in S \cup {heir[i]}}
  <2>1. \A j \in U: D[j] \subseteq U
    BY <1>3, <1>4
  <2>2. D[i] \subseteq U
    BY <1>1, <1>3, <1>4
  <2>3. x \in U
    BY <1>5, <2>1, <2>2
  <2> QED BY <1>6, <2>3
<1>8. heir[x] \in Awaited(heir[i])'
  BY <1>6, <1>7 DEF Awaited, Producers, Prerequisites
<1> QED BY <1>1, <1>5, <1>8

\* No order of the work is lost when items are consolidated: who waited for an item,
\* through whichever others, waits for it or for the campaign it went into, and the campaign
\* for all that its sources waited for (WaitsAreKept; _carry_definition and
\* _retarget_definitions).
THEOREM KeptWaits == IntakeSpec => WaitsAreKept
<1> DEFINE Heir(i) == IF i \in Consolidated THEN replacement'[i].by ELSE i
           Kept == Consolidated # {} =>
                     \A i \in existing: item[i].state \in LiveStates =>
                       \A h \in {Heir(i)}: {Heir(x): x \in Awaited(i)} \ {h} \subseteq Awaited(h)'
<1>1. ASSUME Whole, Exact, IntakeNext
      PROVE  Kept
  <2>1. TypeOK /\ Grown /\ Absent /\ existing \subseteq Items
    BY <1>1 DEF Whole, Exact, Grown
  <2>2. ASSUME replacement' = replacement \/ \A i \in existing: item'[i].state = item[i].state
        PROVE  Kept
    <3>1. Consolidated = {}
      BY <2>2 DEF Consolidated, LiveStates
    <3> QED BY <3>1
  <2>3. CASE BoardNext
    BY <2>1, <2>2, <2>3, BoardConsolidatesNothing
  <2>4. ASSUME NEW t \in 0 .. clock, ProposalsNext(t)
        PROVE  Kept
    BY <2>1, <2>2, <2>4, ProposalsConsolidateNothing
  <2>5. ASSUME NEW t \in 0 .. clock, NEW c \in Items, NEW sources \in SUBSET existing,
               Consolidate(c, sources, t)
        PROVE  Kept
    <3>1. \A s \in Items: replacement'[s] = IF s \notin sources THEN replacement[s] ELSE
            [rev |-> replacement[s].rev + 1, by |-> c, status |-> "current", retained |-> FALSE]
      BY <2>5 DEF Consolidate
    <3>2. \A s \in sources: replacement'[s].by = c /\ replacement'[s] # replacement[s]
      <4>1. \A s \in Items: replacement[s].rev \in Nat
        BY <2>1 DEF TypeOK, Replacement
      <4>2. ASSUME NEW s \in sources
            PROVE  replacement'[s].rev = replacement[s].rev + 1 /\ replacement'[s].by = c
        <5>1. replacement'[s] = [rev |-> replacement[s].rev + 1, by |-> c,
                                 status |-> "current", retained |-> FALSE]
          BY <2>1, <3>1
        <5> QED BY <5>1
      <4>3. \A s \in sources: replacement'[s].rev # replacement[s].rev
        BY <2>1, <4>1, <4>2
      <4> QED BY <4>2, <4>3
    <3>3. \A j \in Items: item'[j].state = IF j \in sources THEN "superseded" ELSE item[j].state
      BY <2>1, <2>5, ConsolidateEnds
    <3>4. \A s \in sources: item[s].state \in LiveStates
      BY <2>5 DEF Consolidate, MayConsolidate
    <3>5. Consolidated = sources
      BY <2>1, <3>2, <3>3, <3>4 DEF Consolidated, LiveStates
    <3>6. \A j: Heir(j) = HeirOf(j, c, sources)
      BY <3>2, <3>5 DEF HeirOf
    <3> HIDE DEF Heir
    <3>7. ASSUME NEW i \in existing, item[i].state \in LiveStates, NEW h \in {Heir(i)},
                 NEW x \in Awaited(i), Heir(x) # h
          PROVE  Heir(x) \in Awaited(h)'
      <4>1. h = HeirOf(i, c, sources) /\ Heir(x) = HeirOf(x, c, sources)
        BY <3>6
      <4>2. HeirOf(x, c, sources) \in Awaited(HeirOf(i, c, sources))'
        BY <2>1, <2>5, <3>7, <4>1, ConsolidateKeepsWaits
      <4> QED BY <4>1, <4>2
    <3> QED BY <3>7
  <2> QED BY <1>1, <2>3, <2>4, <2>5 DEF IntakeNext
<1>2. Whole /\ Exact /\ [IntakeNext]_intakeVars => [Kept]_intakeVars
  BY <1>1
<1> HIDE DEF Kept
<1>3. IntakeSpec => [][Kept]_intakeVars
  BY <1>2, AlwaysWhole, AlwaysExact, PTL DEF IntakeSpec
<1> QED BY <1>3 DEF WaitsAreKept, Kept
-----------------------------------------------------------------------------
\* What holds at first and is kept from each number to the next holds of all of them.
LEMMA NatSteps ==
  ASSUME NEW T, 0 \in T, \A n \in Nat: n \in T => n + 1 \in T
  PROVE  \A n \in Nat: n \in T
<1> DEFINE Missing == Nat \ T
<1> SUFFICES ASSUME Missing # {}
             PROVE  FALSE
  OBVIOUS
<1>1. PICK n \in Missing: \A m \in Missing: ~ <<m, n>> \in OpToRel(<, Nat)
  <2>1. Missing \subseteq Nat
    OBVIOUS
  <2> HIDE DEF Missing
  <2> QED BY <2>1, NatLessThanWellFounded, WFMin
<1>2. n \in Nat /\ n # 0 /\ n - 1 \in Nat /\ n - 1 < n
  OBVIOUS
<1>3. n - 1 \in Missing
  BY <1>2
<1> HIDE DEF Missing
<1> QED BY <1>1, <1>2, <1>3 DEF OpToRel

\* A loop that maps the states S to themselves has a state after each number of rounds.
LEMMA RoundsExist ==
  ASSUME NEW S, NEW first \in S, NEW step \in [S -> S]
  PROVE  \E f \in [Nat -> S]: f = [n \in Nat |-> IF n = 0 THEN first ELSE step[f[n - 1]]]
<1> DEFINE Trace(g, n) == /\ g \in [0 .. n -> S] /\ g[0] = first
                          /\ \A k \in 1 .. n: g[k] = step[g[k - 1]]
           After(n, x) == \E g: Trace(g, n) /\ g[n] = x
           T == {n \in Nat: \E x \in S: After(n, x)}
           U == {n \in Nat: \A x, y: After(n, x) /\ After(n, y) => x = y}
<1>1. ASSUME NEW n \in Nat, NEW g, Trace(g, n)
      PROVE  After(n + 1, step[g[n]]) /\ g[n] \in S
  <2> DEFINE h == [k \in 0 .. (n + 1) |-> IF k = n + 1 THEN step[g[n]] ELSE g[k]]
  <2>1. g[n] \in S /\ \A k \in 0 .. n: h[k] = g[k] /\ g[k] \in S
    BY <1>1
  <2>2. h[n + 1] = step[g[n]] /\ step[g[n]] \in S
    BY <2>1
  <2>3. h \in [0 .. (n + 1) -> S]
    BY <2>1, <2>2
  <2>4. ASSUME NEW k \in 1 .. (n + 1)
        PROVE  h[k] = step[h[k - 1]]
    <3>1. CASE k = n + 1
      BY <3>1, <2>1, <2>2
    <3>2. CASE k # n + 1
      <4>1. k \in 1 .. n /\ k \in 0 .. n /\ k - 1 \in 0 .. n
        BY <3>2
      <4> HIDE DEF h
      <4> QED BY <1>1, <2>1, <4>1
    <3> QED BY <3>1, <3>2
  <2>5. h[0] = first
    BY <1>1, <2>1
  <2> HIDE DEF h
  <2> QED BY <2>1, <2>2, <2>3, <2>4, <2>5
<1>2. ASSUME NEW n \in Nat, NEW x, After(n + 1, x)
      PROVE  \E y: After(n, y) /\ x = step[y]
  <2>1. PICK g: Trace(g, n + 1) /\ g[n + 1] = x
    BY <1>2
  <2> DEFINE h == [k \in 0 .. n |-> g[k]]
  <2>2. h \in [0 .. n -> S] /\ \A k \in 0 .. n: h[k] = g[k]
    BY <2>1
  <2>3. \A k \in 1 .. n: k \in 1 .. (n + 1) /\ k \in 0 .. n /\ k - 1 \in 0 .. n
    OBVIOUS
  <2> HIDE DEF h
  <2>4. Trace(h, n)
    BY <2>1, <2>2, <2>3
  <2>5. n + 1 \in 1 .. (n + 1) /\ n + 1 - 1 = n /\ n \in 0 .. n
    OBVIOUS
  <2>6. x = step[h[n]]
    BY <2>1, <2>2, <2>5
  <2> QED BY <2>4, <2>6
<1>3. After(0, first) /\ \A x: After(0, x) => x = first
  <2> DEFINE h == [k \in 0 .. 0 |-> first]
  <2>1. h \in [0 .. 0 -> S] /\ h[0] = first /\ 1 .. 0 = {}
    OBVIOUS
  <2> HIDE DEF h
  <2> QED BY <2>1
<1>4. \A n \in Nat: n \in T
  <2>1. 0 \in T
    BY <1>3
  <2>2. ASSUME NEW n \in Nat, n \in T
        PROVE  n + 1 \in T
    <3>1. PICK g: Trace(g, n)
      BY <2>2
    <3>2. After(n + 1, step[g[n]]) /\ step[g[n]] \in S
      BY <1>1, <3>1
    <3> HIDE DEF After, Trace
    <3> QED BY <3>2
  <2> HIDE DEF T
  <2> QED BY <2>1, <2>2, NatSteps
<1>5. \A n \in Nat: n \in U
  <2> HIDE DEF After
  <2>1. 0 \in U
    BY <1>3
  <2>2. ASSUME NEW n \in Nat, n \in U
        PROVE  n + 1 \in U
    <3> SUFFICES ASSUME NEW x, NEW y, After(n + 1, x), After(n + 1, y)
                 PROVE  x = y
      OBVIOUS
    <3>1. PICK v: After(n, v) /\ x = step[v]
      BY <1>2
    <3>2. PICK w: After(n, w) /\ y = step[w]
      BY <1>2
    <3> QED BY <2>2, <3>1, <3>2
  <2> HIDE DEF U
  <2> QED BY <2>1, <2>2, NatSteps
<1> DEFINE f == [n \in Nat |-> CHOOSE x \in S: After(n, x)]
<1>6. \A n \in Nat: f[n] \in S /\ After(n, f[n])
  <2> HIDE DEF After
  <2> QED BY <1>4
<1>7. f[0] = first
  BY <1>3, <1>6
<1>8. ASSUME NEW n \in Nat, n # 0
      PROVE  f[n] = step[f[n - 1]]
  <2>1. n - 1 \in Nat /\ n - 1 + 1 = n
    BY <1>8
  <2>2. PICK g: Trace(g, n - 1) /\ g[n - 1] = f[n - 1]
    BY <1>6, <2>1
  <2>3. After(n, step[f[n - 1]]) /\ After(n, f[n])
    <3> HIDE DEF f, Trace, After
    <3> QED BY <1>1, <1>6, <2>1, <2>2
  <2> HIDE DEF After, f
  <2> QED BY <1>5, <2>3
<1>9. f \in [Nat -> S]
  BY <1>6
<1>10. f = [n \in Nat |-> IF n = 0 THEN first ELSE step[f[n - 1]]]
  <2>1. \A n \in Nat: f[n] = IF n = 0 THEN first ELSE step[f[n - 1]]
    <3> HIDE DEF f
    <3> QED BY <1>7, <1>8
  <2> DEFINE h == [n \in Nat |-> IF n = 0 THEN first ELSE step[f[n - 1]]]
  <2>2. DOMAIN f = Nat /\ f = [n \in Nat |-> f[n]]
    OBVIOUS
  <2> HIDE DEF f
  <2> QED BY <2>1, <2>2
<1> HIDE DEF f
<1> QED BY <1>9, <1>10

\* The states of a loop are among S, and a measure grows with each round until it is final.
Progress(run, S, final, size, N) ==
  /\ N \in Nat /\ run[0] \in S
  /\ \A n \in Nat: run[n] \in S =>
       /\ run[n + 1] \in S
       /\ run[n] \in final => run[n + 1] \in final
       /\ run[n] \notin final => size[run[n + 1]] > size[run[n]]
  /\ \A s \in S: size[s] \in Nat /\ size[s] <= N

LEMMA LoopEnds ==
  ASSUME NEW run, NEW S, NEW final, NEW size, NEW N, Progress(run, S, final, size, N)
  PROVE  run[N] \in S /\ run[N] \in final
<1> USE DEF Progress
<1> DEFINE T == {n \in Nat: run[n] \in S /\ (run[n] \in final \/ size[run[n]] >= n)}
<1>1. 0 \in T
  OBVIOUS
<1>2. ASSUME NEW n \in Nat, n \in T
      PROVE  n + 1 \in T
  <2>1. run[n] \in S /\ run[n + 1] \in S /\ size[run[n]] \in Nat /\ size[run[n + 1]] \in Nat
    BY <1>2
  <2> QED BY <1>2, <2>1
<1>3. \A n \in Nat: n \in T
  <2> HIDE DEF T
  <2> QED BY <1>1, <1>2, NatSteps
<1>4. run[N] \in S /\ (run[N] \in final \/ size[run[N]] >= N)
  BY <1>3
<1>5. ASSUME run[N] \notin final
      PROVE  FALSE
  <2>1. size[run[N]] >= N /\ run[N + 1] \in S /\ size[run[N + 1]] > size[run[N]]
    BY <1>4, <1>5
  <2>2. size[run[N]] \in Nat /\ size[run[N + 1]] \in Nat /\ size[run[N + 1]] <= N
    BY <1>4, <2>1
  <2> QED BY <2>1, <2>2
<1> QED BY <1>4, <1>5

-----------------------------------------------------------------------------
\* q names each item of S once.
Lists(q, S) ==
  /\ q \in Seq(S)
  /\ \A i \in S: \E k \in 1 .. Len(q): q[k] = i
  /\ \A j, k \in 1 .. Len(q): q[j] = q[k] => j = k

LEMMA NothingListed ==
  ASSUME NEW q, NEW S, Lists(q, S)
  PROVE  q = <<>> <=> S = {}
<1>1. q = <<>> => S = {}
  BY DEF Lists
<1>2. S = {} => q = <<>>
  BY EmptySeq DEF Lists
<1> QED BY <1>1, <1>2

LEMMA FirstListed ==
  ASSUME NEW q, NEW S, Lists(q, S), q # <<>>
  PROVE  Head(q) \in S /\ Lists(Tail(q), S \ {Head(q)})
<1> DEFINE i == Head(q)
           t == Tail(q)
<1>1. q \in Seq(S) /\ Len(q) \in Nat /\ Len(q) # 0
  BY EmptySeq DEF Lists
<1>2. i = q[1] /\ i \in S /\ t \in Seq(S) /\ Len(t) = Len(q) - 1
      /\ \A k \in 1 .. Len(t): t[k] = q[k + 1]
  BY <1>1, HeadTailProperties
<1> HIDE DEF i, t
<1>3. \A k \in 1 .. Len(t): k \in Nat /\ k + 1 \in 1 .. Len(q) /\ k + 1 # 1
  BY <1>1, <1>2
<1>4. 1 \in 1 .. Len(q)
  BY <1>1
<1>5. ASSUME NEW k \in 1 .. Len(t)
      PROVE  t[k] # i /\ t[k] \in S
  <2>1. t[k] = q[k + 1] /\ k + 1 \in 1 .. Len(q) /\ k + 1 # 1
    BY <1>2, <1>3
  <2>2. q[k + 1] # q[1]
    BY <1>4, <2>1 DEF Lists
  <2> QED BY <1>1, <1>2, <2>1, <2>2
<1>6. t \in Seq(S \ {i})
  <2>1. \A k \in 1 .. Len(t): t[k] \in S \ {i}
    BY <1>5
  <2>2. t = [k \in 1 .. Len(t) |-> t[k]] /\ Len(t) \in Nat
    BY <1>2
  <2> QED BY <2>1, <2>2
<1>7. ASSUME NEW j \in S \ {i}
      PROVE  \E k \in 1 .. Len(t): t[k] = j
  <2>1. PICK k \in 1 .. Len(q): q[k] = j
    BY DEF Lists
  <2>2. k # 1 /\ k - 1 \in 1 .. Len(t) /\ k - 1 + 1 = k
    BY <1>1, <1>2, <1>7, <2>1
  <2> QED BY <1>2, <2>1, <2>2
<1>8. \A j, k \in 1 .. Len(t): t[j] = t[k] => j = k
  <2> SUFFICES ASSUME NEW j \in 1 .. Len(t), NEW k \in 1 .. Len(t), t[j] = t[k]
               PROVE  j = k
    OBVIOUS
  <2>1. q[j + 1] = q[k + 1]
    BY <1>2
  <2>2. j + 1 = k + 1
    BY <1>3, <2>1 DEF Lists
  <2> QED BY <2>2
<1> QED BY <1>2, <1>6, <1>7, <1>8 DEF Lists, i, t

LEMMA BothListed ==
  ASSUME NEW q, NEW S, Lists(q, S), NEW r, NEW T, Lists(r, T), S \cap T = {}
  PROVE  Lists(q \o r, S \cup T)
<1> DEFINE s == q \o r
<1>1. q \in Seq(S \cup T) /\ r \in Seq(S \cup T) /\ Len(q) \in Nat /\ Len(r) \in Nat
      /\ q \in Seq(S) /\ r \in Seq(T)
  BY DEF Lists
<1>2. s \in Seq(S \cup T) /\ Len(s) = Len(q) + Len(r)
      /\ \A k \in 1 .. Len(q) + Len(r): s[k] = IF k <= Len(q) THEN q[k] ELSE r[k - Len(q)]
  BY <1>1, ConcatProperties
<1> HIDE DEF s
<1>3. \A k \in 1 .. Len(q): q[k] \in S
  BY <1>1
<1>4. \A k \in 1 .. Len(r): r[k] \in T
  BY <1>1
<1>5. ASSUME NEW k \in 1 .. Len(s)
      PROVE  \/ k \in 1 .. Len(q) /\ s[k] = q[k]
             \/ k - Len(q) \in 1 .. Len(r) /\ s[k] = r[k - Len(q)]
  <2>1. k \in 1 .. Len(q) + Len(r)
    BY <1>2
  <2>2. CASE k <= Len(q)
    BY <1>1, <1>2, <2>1, <2>2
  <2>3. CASE ~ k <= Len(q)
    <3>1. k - Len(q) \in 1 .. Len(r)
      BY <1>1, <2>1, <2>3
    <3> QED BY <1>2, <2>1, <2>3, <3>1
  <2> QED BY <2>2, <2>3
<1>6. ASSUME NEW i \in S \cup T
      PROVE  \E k \in 1 .. Len(s): s[k] = i
  <2>1. CASE i \in S
    <3>1. PICK k \in 1 .. Len(q): q[k] = i
      BY <2>1 DEF Lists
    <3>2. k \in 1 .. Len(s) /\ k \in 1 .. Len(q) + Len(r) /\ k <= Len(q)
      BY <1>1, <1>2
    <3> QED BY <1>2, <3>1, <3>2
  <2>2. CASE i \in T
    <3>1. PICK k \in 1 .. Len(r): r[k] = i
      BY <2>2 DEF Lists
    <3>2. /\ k + Len(q) \in 1 .. Len(s) /\ k + Len(q) \in 1 .. Len(q) + Len(r)
          /\ ~ k + Len(q) <= Len(q) /\ k + Len(q) - Len(q) = k
      BY <1>1, <1>2
    <3> QED BY <1>2, <3>1, <3>2
  <2> QED BY <2>1, <2>2
<1>7. ASSUME NEW j \in 1 .. Len(s), NEW k \in 1 .. Len(s), s[j] = s[k]
      PROVE  j = k
  <2>1. CASE j \in 1 .. Len(q) /\ s[j] = q[j] /\ k \in 1 .. Len(q) /\ s[k] = q[k]
    BY <1>7, <2>1 DEF Lists
  <2>2. CASE /\ j - Len(q) \in 1 .. Len(r) /\ s[j] = r[j - Len(q)]
             /\ k - Len(q) \in 1 .. Len(r) /\ s[k] = r[k - Len(q)]
    <3>1. j - Len(q) = k - Len(q)
      BY <1>7, <2>2 DEF Lists
    <3> QED BY <1>1, <1>2, <3>1
  <2> QED BY <1>3, <1>4, <1>5, <1>7, <2>1, <2>2
<1> QED BY <1>2, <1>6, <1>7 DEF Lists, s

LEMMA SetToSeqsLists ==
  ASSUME NEW S, IsFiniteSet(S), NEW q
  PROVE  q \in SetToSeqs(S) <=> Lists(q, S)
<1> DEFINE n == Cardinality(S)
<1>1. n \in Nat /\ IsFiniteSet(1 .. n) /\ Cardinality(1 .. n) = n
  BY FS_CardinalityType, FS_Interval
<1>2. ASSUME q \in SetToSeqs(S)
      PROVE  Lists(q, S)
  <2>1. q \in [1 .. n -> S] /\ \A j, k \in 1 .. n: j # k => q[j] # q[k]
    BY <1>2 DEF SetToSeqs
  <2> HIDE DEF n
  <2>2. q \in Injection(1 .. n, S)
    BY <2>1 DEF Injection, IsInjective
  <2>3. q \in Surjection(1 .. n, S)
    BY <1>1, <2>2, FS_Injection DEF n
  <2>4. q \in Seq(S) /\ Len(q) = n
    BY <1>1, <2>1
  <2>5. \A i \in S: \E k \in 1 .. n: q[k] = i
    BY <2>3 DEF Surjection
  <2> QED BY <2>1, <2>4, <2>5 DEF Lists
<1>3. ASSUME Lists(q, S)
      PROVE  q \in SetToSeqs(S)
  <2>1. q \in [1 .. Len(q) -> S] /\ Len(q) \in Nat
    BY <1>3 DEF Lists
  <2>2. q \in Bijection(1 .. Len(q), S)
    BY <1>3, <2>1 DEF Lists, Bijection, Injection, Surjection, IsInjective
  <2>3. Len(q) = n
    BY <2>1, <2>2, FS_CountingElements DEF ExistsBijection
  <2> HIDE DEF n
  <2>4. q \in [1 .. n -> S] /\ \A j, k \in 1 .. n: j # k => q[j] # q[k]
    BY <1>3, <2>1, <2>3 DEF Lists
  <2> QED BY <2>4 DEF SetToSeqs, n
<1> QED BY <1>2, <1>3

Follows(q, open) ==
  \A j, k \in 1 .. Len(q): j < k =>
    \E m, n \in 1 .. Len(open): m < n /\ open[m] = q[j] /\ open[n] = q[k]

\* What is chosen by priority is listed: take the items of S one after the other.
LEMMA ByPriorityLists ==
  ASSUME NEW O, NEW open, Lists(open, O), NEW S \in SUBSET O, IsFiniteSet(O)
  PROVE  Lists(ByPriority(S, open), S)
<1> DEFINE First(n) == {i \in S: \E k \in 1 .. n: k <= Len(open) /\ open[k] = i}
           T == {n \in Nat: \E q: Lists(q, First(n)) /\ Follows(q, open)}
<1>1. Len(open) \in Nat /\ open \in [1 .. Len(open) -> O]
  BY DEF Lists
<1>2. 0 \in T
  <2>1. First(0) = {}
    OBVIOUS
  <2>2. Lists(<<>>, {}) /\ Follows(<<>>, open)
    BY DEF Lists, Follows
  <2> HIDE DEF First
  <2> QED BY <2>1, <2>2
<1>3. ASSUME NEW n \in Nat, n \in T
      PROVE  n + 1 \in T
  <2>1. PICK q: Lists(q, First(n)) /\ Follows(q, open)
    BY <1>3
  <2> DEFINE i == open[n + 1]
  <2>2. CASE ~ (n + 1 <= Len(open) /\ i \in S)
    <3>1. \A k \in 1 .. (n + 1): k = n + 1 \/ k \in 1 .. n
      OBVIOUS
    <3>2. First(n + 1) = First(n)
      BY <2>2, <3>1
    <3> HIDE DEF First
    <3> QED BY <2>1, <3>2
  <2>3. CASE n + 1 <= Len(open) /\ i \in S
    <3>1. \A k \in 1 .. (n + 1): k = n + 1 \/ k \in 1 .. n
      OBVIOUS
    <3>2. n + 1 \in 1 .. (n + 1) /\ n + 1 \in 1 .. Len(open) /\ \A k \in 1 .. n: k \in 1 .. (n + 1) /\ k # n + 1
      BY <1>1, <2>3
    <3>3. First(n + 1) = First(n) \cup {i}
      BY <2>3, <3>1, <3>2
    <3>4. i \notin First(n)
      BY <1>1, <2>3, <3>2 DEF Lists
    <3>5. \A j \in First(n): \E m \in 1 .. Len(open): m < n + 1 /\ open[m] = j
      BY <1>1
    <3> HIDE DEF First, i
    <3>6. Lists(<<i>>, {i})
      BY DEF Lists
    <3>7. Lists(q \o <<i>>, First(n) \cup {i})
      BY <2>1, <3>4, <3>6, BothListed
    <3>8. q \in Seq(First(n)) /\ Len(q) \in Nat /\ \A k \in 1 .. Len(q): q[k] \in First(n)
      BY <2>1 DEF Lists
    <3>9. /\ Len(q \o <<i>>) = Len(q) + 1
          /\ \A k \in 1 .. Len(q): (q \o <<i>>)[k] = q[k]
          /\ (q \o <<i>>)[Len(q) + 1] = i
      BY <3>8
    <3>10. Follows(q \o <<i>>, open)
      <4> DEFINE s == q \o <<i>>
      <4> SUFFICES ASSUME NEW j \in 1 .. Len(s), NEW k \in 1 .. Len(s), j < k
                   PROVE  \E l, m \in 1 .. Len(open): l < m /\ open[l] = s[j] /\ open[m] = s[k]
        BY DEF Follows
      <4>1. j \in 1 .. Len(q) /\ s[j] = q[j] /\ q[j] \in First(n)
        BY <3>8, <3>9
      <4>2. CASE k = Len(q) + 1
        <5>1. s[k] = open[n + 1]
          BY <3>9, <4>2 DEF i
        <5> HIDE DEF s
        <5> QED BY <3>2, <3>5, <4>1, <5>1
      <4>3. CASE k # Len(q) + 1
        <5>1. k \in 1 .. Len(q) /\ s[k] = q[k]
          BY <3>8, <3>9, <4>3
        <5> HIDE DEF s
        <5> QED BY <2>1, <4>1, <5>1 DEF Follows
      <4> QED BY <4>2, <4>3
    <3> QED BY <3>3, <3>7, <3>10
  <2> QED BY <2>2, <2>3
<1>4. Len(open) \in T
  <2> HIDE DEF T
  <2> QED BY <1>1, <1>2, <1>3, NatSteps
<1>5. First(Len(open)) = S
  BY <1>1 DEF Lists
<1>6. PICK q: Lists(q, S) /\ Follows(q, open)
  BY <1>4, <1>5
<1>7. IsFiniteSet(S)
  BY FS_Subset
<1>8. q \in SetToSeqs(S)
  BY <1>6, <1>7, SetToSeqsLists
<1>9. ByPriority(S, open) \in SetToSeqs(S)
  BY <1>6, <1>8 DEF ByPriority, Follows
<1> QED BY <1>7, <1>9, SetToSeqsLists
-----------------------------------------------------------------------------
\* What the ledger gives the roadmap: an unfinished item waits for items that are there,
\* each of them unfinished or dropped.
LEMMA WhatItWaitsFor ==
  ASSUME Whole, NEW i \in Unfinished
  PROVE  /\ i \in Items /\ Waits(i) \subseteq Prerequisites(definition[i].deps)
         /\ Prerequisites(definition[i].deps) \subseteq existing /\ existing \subseteq Items
         /\ \A p \in Waits(i): p \in Unfinished \/ item[p].state = "dropped"
         /\ DependenciesSatisfied(i) <=> Waits(i) = {}
<1>1. i \in existing /\ existing \subseteq Items /\ Prerequisites(definition[i].deps) \subseteq existing
  BY DEF Whole, Grown, Unfinished
<1>2. Waits(i) \subseteq Prerequisites(definition[i].deps)
  BY DEF Waits, Prerequisites
<1>3. ASSUME NEW p \in Waits(i)
      PROVE  p \in Unfinished \/ item[p].state = "dropped"
  <2>1. p \in existing /\ item[p].state \in LiveStates \cup TerminalStates
    BY <1>1, <1>2, <1>3 DEF Whole, TypeOK, Item
  <2>2. item[p].state \notin {"done", "superseded"}
    BY <1>3 DEF Waits, Satisfied
  <2> QED BY <2>1, <2>2 DEF TerminalStates, Unfinished
<1>4. DependenciesSatisfied(i) <=> Waits(i) = {}
  BY DEF DependenciesSatisfied, Waits
<1> QED BY <1>1, <1>2, <1>3, <1>4

LEMMA ShownCloses ==
  ASSUME Whole, NEW members \in SUBSET existing, NEW i \in Unfinished
  PROVE  i \in Shown(members) /\ Waits(i) \subseteq Shown(members)
<1> DEFINE begin == Unfinished \cup members
           first == [selected |-> begin, pending |-> begin]
           F(f) == [n \in Nat |-> IF n = 0 THEN first ELSE NextBatch(f[n - 1])]
           after == CHOOSE f: f = F(f)
           Needed == UNION {Prerequisites(definition[j].deps): j \in Unfinished}
           S == [selected: SUBSET Items, pending: SUBSET Items]
           step == [s \in S |-> NextBatch(s)]
           Grows(s) == /\ s \in S /\ s.selected \subseteq NextBatch(s).selected
                       /\ Unfinished \subseteq s.pending => Needed \subseteq NextBatch(s).selected
<1>1. Unfinished \subseteq existing /\ existing \subseteq Items /\ Needed \subseteq Items
  <2>1. Unfinished \subseteq existing /\ existing \subseteq Items
    BY DEF Whole, Grown, Unfinished
  <2> QED BY <2>1, WhatItWaitsFor
<1>2. ASSUME NEW s \in S
      PROVE  NextBatch(s) \in S /\ Grows(s)
  <2> DEFINE discovered ==
        (UNION {Prerequisites(definition[j].deps): j \in s.pending \cap Unfinished}) \ s.selected
  <2>1. NextBatch(s) = [selected |-> s.selected \cup discovered, pending |-> discovered]
    BY DEF NextBatch
  <2>2. discovered \subseteq Needed
    OBVIOUS
  <2>3. ASSUME Unfinished \subseteq s.pending, NEW x \in Needed
        PROVE  x \in s.selected \cup discovered
    <3>1. PICK j \in Unfinished: x \in Prerequisites(definition[j].deps)
      OBVIOUS
    <3>2. j \in s.pending \cap Unfinished
      BY <2>3
    <3>3. x \in UNION {Prerequisites(definition[k].deps): k \in s.pending \cap Unfinished}
      BY <3>1, <3>2
    <3> QED BY <3>3
  <2> HIDE DEF discovered, Needed
  <2> QED BY <1>1, <2>1, <2>2, <2>3
<1>3. first \in S
  BY <1>1
<1>4. step \in [S -> S]
  BY <1>2
<1>5. \E f: f = F(f)
  <2>1. PICK f \in [Nat -> S]: f = [n \in Nat |-> IF n = 0 THEN first ELSE step[f[n - 1]]]
    <3> HIDE DEF S, first, step
    <3> QED BY <1>3, <1>4, RoundsExist
  <2>2. \A n \in Nat: n # 0 => n - 1 \in Nat
    OBVIOUS
  <2>3. \A n \in Nat: n # 0 => step[f[n - 1]] = NextBatch(f[n - 1])
    <3> HIDE DEF first, S
    <3> QED BY <2>1, <2>2
  <2>4. f = F(f)
    <3> HIDE DEF first, S, step
    <3> QED BY <2>1, <2>3
  <2> QED BY <2>4
<1>6. after = F(after)
  <2> HIDE DEF F
  <2> QED BY <1>5
<1>7. Shown(members) = after[Rounds].selected
  BY DEF Shown
<1> HIDE DEF after
<1>8. after[0] = first /\ \A n \in Nat: after[n + 1] = NextBatch(after[n])
  <2>1. 0 \in Nat /\ \A n \in Nat: n + 1 \in Nat /\ n + 1 # 0 /\ n + 1 - 1 = n
    OBVIOUS
  <2> HIDE DEF first
  <2> QED BY <1>6, <2>1
<1> DEFINE T == {n \in Nat: /\ after[n] \in S /\ Unfinished \subseteq after[n].selected
                            /\ n # 0 => Needed \subseteq after[n].selected}
<1>9. 0 \in T
  BY <1>3, <1>8
<1>10. ASSUME NEW n \in Nat, n \in T
       PROVE  n + 1 \in T
  <2>1. after[n + 1] = NextBatch(after[n]) /\ n + 1 \in Nat /\ NextBatch(after[n]) \in S /\ Grows(after[n])
    BY <1>2, <1>8, <1>10
  <2>2. CASE n = 0
    <3>1. Unfinished \subseteq after[n].pending
      BY <1>8, <2>2
    <3> HIDE DEF Needed, first, S
    <3> QED BY <1>10, <2>1, <3>1
  <2>3. CASE n # 0
    <3> HIDE DEF Needed, first, S
    <3> QED BY <1>10, <2>1, <2>3
  <2> QED BY <2>2, <2>3
<1>11. \A n \in Nat: n \in T
  <2> HIDE DEF T
  <2> QED BY <1>9, <1>10, NatSteps
<1>12. Rounds \in Nat /\ Rounds # 0 /\ i \in Items
  <2>1. i \in Items
    BY <1>1
  <2> QED BY <2>1, ItemsAssumption, FS_CardinalityType, FS_EmptySet DEF Rounds
<1>13. Rounds \in T
  BY <1>11, <1>12
<1> QED BY <1>7, <1>12, <1>13, WhatItWaitsFor

\* A path from item i along waits to a dropped one.
Path(i, path) ==
  /\ path \in Seq(Items) /\ path # <<>> /\ path[1] = i
  /\ \A k \in 2 .. Len(path): path[k] \in Waits(path[k - 1])
  /\ item[Last(path)].state = "dropped"

\* The placements of invalid items.
Broken(invalid) == \A i \in DOMAIN invalid: \E path: Path(i, path) /\ invalid[i] = Blocked(path)

LEMMA LongerPath ==
  ASSUME NEW i \in Items, NEW p \in Waits(i), NEW path, Path(p, path)
  PROVE  Path(i, <<i>> \o path)
<1> DEFINE s == <<i>> \o path
<1>1. path \in Seq(Items) /\ Len(path) \in Nat /\ Len(path) # 0
  BY EmptySeq DEF Path
<1>2. s \in Seq(Items) /\ Len(s) = Len(path) + 1 /\ s[1] = i
  BY <1>1
<1>3. \A k \in 2 .. Len(s): k - 1 \in 1 .. Len(path) /\ s[k] = path[k - 1]
  BY <1>1, <1>2
<1> HIDE DEF s
<1>4. ASSUME NEW k \in 2 .. Len(s)
      PROVE  s[k] \in Waits(s[k - 1])
  <2>1. CASE k = 2
    <3>1. s[k] = path[1] /\ s[k - 1] = i
      BY <1>2, <1>3, <2>1
    <3> QED BY <3>1 DEF Path
  <2>2. CASE k # 2
    <3>1. k - 1 \in 2 .. Len(s) /\ k - 1 \in 2 .. Len(path)
      BY <1>3, <2>2, <1>2, <1>1
    <3>2. s[k] = path[k - 1] /\ s[k - 1] = path[k - 1 - 1]
      BY <1>3, <3>1
    <3> QED BY <3>1, <3>2 DEF Path
  <2> QED BY <2>1, <2>2
<1>5. Last(s) = Last(path)
  <2>1. Len(s) \in 2 .. Len(s) /\ Len(s) - 1 = Len(path)
    BY <1>1, <1>2
  <2> QED BY <1>3, <2>1 DEF Last
<1>6. s # <<>>
  BY <1>1, <1>2
<1> QED BY <1>2, <1>4, <1>5, <1>6 DEF Path, s

LEMMA SeedsBroken ==
  ASSUME Whole, NEW shown, \A i \in Unfinished: i \in shown /\ Waits(i) \subseteq shown
  PROVE  /\ DOMAIN Invalid(shown) =
              {i \in Unfinished: \E p \in Waits(i): item[p].state = "dropped"}
         /\ Broken(Invalid(shown))
<1> DEFINE bad(i) == {p \in Waits(i): p \notin shown \/ item[p].state = "dropped"}
           p(i) == CHOOSE q \in bad(i): TRUE
           D == {i \in shown \cap Unfinished: bad(i) # {}}
           placement(i) == IF p(i) \in shown THEN Blocked(<<i, p(i)>>) ELSE Unknown
<1>1. Invalid(shown) = [i \in D |-> placement(i)]
  BY DEF Invalid
<1>2. D = {i \in Unfinished: \E q \in Waits(i): item[q].state = "dropped"}
  OBVIOUS
<1>3. ASSUME NEW i \in D
      PROVE  Path(i, <<i, p(i)>>) /\ placement(i) = Blocked(<<i, p(i)>>)
  <2>1. p(i) \in bad(i)
    OBVIOUS
  <2>2. i \in Items /\ p(i) \in Items /\ p(i) \in Waits(i) /\ p(i) \in shown /\ item[p(i)].state = "dropped"
    BY <2>1, WhatItWaitsFor
  <2> HIDE DEF p
  <2>3. /\ <<i, p(i)>> \in Seq(Items) /\ <<i, p(i)>> # <<>> /\ Len(<<i, p(i)>>) = 2
        /\ <<i, p(i)>>[1] = i /\ <<i, p(i)>>[2] = p(i)
    BY <2>2
  <2> QED BY <2>2, <2>3 DEF Path, Last
<1> HIDE DEF p, bad, D, placement
<1> QED BY <1>1, <1>2, <1>3 DEF Broken

-----------------------------------------------------------------------------
\* Breadth first, the loop ends when everybody who waits for an invalid item is one, with a path.
Spreading(s, open, seeds, Q) ==
  /\ seeds \subseteq DOMAIN s.invalid /\ DOMAIN s.invalid \subseteq Unfinished
  /\ Broken(s.invalid)
  /\ Q \subseteq DOMAIN s.invalid /\ Lists(s.queue, Q)
  /\ \A i \in DOMAIN s.invalid \ Q, j \in Unfinished: i \in Waits(j) => j \in DOMAIN s.invalid

Mapping(f) == f = [x \in DOMAIN f |-> f[x]]

LEMMA Overridden ==
  ASSUME NEW f, NEW g, NEW h, h = Over(f, g)
  PROVE  /\ Mapping(h) /\ DOMAIN h = DOMAIN f \cup DOMAIN g
         /\ \A x \in DOMAIN h: h[x] = IF x \in DOMAIN f THEN f[x] ELSE g[x]
BY DEF Over, Mapping

LEMMA SpreadFromKeeps ==
  ASSUME Whole, NEW open, Lists(open, Unfinished), NEW seeds, NEW s, NEW Q, Spreading(s, open, seeds, Q),
         s.queue # <<>>
  PROVE  LET t == SpreadFrom(open, s)
             next == {j \in Unfinished: Head(s.queue) \in Waits(j)} \ DOMAIN s.invalid
         IN  /\ Spreading(t, open, seeds, (Q \ {Head(s.queue)}) \cup next)
             /\ DOMAIN t.invalid = DOMAIN s.invalid \cup next /\ Head(s.queue) \in Q
<1> DEFINE i == Head(s.queue)
           next == {j \in Unfinished: i \in Waits(j)} \ DOMAIN s.invalid
           placement(j) == IF s.invalid[i] = Unknown THEN Unknown
                           ELSE Blocked(<<j>> \o s.invalid[i].path)
           new == [j \in next |-> placement(j)]
           t == SpreadFrom(open, s)
           R == (Q \ {i}) \cup next
<1>1. i \in Q /\ Lists(Tail(s.queue), Q \ {i})
  BY FirstListed DEF Spreading
<1>2. ToSet(open) = Unfinished
  BY DEF ToSet, Lists
<1>3. t = [invalid |-> Over(new, s.invalid), queue |-> Tail(s.queue) \o ByPriority(next, open)]
  BY <1>2 DEF SpreadFrom
<1>4. IsFiniteSet(Unfinished) /\ Unfinished \subseteq Items
  <2>1. Unfinished \subseteq Items
    BY WhatItWaitsFor
  <2> QED BY <2>1, ItemsAssumption, FS_Subset
<1>5. Lists(t.queue, R)
  <2>1. Lists(ByPriority(next, open), next)
    BY <1>4, ByPriorityLists
  <2>2. (Q \ {i}) \cap next = {}
    BY DEF Spreading
  <2> HIDE DEF next
  <2> QED BY <1>1, <1>3, <2>1, <2>2, BothListed
<1>6. ASSUME NEW j \in next
      PROVE  \E path: Path(j, path) /\ new[j] = Blocked(path)
  <2>1. i \in DOMAIN s.invalid /\ i \in Waits(j) /\ j \in Items
    BY <1>1, <1>4 DEF Spreading
  <2>2. PICK path: Path(i, path) /\ s.invalid[i] = Blocked(path)
    BY <2>1 DEF Spreading, Broken
  <2>3. s.invalid[i] # Unknown /\ s.invalid[i].path = path
    BY <2>2 DEF Blocked, Unknown
  <2>4. new[j] = Blocked(<<j>> \o path)
    BY <2>3
  <2> QED BY <2>1, <2>2, <2>4, LongerPath
<1> HIDE DEF new, i
<1>7. /\ DOMAIN t.invalid = DOMAIN s.invalid \cup next
      /\ \A j \in DOMAIN t.invalid: t.invalid[j] = IF j \in next THEN new[j] ELSE s.invalid[j]
  <2>1. DOMAIN new = next /\ t.invalid = Over(new, s.invalid)
    BY <1>3 DEF new
  <2> HIDE DEF t, next
  <2>2. /\ DOMAIN t.invalid = DOMAIN new \cup DOMAIN s.invalid
        /\ \A j \in DOMAIN t.invalid: t.invalid[j] = IF j \in DOMAIN new THEN new[j] ELSE s.invalid[j]
    BY <2>1 DEF Over
  <2> QED BY <2>1, <2>2
<1>8. Broken(t.invalid)
  <2> HIDE DEF t, next
  <2> QED BY <1>6, <1>7 DEF Broken, Spreading
<1>9. ASSUME NEW k \in DOMAIN t.invalid \ R, NEW j \in Unfinished, k \in Waits(j)
      PROVE  j \in DOMAIN t.invalid
  <2>1. k \in DOMAIN s.invalid /\ (k \notin Q \/ k = i)
    BY <1>7, <1>9
  <2>2. CASE k = i
    BY <1>7, <1>9, <2>2
  <2>3. CASE k \notin Q
    BY <1>7, <1>9, <2>1, <2>3 DEF Spreading
  <2> QED BY <2>1, <2>2, <2>3
<1>10. R \subseteq DOMAIN t.invalid /\ DOMAIN t.invalid \subseteq Unfinished /\ seeds \subseteq DOMAIN t.invalid
  BY <1>7 DEF Spreading
<1>11. Spreading(t, open, seeds, R)
  <2> HIDE DEF t, R
  <2> QED BY <1>5, <1>8, <1>9, <1>10 DEF Spreading
<1> QED BY <1>1, <1>7, <1>11 DEF i

LEMMA ListedSet ==
  ASSUME NEW q, NEW S, Lists(q, S)
  PROVE  ToSet(q) = S
BY DEF Lists, ToSet

LEMMA SpreadCloses ==
  ASSUME Whole, NEW open, Lists(open, Unfinished), NEW invalid, Broken(invalid),
         NEW D \in SUBSET Unfinished, Mapping(invalid), DOMAIN invalid = D, NEW queue, Lists(queue, D)
  PROVE  LET all == Spread(open, invalid, queue)
         IN  /\ D \subseteq DOMAIN all /\ DOMAIN all \subseteq Unfinished /\ Broken(all)
             /\ \A j \in Unfinished: Waits(j) \cap DOMAIN all # {} => j \in DOMAIN all
<1> DEFINE first == [invalid |-> invalid, queue |-> queue]
           F(f) == [n \in Nat |-> IF n = 0 THEN first ELSE SpreadFrom(open, f[n - 1])]
           after == CHOOSE f: f = F(f)
           Fine(s) == Spreading(s, open, D, ToSet(s.queue))
           Placements == UNION {[E -> {Blocked(path): path \in Seq(Items)}]: E \in SUBSET Items}
           S == {s \in [invalid: Placements, queue: Seq(Items)]: Fine(s)}
           step == [s \in S |-> SpreadFrom(open, s)]
           Settled(s) == DOMAIN s.invalid \ ToSet(s.queue)
           size == [s \in S |-> Cardinality(Settled(s))]
           final == {s \in S: s.queue = <<>>}
<1>1. IsFiniteSet(Items) /\ Unfinished \subseteq Items
  BY WhatItWaitsFor, ItemsAssumption
<1>2. ASSUME NEW f, NEW q, Mapping(f), Fine([invalid |-> f, queue |-> q])
      PROVE  [invalid |-> f, queue |-> q] \in S
  <2> DEFINE s == [invalid |-> f, queue |-> q]
  <2>1. DOMAIN f \subseteq Items /\ q \in Seq(Items)
    <3>1. DOMAIN f \subseteq Unfinished /\ Lists(q, ToSet(q)) /\ ToSet(q) \subseteq DOMAIN f
      BY <1>2 DEF Spreading
    <3> QED BY <1>1, <3>1 DEF Lists
  <2>2. \A i \in DOMAIN f: f[i] \in {Blocked(path): path \in Seq(Items)}
    BY <1>2 DEF Spreading, Broken, Path
  <2>3. f \in Placements
    BY <1>2, <2>1, <2>2 DEF Mapping
  <2> HIDE DEF Fine, Placements
  <2> QED BY <1>2, <2>1, <2>3
<1>3. first \in S
  <2>1. ToSet(queue) = D /\ DOMAIN invalid = D
    BY ListedSet
  <2>2. Fine(first)
    BY <2>1 DEF Spreading
  <2> HIDE DEF S, Fine
  <2> QED BY <1>2, <2>1, <2>2
<1>4. ASSUME NEW s \in S
      PROVE  /\ SpreadFrom(open, s) \in S
             /\ s \in final => SpreadFrom(open, s) \in final
             /\ s \notin final => Cardinality(Settled(SpreadFrom(open, s))) > Cardinality(Settled(s))
             /\ Cardinality(Settled(s)) \in Nat /\ Cardinality(Settled(s)) <= Rounds
  <2> DEFINE t == SpreadFrom(open, s)
             i == Head(s.queue)
             next == {j \in Unfinished: i \in Waits(j)} \ DOMAIN s.invalid
             Q == ToSet(s.queue)
  <2>1. Spreading(s, open, D, Q) /\ DOMAIN s.invalid \subseteq Items /\ Q \subseteq DOMAIN s.invalid
    BY <1>1 DEF Spreading
  <2>2. IsFiniteSet(Settled(s)) /\ Cardinality(Settled(s)) \in Nat /\ Cardinality(Settled(s)) <= Rounds
    <3>1. Settled(s) \in SUBSET Items
      BY <2>1
    <3> HIDE DEF Settled
    <3> QED BY <1>1, <3>1, FS_Subset, FS_CardinalityType DEF Rounds
  <2>3. CASE s.queue = <<>>
    <3>1. t = s
      BY <2>3 DEF SpreadFrom
    <3> HIDE DEF t, S, Settled
    <3> QED BY <2>2, <2>3, <3>1 DEF t
  <2>4. CASE s.queue # <<>>
    <3>1. /\ Spreading(t, open, D, (Q \ {i}) \cup next)
          /\ DOMAIN t.invalid = DOMAIN s.invalid \cup next /\ i \in Q
      <4> HIDE DEF Q
      <4> QED BY <2>1, <2>4, SpreadFromKeeps
    <3>2. ToSet(t.queue) = (Q \ {i}) \cup next
      BY <3>1, ListedSet DEF Spreading
    <3>3. \E f, q: t = [invalid |-> f, queue |-> q] /\ Mapping(f)
      <4> DEFINE new == {j \in ToSet(open): i \in Waits(j)} \ DOMAIN s.invalid
                 placement(j) == IF s.invalid[i] = Unknown THEN Unknown
                                 ELSE Blocked(<<j>> \o s.invalid[i].path)
                 f == Over([j \in new |-> placement(j)], s.invalid)
      <4>1. t = [invalid |-> f, queue |-> Tail(s.queue) \o ByPriority(new, open)]
        BY <2>4 DEF SpreadFrom
      <4>2. Mapping(f)
        <5> DEFINE g == [j \in new |-> placement(j)]
        <5>1. f = Over(g, s.invalid)
          OBVIOUS
        <5> HIDE DEF f, g
        <5> QED BY <5>1, Overridden
      <4> HIDE DEF f, new
      <4> QED BY <4>1, <4>2
    <3> HIDE DEF t, next, i, Q
    <3>4. t \in S
      <4>1. PICK f, q: t = [invalid |-> f, queue |-> q] /\ Mapping(f)
        BY <3>3
      <4>2. Fine([invalid |-> f, queue |-> q])
        BY <3>1, <3>2, <4>1
      <4> HIDE DEF S, Fine
      <4> QED BY <1>2, <4>1, <4>2
    <3>5. Settled(t) = Settled(s) \cup {i} /\ i \notin Settled(s)
      BY <2>1, <3>1, <3>2 DEF next, Q
    <3>6. Cardinality(Settled(t)) = Cardinality(Settled(s)) + 1
      <4> HIDE DEF Settled
      <4> QED BY <2>2, <3>5, FS_AddElement
    <3>7. s \notin final
      BY <2>4
    <3> HIDE DEF S, Settled, final
    <3> QED BY <2>2, <3>4, <3>6, <3>7 DEF t
  <2> QED BY <2>3, <2>4
<1>5. step \in [S -> S]
  <2> HIDE DEF S
  <2> QED BY <1>4
<1>6. after = F(after)
  <2>1. PICK f \in [Nat -> S]: f = [n \in Nat |-> IF n = 0 THEN first ELSE step[f[n - 1]]]
    <3> HIDE DEF S, first, step
    <3> QED BY <1>3, <1>5, RoundsExist
  <2>2. \A n \in Nat: n # 0 => step[f[n - 1]] = SpreadFrom(open, f[n - 1])
    <3>1. \A n \in Nat: n # 0 => n - 1 \in Nat
      OBVIOUS
    <3> HIDE DEF first, S
    <3> QED BY <2>1, <3>1
  <2>3. f = F(f)
    <3> HIDE DEF first, S, step
    <3> QED BY <2>1, <2>2
  <2> HIDE DEF F
  <2> QED BY <2>3
<1>7. Spread(open, invalid, queue) = after[Rounds].invalid
  BY DEF Spread
<1> HIDE DEF after
<1>8. after[0] = first /\ \A n \in Nat: after[n + 1] = SpreadFrom(open, after[n])
  <2>1. 0 \in Nat /\ \A n \in Nat: n + 1 \in Nat /\ n + 1 # 0 /\ n + 1 - 1 = n
    OBVIOUS
  <2> HIDE DEF first
  <2> QED BY <1>6, <2>1
<1>9. after[Rounds] \in final
  <2>1. Rounds \in Nat
    BY <1>1, FS_CardinalityType DEF Rounds
  <2>2. \A s \in S: size[s] \in Nat /\ size[s] <= Rounds
    <3> HIDE DEF S, Settled
    <3> QED BY <1>4
  <2>3. ASSUME NEW n \in Nat, after[n] \in S
        PROVE  /\ after[n + 1] \in S
               /\ after[n] \in final => after[n + 1] \in final
               /\ after[n] \notin final => size[after[n + 1]] > size[after[n]]
    <3> HIDE DEF S, Settled, final
    <3> QED BY <1>4, <1>8, <2>3
  <2> HIDE DEF S, size, final, first
  <2>4. Progress(after, S, final, size, Rounds)
    BY <1>3, <1>8, <2>1, <2>2, <2>3 DEF Progress
  <2> QED BY <2>4, LoopEnds
<1>10. after[Rounds].queue = <<>> /\ Spreading(after[Rounds], open, D, ToSet(after[Rounds].queue))
  BY <1>9
<1>11. ToSet(<<>>) = {}
  BY DEF ToSet
<1> HIDE DEF S, final
<1> QED BY <1>7, <1>10, <1>11 DEF Spreading

-----------------------------------------------------------------------------
\* A finite set of numbers that is not empty has a greatest: one with the fewest above it.
LEMMA Greatest ==
  ASSUME NEW S \in SUBSET Nat, IsFiniteSet(S), S # {}
  PROVE  Max(S) \in S /\ \A k \in S: k <= Max(S)
<1> DEFINE above(k) == {j \in S: j > k}
           Aboves == {above(k): k \in S}
<1>1. IsWellFoundedOn(StrictSubsetOrdering(S), SUBSET S)
  BY FS_StrictSubsetOrderingWellFounded, FS_FiniteSubsetsOfFinite
<1>2. Aboves \subseteq SUBSET S /\ Aboves # {}
  OBVIOUS
<1>3. PICK A \in Aboves: \A B \in Aboves: ~ (<<B, A>> \in StrictSubsetOrdering(S))
  <2> HIDE DEF Aboves
  <2> QED BY <1>1, <1>2, WFMin
<1>4. PICK k \in S: A = above(k)
  OBVIOUS
<1>5. ASSUME NEW j \in S, j > k
      PROVE  FALSE
  <2>1. above(j) \subseteq above(k) /\ above(j) # above(k)
    <3>1. \A x \in S: x \in Nat
      OBVIOUS
    <3>2. j \in above(k) /\ j \notin above(j) /\ \A x \in above(j): x > k
      BY <1>5, <3>1
    <3> QED BY <3>2
  <2>2. <<above(j), A>> \in StrictSubsetOrdering(S)
    BY <1>4, <2>1 DEF StrictSubsetOrdering
  <2> QED BY <1>3, <1>5, <2>2
<1>6. ASSUME NEW j \in S
      PROVE  k >= j
  <2>1. CASE j > k
    BY <1>5, <2>1
  <2>2. CASE ~ j > k
    <3>1. j \in Nat /\ k \in Nat
      OBVIOUS
    <3> QED BY <2>2, <3>1
  <2> QED BY <2>1, <2>2
<1>7. Max(S) \in S /\ \A j \in S: Max(S) >= j
  BY <1>4, <1>6 DEF Max
<1> QED BY <1>7

\* The waves of the items W, and the wave before the first.
Levels(placed, W) == {0} \cup {placed[p].number: p \in W}

LEMMA GreatestLevel ==
  ASSUME NEW W, IsFiniteSet(W), NEW placed, \A p \in W: placed[p].number \in Nat
  PROVE  /\ Max(Levels(placed, W)) \in Levels(placed, W) /\ Max(Levels(placed, W)) \in Nat
         /\ \A n \in Levels(placed, W): n <= Max(Levels(placed, W))
<1> DEFINE numbers == {placed[p].number: p \in W}
           f == [p \in W |-> placed[p].number]
<1>1. f \in Surjection(W, numbers)
  BY DEF Surjection
<1>2. IsFiniteSet(numbers)
  <2> HIDE DEF f, numbers
  <2> QED BY <1>1, FS_Surjection
<1>3. numbers \subseteq Nat
  OBVIOUS
<1>4. Levels(placed, W) = numbers \cup {0}
  BY DEF Levels
<1> HIDE DEF numbers
<1>5. IsFiniteSet(numbers \cup {0}) /\ numbers \cup {0} \in SUBSET Nat /\ numbers \cup {0} # {}
  BY <1>2, <1>3, FS_AddElement
<1> QED BY <1>4, <1>5, Greatest

\* Who is placed waits for placed items only, and stands right behind the last of them.
Leveled(placed) ==
  \A i \in DOMAIN placed:
    /\ Waits(i) \subseteq DOMAIN placed
    /\ placed[i] = Wave(placed[i].number) /\ placed[i].number \in Nat \ {0}
    /\ placed[i].number = 1 + Max(Levels(placed, Waits(i)))

\* Those of R who are ready: they are not placed, and all that they wait for is.
Ready(R, P) == {i \in R \ P: Waits(i) \subseteq P}

\* Topological order: the degrees count what is not placed, and who is ready is listed.
Placing(s, R) ==
  /\ DOMAIN s.placed \subseteq R /\ Mapping(s.placed) /\ Leveled(s.placed)
  /\ DOMAIN s.indegree = R /\ Mapping(s.indegree)
  /\ \A j \in R: s.indegree[j] = Cardinality(Waits(j) \ DOMAIN s.placed)
  /\ Lists(s.ready, Ready(R, DOMAIN s.placed))

\* The items that remain: what they wait for remains too.
Remains(R) == R \subseteq Unfinished /\ \A i \in R: Waits(i) \subseteq R

LEMMA RemainingFinite ==
  ASSUME Whole, NEW R, Remains(R)
  PROVE  R \subseteq Items /\ IsFiniteSet(R) /\ \A i \in R: IsFiniteSet(Waits(i))
<1>1. R \subseteq Items
  BY WhatItWaitsFor DEF Remains
<1>2. IsFiniteSet(R)
  BY <1>1, ItemsAssumption, FS_Subset
<1> QED BY <1>1, <1>2, FS_Subset DEF Remains

\* Placing the first of the ready items releases those who waited for it alone.
LEMMA PlaceFirstKeeps ==
  ASSUME Whole, NEW open, Lists(open, Unfinished), NEW R, Remains(R), NEW s, Placing(s, R),
         s.ready # <<>>
  PROVE  LET t == PlaceFirst(open, s)
         IN  /\ Placing(t, R) /\ DOMAIN t.placed = DOMAIN s.placed \cup {Head(s.ready)}
             /\ Head(s.ready) \in R \ DOMAIN s.placed
<1> DEFINE i == Head(s.ready)
           P == DOMAIN s.placed
           levels == {s.placed[p].number: p \in Waits(i) \cap DOMAIN s.placed}
           number == 1 + Max({0} \cup levels)
           wave == [j \in {i} |-> Wave(number)]
           released == {j \in DOMAIN s.indegree: i \in Waits(j) /\ s.indegree[j] = 1}
           degrees == [j \in DOMAIN s.indegree |->
                         s.indegree[j] - (IF i \in Waits(j) THEN 1 ELSE 0)]
           t == PlaceFirst(open, s)
<1>1. i \in Ready(R, P) /\ Lists(Tail(s.ready), Ready(R, P) \ {i})
  BY FirstListed DEF Placing
<1>2. i \in R /\ i \notin P /\ Waits(i) \subseteq P /\ i \notin Waits(i)
  BY <1>1 DEF Ready
<1>3. t = [placed |-> Over(wave, s.placed), indegree |-> degrees,
           ready |-> Tail(s.ready) \o ByPriority(released, open)]
  BY DEF PlaceFirst
<1>4. R \subseteq Unfinished /\ IsFiniteSet(Unfinished) /\ \A j \in R: IsFiniteSet(Waits(j))
  <2>1. Unfinished \subseteq Items
    BY WhatItWaitsFor
  <2> QED BY <2>1, ItemsAssumption, FS_Subset, RemainingFinite DEF Remains
<1>5. number = 1 + Max(Levels(s.placed, Waits(i))) /\ number \in Nat \ {0}
  <2>1. levels = {s.placed[p].number: p \in Waits(i)}
    BY <1>2
  <2>2. \A p \in Waits(i): s.placed[p].number \in Nat
    BY <1>2 DEF Placing, Leveled
  <2>3. Max(Levels(s.placed, Waits(i))) \in Nat
    BY <1>2, <1>4, <2>2, GreatestLevel
  <2>4. {0} \cup levels = Levels(s.placed, Waits(i))
    BY <2>1 DEF Levels
  <2>5. number = 1 + Max(Levels(s.placed, Waits(i)))
    BY <2>4, Zenon
  <2> HIDE DEF number
  <2> QED BY <2>3, <2>5
<1> HIDE DEF number
<1>6. DOMAIN t.placed = P \cup {i} /\ Mapping(t.placed)
  <2> HIDE DEF wave
  <2>1. DOMAIN wave = {i} /\ t.placed = Over(wave, s.placed)
    BY <1>3 DEF wave
  <2> HIDE DEF t, i
  <2>2. DOMAIN t.placed = P \cup {i}
    BY <2>1 DEF Over
  <2>3. Mapping(t.placed)
    BY <2>1, Overridden
  <2> QED BY <2>2, <2>3
<1>7. t.placed[i] = Wave(number) /\ \A j \in P: t.placed[j] = s.placed[j]
  BY <1>2, <1>3 DEF Over
<1> HIDE DEF wave
<1>8. \A j \in P \cup {i}: Waits(j) \subseteq P
  BY <1>2 DEF Placing, Leveled
<1>9. Leveled(t.placed)
  <2> SUFFICES ASSUME NEW j \in P \cup {i}
               PROVE  /\ Waits(j) \subseteq P \cup {i}
                      /\ t.placed[j] = Wave(t.placed[j].number) /\ t.placed[j].number \in Nat \ {0}
                      /\ t.placed[j].number = 1 + Max(Levels(t.placed, Waits(j)))
    BY <1>6 DEF Leveled
  <2>1. Levels(t.placed, Waits(j)) = Levels(s.placed, Waits(j))
    <3> HIDE DEF t, P
    <3> QED BY <1>7, <1>8 DEF Levels
  <2>2. CASE j = i
    <3> HIDE DEF t
    <3>1. t.placed[j].number = number
      BY <1>7, <2>2 DEF Wave
    <3> QED BY <1>5, <1>7, <1>8, <2>1, <2>2, <3>1
  <2>3. CASE j \in P
    <3>1. /\ s.placed[j] = Wave(s.placed[j].number) /\ s.placed[j].number \in Nat \ {0}
          /\ s.placed[j].number = 1 + Max(Levels(s.placed, Waits(j)))
      BY <2>3 DEF Placing, Leveled
    <3> HIDE DEF t
    <3> QED BY <1>7, <1>8, <2>1, <2>3, <3>1
  <2> QED BY <2>2, <2>3
<1>10. DOMAIN t.indegree = R /\ Mapping(t.indegree)
  BY <1>3 DEF Placing, Mapping
<1>11. ASSUME NEW j \in R
       PROVE  /\ t.indegree[j] = Cardinality(Waits(j) \ (P \cup {i}))
              /\ i \in Waits(j) /\ s.indegree[j] = 1 <=> i \in Waits(j) /\ Waits(j) \subseteq P \cup {i}
  <2> DEFINE left == Waits(j) \ P
  <2>1. /\ s.indegree[j] = Cardinality(left)
        /\ t.indegree[j] = s.indegree[j] - (IF i \in Waits(j) THEN 1 ELSE 0)
    BY <1>3 DEF Placing
  <2>2. IsFiniteSet(left) /\ Cardinality(left) \in Nat
    BY <1>4, FS_Subset, FS_CardinalityType
  <2>3. Waits(j) \ (P \cup {i}) = left \ {i}
    OBVIOUS
  <2>4. i \in left <=> i \in Waits(j)
    BY <1>2
  <2>5. /\ IsFiniteSet(left \ {i})
        /\ Cardinality(left \ {i}) = IF i \in left THEN Cardinality(left) - 1 ELSE Cardinality(left)
    <3> HIDE DEF left, i
    <3> QED BY <2>2, FS_RemoveElement
  <2>6. Cardinality(left \ {i}) = 0 <=> Waits(j) \subseteq P \cup {i}
    <3>1. left \ {i} = {} <=> Waits(j) \subseteq P \cup {i}
      OBVIOUS
    <3> HIDE DEF left, i
    <3> QED BY <2>5, <3>1, FS_EmptySet
  <2>7. t.indegree[j] = Cardinality(Waits(j) \ (P \cup {i}))
    <3> HIDE DEF left, t, i, P
    <3>1. t.indegree[j] = Cardinality(left \ {i})
      BY <2>1, <2>2, <2>4, <2>5
    <3> QED BY <2>3, <3>1
  <2>8. i \in Waits(j) => (s.indegree[j] = 1 <=> Waits(j) \subseteq P \cup {i})
    <3> HIDE DEF left, t, i, P
    <3> QED BY <2>1, <2>2, <2>4, <2>5, <2>6
  <2> HIDE DEF t, i, P
  <2> QED BY <2>7, <2>8
<1>12. Lists(t.ready, Ready(R, P \cup {i}))
  <2>1. released \subseteq Unfinished /\ \A j \in released: j \in R /\ i \in Waits(j) /\ Waits(j) \subseteq P \cup {i}
    BY <1>4, <1>11 DEF Placing
  <2>2. Lists(ByPriority(released, open), released)
    BY <1>4, <2>1, ByPriorityLists
  <2>3. (Ready(R, P) \ {i}) \cap released = {}
    BY <1>2, <2>1 DEF Ready
  <2>4. \A j \in R: i \in Waits(j) /\ Waits(j) \subseteq P \cup {i} => j \in released
    BY <1>11 DEF Placing
  <2> HIDE DEF released
  <2>5. Ready(R, P \cup {i}) = (Ready(R, P) \ {i}) \cup released
    <3> HIDE DEF i, P, t
    <3>1. ASSUME NEW j \in Ready(R, P \cup {i})
          PROVE  j \in (Ready(R, P) \ {i}) \cup released
      BY <2>4, <3>1 DEF Ready
    <3>2. ASSUME NEW j \in Ready(R, P) \ {i}
          PROVE  j \in Ready(R, P \cup {i})
      BY <3>2 DEF Ready
    <3>3. ASSUME NEW j \in released
          PROVE  j \in Ready(R, P \cup {i})
      BY <1>2, <1>8, <2>1, <3>3 DEF Ready
    <3> QED BY <3>1, <3>2, <3>3
  <2>6. t.ready = Tail(s.ready) \o ByPriority(released, open)
    BY <1>3
  <2> HIDE DEF t, i, P
  <2>7. Lists(Tail(s.ready) \o ByPriority(released, open), (Ready(R, P) \ {i}) \cup released)
    BY <1>1, <2>2, <2>3, BothListed
  <2> QED BY <2>5, <2>6, <2>7
<1>13. Placing(t, R)
  <2>1. P \cup {i} \subseteq R
    BY <1>2 DEF Placing
  <2> HIDE DEF t, i, P
  <2> QED BY <1>6, <1>9, <1>10, <1>11, <1>12, <2>1 DEF Placing
<1> QED BY <1>2, <1>6, <1>13

\* Where nothing waits in a circle, the loop ends when all that remains is placed.
LEMMA AllPlaced ==
  ASSUME Whole, NEW R, Remains(R), NEW P, \A i \in R: Waits(i) \subseteq P => i \in P
  PROVE  \A i \in R: i \in P
<1>1. ASSUME NEW x \in R, x \notin P
      PROVE  FALSE
  <2>1. R \ P \in SUBSET Items /\ R \ P # {}
    BY <1>1, RemainingFinite
  <2>2. PICK j \in R \ P: Prerequisites(definition[j].deps) \cap (R \ P) = {}
    BY <2>1 DEF Whole, Acyclic
  <2>3. Waits(j) \subseteq Prerequisites(definition[j].deps) /\ Waits(j) \subseteq R
    BY WhatItWaitsFor DEF Remains
  <2>4. Waits(j) \subseteq P
    BY <2>2, <2>3
  <2> QED BY <2>4
<1> QED BY <1>1

LEMMA PlaceCloses ==
  ASSUME Whole, NEW open, Lists(open, Unfinished), NEW R, Remains(R), NEW indegree, NEW ready,
         DOMAIN indegree = R, Mapping(indegree), \A j \in R: indegree[j] = Cardinality(Waits(j)),
         Lists(ready, {j \in R: indegree[j] = 0})
  PROVE  LET waves == Place(open, indegree, ready)
         IN  DOMAIN waves = R /\ Leveled(waves)
<1> DEFINE first == [placed |-> <<>>, indegree |-> indegree, ready |-> ready]
           F(f) == [n \in Nat |-> IF n = 0 THEN first ELSE PlaceFirst(open, f[n - 1])]
           after == CHOOSE f: f = F(f)
           Waves == UNION {[E -> {Wave(n): n \in Nat}]: E \in SUBSET Items}
           S == {s \in [placed: Waves, indegree: [R -> Nat], ready: Seq(Items)]: Placing(s, R)}
           step == [s \in S |-> PlaceFirst(open, s)]
           size == [s \in S |-> Cardinality(DOMAIN s.placed)]
           final == {s \in S: s.ready = <<>>}
<1>1. IsFiniteSet(Items) /\ R \subseteq Items /\ \A j \in R: IsFiniteSet(Waits(j))
  BY RemainingFinite, ItemsAssumption
<1>2. ASSUME NEW f, NEW d, NEW q, Placing([placed |-> f, indegree |-> d, ready |-> q], R)
      PROVE  [placed |-> f, indegree |-> d, ready |-> q] \in S
  <2> DEFINE s == [placed |-> f, indegree |-> d, ready |-> q]
  <2>1. /\ DOMAIN f \subseteq R /\ Mapping(f) /\ Leveled(f)
        /\ DOMAIN d = R /\ Mapping(d) /\ \A j \in R: d[j] = Cardinality(Waits(j) \ DOMAIN f)
        /\ Lists(q, Ready(R, DOMAIN f))
    BY <1>2 DEF Placing
  <2>2. q \in Seq(Items)
    <3>1. Ready(R, DOMAIN f) \subseteq Items /\ q \in Seq(Ready(R, DOMAIN f))
      BY <1>1, <2>1 DEF Ready, Lists
    <3> QED BY <3>1
  <2>3. f \in Waves
    <3>1. \A j \in DOMAIN f: f[j] \in {Wave(n): n \in Nat}
      BY <2>1 DEF Leveled
    <3>2. DOMAIN f \in SUBSET Items
      BY <1>1, <2>1
    <3> QED BY <2>1, <3>1, <3>2 DEF Mapping
  <2>4. d \in [R -> Nat]
    <3>1. ASSUME NEW j \in R
          PROVE  d[j] \in Nat
      <4>1. IsFiniteSet(Waits(j) \ DOMAIN f)
        BY <1>1, FS_Subset
      <4> QED BY <2>1, <4>1, FS_CardinalityType
    <3> QED BY <2>1, <3>1 DEF Mapping
  <2> HIDE DEF Waves
  <2> QED BY <1>2, <2>2, <2>3, <2>4
<1>3. first \in S
  <2>1. DOMAIN first.placed = {} /\ Mapping(first.placed) /\ Leveled(first.placed)
    BY DEF Mapping, Leveled
  <2>2. \A j \in R: indegree[j] = Cardinality(Waits(j) \ {})
    <3>1. \A j \in R: Waits(j) \ {} = Waits(j)
      OBVIOUS
    <3> QED BY <3>1
  <2>3. Ready(R, {}) = {j \in R: indegree[j] = 0}
    <3>1. \A j \in R: indegree[j] = 0 <=> Waits(j) \subseteq {}
      BY <1>1, FS_EmptySet
    <3> QED BY <3>1 DEF Ready
  <2>4. Placing(first, R)
    BY <2>1, <2>2, <2>3 DEF Placing
  <2> HIDE DEF S
  <2> QED BY <1>2, <2>4
<1>4. ASSUME NEW s \in S
      PROVE  /\ PlaceFirst(open, s) \in S
             /\ s \in final => PlaceFirst(open, s) \in final
             /\ s \notin final =>
                  Cardinality(DOMAIN PlaceFirst(open, s).placed) > Cardinality(DOMAIN s.placed)
             /\ Cardinality(DOMAIN s.placed) \in Nat /\ Cardinality(DOMAIN s.placed) <= Rounds
  <2> DEFINE t == PlaceFirst(open, s)
             i == Head(s.ready)
  <2>1. Placing(s, R)
    OBVIOUS
  <2>2. /\ IsFiniteSet(DOMAIN s.placed) /\ Cardinality(DOMAIN s.placed) \in Nat
        /\ Cardinality(DOMAIN s.placed) <= Rounds
    <3>1. DOMAIN s.placed \in SUBSET Items
      BY <1>1, <2>1 DEF Placing
    <3> HIDE DEF S
    <3> QED BY <1>1, <3>1, FS_Subset, FS_CardinalityType DEF Rounds
  <2>3. CASE s.ready = <<>>
    <3>1. t = s
      BY <2>3 DEF PlaceFirst
    <3> HIDE DEF t, S
    <3> QED BY <2>2, <2>3, <3>1 DEF t
  <2>4. CASE s.ready # <<>>
    <3>1. /\ Placing(t, R) /\ DOMAIN t.placed = DOMAIN s.placed \cup {i}
          /\ i \in R \ DOMAIN s.placed
      BY <2>1, <2>4, PlaceFirstKeeps
    <3>2. \E f, d, q: t = [placed |-> f, indegree |-> d, ready |-> q]
      BY <2>4 DEF PlaceFirst
    <3> HIDE DEF t, i
    <3>3. t \in S
      <4> HIDE DEF S
      <4> QED BY <1>2, <3>1, <3>2
    <3>4. Cardinality(DOMAIN t.placed) = Cardinality(DOMAIN s.placed) + 1
      <4> HIDE DEF S
      <4> QED BY <2>2, <3>1, FS_AddElement
    <3>5. s \notin final
      BY <2>4
    <3> HIDE DEF S, final
    <3> QED BY <2>2, <3>3, <3>4, <3>5 DEF t
  <2> QED BY <2>3, <2>4
<1>5. step \in [S -> S]
  <2> HIDE DEF S
  <2> QED BY <1>4
<1>6. after = F(after)
  <2>1. PICK f \in [Nat -> S]: f = [n \in Nat |-> IF n = 0 THEN first ELSE step[f[n - 1]]]
    <3> HIDE DEF S, first, step
    <3> QED BY <1>3, <1>5, RoundsExist
  <2>2. \A n \in Nat: n # 0 => step[f[n - 1]] = PlaceFirst(open, f[n - 1])
    <3>1. \A n \in Nat: n # 0 => n - 1 \in Nat
      OBVIOUS
    <3> HIDE DEF first, S
    <3> QED BY <2>1, <3>1
  <2>3. f = F(f)
    <3> HIDE DEF first, S, step
    <3> QED BY <2>1, <2>2
  <2> HIDE DEF F
  <2> QED BY <2>3
<1>7. Place(open, indegree, ready) = after[Rounds].placed
  BY DEF Place
<1> HIDE DEF after
<1>8. after[0] = first /\ \A n \in Nat: after[n + 1] = PlaceFirst(open, after[n])
  <2>1. 0 \in Nat /\ \A n \in Nat: n + 1 \in Nat /\ n + 1 # 0 /\ n + 1 - 1 = n
    OBVIOUS
  <2> HIDE DEF first
  <2> QED BY <1>6, <2>1
<1>9. after[Rounds] \in final
  <2>1. Rounds \in Nat
    BY <1>1, FS_CardinalityType DEF Rounds
  <2>2. \A s \in S: size[s] \in Nat /\ size[s] <= Rounds
    <3> HIDE DEF S
    <3> QED BY <1>4
  <2>3. ASSUME NEW n \in Nat, after[n] \in S
        PROVE  /\ after[n + 1] \in S
               /\ after[n] \in final => after[n + 1] \in final
               /\ after[n] \notin final => size[after[n + 1]] > size[after[n]]
    <3> HIDE DEF S, final
    <3> QED BY <1>4, <1>8, <2>3
  <2> HIDE DEF S, size, final, first
  <2>4. Progress(after, S, final, size, Rounds)
    BY <1>3, <1>8, <2>1, <2>2, <2>3 DEF Progress
  <2> QED BY <2>4, LoopEnds
<1>10. after[Rounds].ready = <<>> /\ Placing(after[Rounds], R)
  BY <1>9
<1>11. Ready(R, DOMAIN after[Rounds].placed) = {}
  BY <1>10, NothingListed DEF Placing
<1> HIDE DEF S, final
<1>12. DOMAIN after[Rounds].placed \subseteq R /\ Leveled(after[Rounds].placed)
  BY <1>10 DEF Placing
<1>13. R \subseteq DOMAIN after[Rounds].placed
  <2> DEFINE P == DOMAIN after[Rounds].placed
  <2>1. \A i \in R: Waits(i) \subseteq P => i \in P
    BY <1>11 DEF Ready
  <2> HIDE DEF P
  <2>2. R \subseteq P
    BY <2>1, AllPlaced
  <2> QED BY <2>2 DEF P
<1>14. DOMAIN after[Rounds].placed = R
  BY <1>12, <1>13
<1> QED BY <1>7, <1>12, <1>14

-----------------------------------------------------------------------------
\* The items that no wave holds are those that wait for a dropped one, directly or through
\* others, each with a path to it; the waves hold all the others.
LEMMA LayoutOf ==
  ASSUME Whole, NEW open, Lists(open, Unfinished), NEW shown,
         \A i \in Unfinished: i \in shown /\ Waits(i) \subseteq shown
  PROVE  LET layout == Layout(open, shown)
         IN  \E R: /\ Remains(R)
                   /\ \A i \in R: /\ layout[i].kind = "wave" /\ layout[i].number \in Nat \ {0}
                                  /\ layout[i].number = 1 + Max(Levels(layout, Waits(i)))
                   /\ \A i \in Unfinished \ R: \E path: Path(i, path) /\ layout[i] = Blocked(path)
<1> DEFINE seeds == Invalid(shown)
           D == DOMAIN seeds
           invalid == Spread(open, seeds, ByPriority(DOMAIN seeds, open))
           R == Unfinished \ DOMAIN invalid
           indegree == [i \in R |-> Cardinality(Waits(i) \cap R)]
           ready == ByPriority({i \in R: indegree[i] = 0}, open)
           waves == Place(open, indegree, ready)
           layout == Layout(open, shown)
<1>1. IsFiniteSet(Unfinished)
  <2>1. Unfinished \subseteq Items
    BY WhatItWaitsFor
  <2> QED BY <2>1, ItemsAssumption, FS_Subset
<1>2. /\ D = {i \in Unfinished: \E p \in Waits(i): item[p].state = "dropped"}
      /\ Broken(seeds) /\ Mapping(seeds) /\ D \subseteq Unfinished
  <2>1. Mapping(seeds)
    BY DEF Invalid, Mapping
  <2> HIDE DEF seeds
  <2> QED BY <2>1, SeedsBroken DEF seeds
<1>3. layout = Over(waves, Over(invalid, [i \in R |-> Unknown]))
  <2>1. ToSet(open) = Unfinished
    BY ListedSet
  <2> QED BY <2>1 DEF Layout
<1> HIDE DEF seeds
<1>4. Lists(ByPriority(D, open), D)
  BY <1>1, <1>2, ByPriorityLists
<1>5. /\ D \subseteq DOMAIN invalid /\ DOMAIN invalid \subseteq Unfinished /\ Broken(invalid)
      /\ \A j \in Unfinished: Waits(j) \cap DOMAIN invalid # {} => j \in DOMAIN invalid
  <2> HIDE DEF D
  <2> QED BY <1>2, <1>4, SpreadCloses DEF D
<1> HIDE DEF invalid
<1>6. Remains(R)
  <2> SUFFICES ASSUME NEW i \in R, NEW p \in Waits(i)
               PROVE  p \in R
    BY DEF Remains
  <2>1. p \in Unfinished \/ item[p].state = "dropped"
    BY WhatItWaitsFor
  <2>2. p \notin DOMAIN invalid /\ i \notin D
    BY <1>5
  <2> QED BY <1>2, <2>1, <2>2
<1>7. /\ DOMAIN indegree = R /\ Mapping(indegree)
      /\ \A i \in R: indegree[i] = Cardinality(Waits(i))
  <2>1. \A i \in R: Waits(i) \cap R = Waits(i)
    BY <1>6 DEF Remains
  <2> HIDE DEF R
  <2> QED BY <2>1 DEF Mapping
<1> HIDE DEF indegree
<1>8. Lists(ready, {i \in R: indegree[i] = 0})
  <2>1. {i \in R: indegree[i] = 0} \in SUBSET Unfinished
    OBVIOUS
  <2> HIDE DEF R
  <2> QED BY <1>1, <2>1, ByPriorityLists
<1>9. DOMAIN waves = R /\ Leveled(waves)
  <2> HIDE DEF R, ready
  <2> QED BY <1>6, <1>7, <1>8, PlaceCloses
<1> HIDE DEF waves
<1>10. ASSUME NEW i \in R
       PROVE  /\ layout[i].kind = "wave" /\ layout[i].number \in Nat \ {0}
              /\ layout[i].number = 1 + Max(Levels(layout, Waits(i)))
  <2>1. \A j \in R: layout[j] = waves[j]
    BY <1>3, <1>9 DEF Over
  <2>2. Waits(i) \subseteq R
    BY <1>6 DEF Remains
  <2> HIDE DEF R, layout
  <2>3. Levels(layout, Waits(i)) = Levels(waves, Waits(i))
    BY <2>1, <2>2 DEF Levels
  <2>4. /\ waves[i] = Wave(waves[i].number) /\ waves[i].number \in Nat \ {0}
        /\ waves[i].number = 1 + Max(Levels(waves, Waits(i)))
    BY <1>9 DEF Leveled
  <2>5. layout[i] = waves[i] /\ waves[i].kind = "wave"
    BY <2>1, <2>4 DEF Wave
  <2> QED BY <2>3, <2>4, <2>5
<1>11. ASSUME NEW i \in Unfinished \ R
       PROVE  \E path: Path(i, path) /\ layout[i] = Blocked(path)
  <2>1. layout[i] = invalid[i] /\ i \in DOMAIN invalid
    BY <1>3, <1>9 DEF Over
  <2> HIDE DEF layout
  <2> QED BY <1>5, <2>1 DEF Broken
<1> HIDE DEF R, layout
<1> QED BY <1>6, <1>10, <1>11 DEF layout

LEMMA WholeIsFaithful == Whole => RoadmapIsFaithful
<1> SUFFICES ASSUME Whole, NEW members \in {{}, existing}, NEW open \in SetToSeqs(Unfinished),
                    NEW i \in Unfinished
             PROVE  LET layout == Layout(open, Shown(members))
                        Number(j) == layout[j].number
                    IN  \/ /\ layout[i].kind = "wave"
                           /\ \A p \in Waits(i): layout[p].kind = "wave"
                           /\ Number(i) = 1 + Max({0} \cup {Number(p): p \in Waits(i)})
                           /\ Number(i) = 1 <=> DependenciesSatisfied(i)
                        \/ /\ layout[i].kind = "blocked"
                           /\ layout[i].path[1] = i
                           /\ \A k \in 2 .. Len(layout[i].path):
                                layout[i].path[k] \in Waits(layout[i].path[k - 1])
                           /\ item[Last(layout[i].path)].state = "dropped"
  BY DEF RoadmapIsFaithful
<1> DEFINE layout == Layout(open, Shown(members))
<1>1. IsFiniteSet(Unfinished)
  <2>1. Unfinished \subseteq Items
    BY WhatItWaitsFor
  <2> QED BY <2>1, ItemsAssumption, FS_Subset
<1>2. Lists(open, Unfinished)
  BY <1>1, SetToSeqsLists
<1>3. \A j \in Unfinished: j \in Shown(members) /\ Waits(j) \subseteq Shown(members)
  BY ShownCloses
<1>4. PICK R: /\ Remains(R)
              /\ \A j \in R: /\ layout[j].kind = "wave" /\ layout[j].number \in Nat \ {0}
                             /\ layout[j].number = 1 + Max(Levels(layout, Waits(j)))
              /\ \A j \in Unfinished \ R: \E path: Path(j, path) /\ layout[j] = Blocked(path)
  BY <1>2, <1>3, LayoutOf
<1> HIDE DEF layout
<1>5. CASE i \in R
  <2>1. Waits(i) \subseteq R /\ IsFiniteSet(Waits(i))
    BY <1>4, <1>5, RemainingFinite DEF Remains
  <2>2. \A p \in Waits(i): layout[p].kind = "wave" /\ layout[p].number \in Nat \ {0}
    BY <1>4, <2>1
  <2>3. /\ Max(Levels(layout, Waits(i))) \in Levels(layout, Waits(i))
        /\ Max(Levels(layout, Waits(i))) \in Nat
        /\ \A n \in Levels(layout, Waits(i)): n <= Max(Levels(layout, Waits(i)))
    BY <2>1, <2>2, GreatestLevel
  <2>4. DependenciesSatisfied(i) <=> Waits(i) = {}
    BY WhatItWaitsFor
  <2>5. CASE Waits(i) = {}
    <3>1. Levels(layout, Waits(i)) = {0}
      BY <2>5 DEF Levels
    <3>2. Max(Levels(layout, Waits(i))) = 0
      BY <2>3, <3>1
    <3>3. layout[i].number = 1
      BY <1>4, <1>5, <3>2
    <3> QED BY <1>4, <1>5, <2>2, <2>4, <2>5, <3>3 DEF Levels, layout
  <2>6. CASE Waits(i) # {}
    <3>1. PICK p \in Waits(i): TRUE
      BY <2>6
    <3>2. layout[p].number \in Levels(layout, Waits(i))
      BY DEF Levels
    <3>3. layout[i].number # 1
      BY <1>4, <1>5, <2>2, <2>3, <3>2
    <3> QED BY <1>4, <1>5, <2>2, <2>4, <2>6, <3>3 DEF Levels, layout
  <2> QED BY <2>5, <2>6
<1>6. CASE i \notin R
  <2>1. PICK path: Path(i, path) /\ layout[i] = Blocked(path)
    BY <1>4, <1>6
  <2>2. layout[i].kind = "blocked" /\ layout[i].path = path
    BY <2>1 DEF Blocked
  <2> QED BY <2>1, <2>2 DEF Path, layout
<1> QED BY <1>5, <1>6

\* The roadmap of every ledger that proposals, merges, rejections and consolidations lead to
\* puts each unfinished item into the first wave after all that it waits for, or names a path
\* of waits from it to a dropped item, and its first wave is the work that may be started; no
\* item is left out as missing or as part of a cycle (RoadmapIsFaithful; read_roadmap and
\* project in application/roadmap.py).
THEOREM FaithfulRoadmap == IntakeSpec => []RoadmapIsFaithful
<1> QED BY WholeIsFaithful, AlwaysWhole, PTL
=============================================================================
