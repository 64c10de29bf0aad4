--------------------------- MODULE Consolidation ----------------------------
(***************************************************************************)
(* Several items become one campaign: the campaign takes over what they    *)
(* wait for, the items that waited for them wait for the campaign, and the *)
(* sources end as superseded, all in one confirmed transaction             *)
(* (domain/consolidation.py).  What the human confirmed is computed again  *)
(* under the lock and compared, so the step depends on no older reading.   *)
(***************************************************************************)
EXTENDS Proposals

CONSTANT MaxWaits   \* bound: the waits that a campaign is given beside the carried ones

ASSUME MaxWaitsAssumption == MaxWaits \in Nat

RequestedWaits == {waits \in SUBSET Dependency: Cardinality(waits) <= MaxWaits}

\* The live items beside the cohort that wait for a source.
Outside(c, sources) ==
  {i \in existing \ (sources \cup {c}):
     item[i].state \in LiveStates /\ Prerequisites(definition[i].deps) \cap sources # {}}

\* Two different waits on one producer become one on the whole item.
Merged(waits) ==
  LET Only(d) == \A e \in waits: e.item = d.item => e = d IN
  {[item |-> d.item, checkpoint |-> IF Only(d) THEN d.checkpoint ELSE WholeItem]: d \in waits}

\* Mutant: the sources' own waits end with them.
CampaignWaitsOwn(c, sources, waits) ==
  Merged({d \in waits \cup definition[c].deps: d.item \notin sources \cup {c}})

\* The requested waits, the sources' and, of a live campaign, its own.
CampaignWaits(c, sources, waits) ==
  LET carried == UNION {definition[i].deps: i \in sources \cup {c}} IN
  Merged({d \in waits \cup carried: d.item \notin sources \cup {c}})

\* Every wait on the cohort becomes one wait on the campaign, or on its mapped checkpoint.
Retargeted(deps, c, sources, checkpoint) ==
  Merged({IF d.item \in sources \cup {c} THEN [item |-> c, checkpoint |-> checkpoint] ELSE d:
            d \in deps})

\* The dependencies of all items after the consolidation.
RetargetedGraph(c, sources, waits, mapped) ==
  [i \in Items |->
     CASE i = c -> CampaignWaits(c, sources, waits)
       [] i \in DOMAIN mapped -> Retargeted(definition[i].deps, c, sources, mapped[i])
       [] OTHER -> definition[i].deps]

\* Mutant: only the campaign's own waits are searched for a cycle that leads to itself.
FreeOfCyclesAtOnce(changed, deps) ==
  \A i \in changed: i \notin Prerequisites(deps[i])

\* No item whose waits change is met again by following the new graph from them.
FreeOfCycles(changed, deps) ==
  \A i \in changed: \E S \in SUBSET (Items \ {i}):
    Prerequisites(deps[i]) \subseteq S /\ Closed(S, deps)

\* What every consolidation asks of its sources, its campaign and its consumers.
MayConsolidate(c, sources, t) ==
  /\ sources # {} /\ sources \subseteq existing \ {c}
  /\ c \in existing => item[c].state \in LiveStates
  /\ \A s \in sources: item[s].state \in LiveStates \ {"active", "review"}
  /\ \A i \in sources \cup {c} \cup Outside(c, sources): ~ Live(preparationLease[i], t)

\* The new definitions of the campaign and of its consumers, which close no cycle.
RetargetDefinitions(c, sources) ==
  \E waits \in RequestedWaits, mapped \in [Outside(c, sources) -> Checkpoints \cup {WholeItem}]:
    LET deps == RetargetedGraph(c, sources, waits, mapped)
        changed == {c} \cup DOMAIN mapped IN
    /\ c \notin Prerequisites(waits)
    /\ \A d \in waits: d.item \notin sources => Authored(d)
    /\ FreeOfCycles(changed, deps)
    /\ definition' = [i \in Items |->
         [rev |-> definition[i].rev + (IF i \in changed \cap existing THEN 1 ELSE 0),
          deps |-> deps[i]]]

\* The sources end with their parked attempts; campaign and consumers are revised.
Consolidate(c, sources, t) ==
  LET parked == {s \in sources: HasAttempt(s)} IN
  /\ "consolidate" \in Kinds
  /\ Commit(t)
  /\ MayConsolidate(c, sources, t)
  /\ RetargetDefinitions(c, sources)
  /\ existing' = existing \cup {c}
  /\ item' = [i \in Items |->
       CASE i \in sources -> [state |-> "superseded", rev |-> NextRevision]
         [] i \in {c} \cup Outside(c, sources) -> [item[i] EXCEPT !.rev = NextRevision]
         [] OTHER -> item[i]]
  /\ replacement' = [s \in Items |-> IF s \notin sources THEN replacement[s] ELSE
       [rev |-> replacement[s].rev + 1, by |-> c, status |-> "current", retained |-> FALSE]]
  /\ attempt' = [s \in Items |-> IF s \notin parked THEN attempt[s] ELSE
       [attempt[s] EXCEPT !.state = "done", !.rev = NextRevision]]
  /\ attemptLease' = [s \in Items |->
       IF s \in parked /\ Recorded(attemptLease[s])
       THEN Ended(attemptLease[s], "revoked", t) ELSE attemptLease[s]]
  /\ UNCHANGED <<preparationLease, accepted>>

IntakeNext ==
  \/ BoardNext
  \/ \E t \in 0 .. clock:
       \/ ProposalsNext(t)
       \/ \E c \in Items, sources \in SUBSET existing: Consolidate(c, sources, t)

IntakeSpec == IntakeInit /\ [][IntakeNext]_intakeVars

-----------------------------------------------------------------------------
\* The live items that i waits for, also through other live items.
Awaited(i) ==
  LET waiting == {j \in Items: item[j].state \in LiveStates}
      Direct(j) == Prerequisites(definition[j].deps) \cap waiting
  IN  {x \in waiting: \A S \in SUBSET waiting:
         Direct(i) \subseteq S /\ (\A j \in S: Direct(j) \subseteq S) => x \in S}

\* The items that this step ends in favour of the campaign it names.
Consolidated ==
  {s \in existing: item[s].state \in LiveStates /\ item'[s].state = "superseded"
                   /\ replacement'[s] # replacement[s]}

\* A consolidation loses no order of the work: whoever waited, directly or through others,
\* for a live item still waits for it, or for the campaign when that item is one of the
\* sources, and the campaign waits for all that its sources waited for
\* (_carry_definition, _retarget_definitions).
WaitsAreKept ==
  [][LET Heir(i) == IF i \in Consolidated THEN replacement'[i].by ELSE i IN
     Consolidated # {} =>
       \A i \in existing: item[i].state \in LiveStates =>
         \A h \in {Heir(i)}: {Heir(x): x \in Awaited(i)} \ {h} \subseteq Awaited(h)']_intakeVars
=============================================================================
