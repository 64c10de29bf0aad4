# Pinboard in TLA+

Pinboard keeps a board of work items for coding agents in one SQLite ledger. Agents
that may crash, wait, or be replaced read the ledger, choose one of the actions it
offers, and come back later to commit it. Around the ledger are files: the database
itself, immutable artifacts that the ledger refers to, and a generated board. This
directory models the ledger, what delayed requests can do to it, and what errors,
deaths and power losses can do to the files; it checks them on small instances, and
proves the central results for any number of items, agents, checkpoints and calls.

## 1. The system

Paths are relative to `src/src/pinboard/`.

| Component | State | Operations | Interaction | What makes it correct |
|---|---|---|---|---|
| Leases (`domain/authority_decisions.py`, `adapters/sqlite/authority.py`) | one row per attempt and one per item, with a generation counter | acquire, transfer, renew, release, revoke, fence, consume | consumed by activation, fenced by reviews, rebinds, closures and cancellation | one holder at a time; an ended token never acts again; a live claim is on the current definition |
| Action discovery (`domain/decisions.py`, `application/service.py`) | none | offer, select, check again under the lock | reads everything, precedes every transition | a stale selection never commits |
| Attempt lifecycle (`domain/decisions.py`, `adapters/sqlite/lifecycle.py`) | attempt state, accepted scope, protected candidate, open decisions | activate, pause, block, resume, rebind, submit, return, accept, complete | moves the item with the attempt, fences the worker | item and attempt agree; review concerns one candidate at one definition |
| Item decisions (`domain/decisions.py`, `domain/definition_decisions.py`) | item state, definition revisions and dependencies, planned replacements | block, defer, reopen, close, revise, record replacement, retain | dependencies and replacements gate the lifecycle of other items | no cycles, no start on unsatisfied prerequisites |
| Cancellation (`application/cancellation.py`, `adapters/sqlite/cancellation.py`) | none between preview and confirmation but what the human saw | preview, confirm | ends the item, its attempt and both authorities | what was confirmed is what is dropped, nobody stays in charge |
| Proposals (`domain/proposal_decisions.py`, `adapters/sqlite/proposals.py`) | one proposal per item, with its relation | create, merge, reject | create items with waits, or revise an item that has some | no cycle, no definition changed under a live claim |
| Consolidation (`domain/consolidation.py`, `adapters/sqlite/consolidation.py`) | none | preview, confirm | ends sources and their attempts, revises a campaign and every consumer | no cycle, no order of the work lost |
| PR reviews (`application/pr_reviews.py`, `adapters/sqlite/pr_review.py`) | evidence rows in the transition history | start, review the brief, observe a head, record a round, close | moves a ready item to review and to its end, without attempt | the history passes the reader's own validation; no finding is lost |
| Live queue (`domain/ordering.py`, `adapters/sqlite/lifecycle.py`) | queue positions of live items | space, insert, compact, reorder | every creation and every end | positions stay unique and contiguous; no lost reorder |
| Transactions (`adapters/sqlite/persistence.py`) | project revision and time of the last commit, history, state counts | one `BEGIN IMMEDIATE` transaction per mutation | everything above | a rejected request changes nothing |
| Database files (`adapters/sqlite/database.py`, `cli/work_state.py`) | database, staging file, directory entries | initialize, publish, reconcile, withdraw, migrate | precedes everything | a crash at any point leaves no or one complete database |
| MCP executor (`mcp/execution.py`, `mcp/server.py`) | semaphore, work queue, futures, cancellation tokens | submit, take, cancel, return, deliver, shut down | runs every request below | slots are exact; a cancelled call did nothing or says what it did |
| Artifacts (`application/artifact_publication.py`, `adapters/files/`) | immutable files and the references the ledger accepted | stage, link, sync, accept | briefs, prompts, proofs and reviews of a dispatch | every accepted reference has its file |
| Dispatch (`adapters/dispatch_operations.py`, `mcp/job_operations.py`) | what a call has published so far | look up, publish, recheck, answer | several publications, authority checked between them | the answer names what changed |
| Views (`adapters/files/views.py`, `adapters/generated_views.py`) | generated files | refresh after a commit, under the board lock | after every mutation | a failed refresh is repaired by a later one and never repeats the mutation |
| Initiatives (`domain/initiatives.py`, `adapters/sqlite/initiatives.py`) | append-only tables of definitions, contexts, memberships, decisions, judgments | create, revise, add and remove members, decide, assess | group items, gate none of their transitions | the history passes its own validation; a judgment stands beside the goal it was made of |
| Roadmap (`application/roadmap.py`) | none | a wave or a blocked path for each unfinished item | computed of the ledger after every commit | agrees with what the board may start |
| Queries, briefs, CLI, hooks, instructions, evaluations | text and projections around the ledger | | | not modelled, see section 8 |

Hard behaviours: the time between a reading and the transaction it asks for; leases
that expire by a clock read several times in one request; the same facts checked
when an action is selected and again under the lock; revisions, replacements and
cancellations that arrive while an item is prepared, worked on or reviewed; UPDATEs
under a UNIQUE index that SQLite checks row by row; operations on files that an error, a
death or a power loss interrupts; calls that are cancelled while they run.
`PROJECT.json` lists each hazard at its line.

## 2. Modules

| Module | Models | Extends |
|---|---|---|
| `Leases` | lease rows and the decisions about one row | |
| `FencedLease` | what the authority over one subject promises (abstract specification) | |
| `BoardState` | the ledger's tables, the actions offered, readings, the parts transactions share | `Leases` |
| `Preparation` | preparation claims and activation | `BoardState` |
| `AttemptAuthority` | worker leases | `BoardState` |
| `AttemptLifecycle` | everything between activation and completion | `BoardState` |
| `ItemDecisions` | unstarted items, definitions, replacements, closing, cancellation | `BoardState` |
| `Board` | the composition, and its properties | the four above |
| `Proposals` | how items come in, and leave unstarted; the rest of the board on the items that exist | `Board` |
| `Consolidation` | several items become one campaign; the composition of all intake | `Proposals` |
| `PrReview` | reviews of human pull requests beside the rest of the board | `Board` |
| `Initiatives` | goals, memberships and judgments, and the validation of their history | |
| `Roadmap` | the waves and blocked paths of a ledger: a pure algorithm, each loop a function of its rounds | `Consolidation` |
| `LiveOrder` | what the saved priority promises (abstract specification) | |
| `LiveQueue` | queue positions, UPDATE by UPDATE; refines `LiveOrder` | |
| `DatabasePublication` | how the database comes into being on a disk that fails | |
| `Executor` | the bounded executor | |
| `ArtifactFiles` | immutable files and accepted references | |
| `BoardView` | the board file and its lock | |
| `Service` | calls through the executor that publish artifacts and refresh the board | the three above |
| `MCBoard`, `MCIntake`, `MCPrReview`, `MCQueue`, `MCService`, `MCInitiatives` | symmetry, and the requests of `Service`, for TLC | |
| `Board_proofs`, `Lifecycle_proofs` | theorems | `Board` |
| `Intake_proofs`, `PrReview_proofs` | theorems, from those of the board | `Consolidation`, `PrReview` |
| `Initiatives_proofs`, `Publication_proofs`, `Service_proofs`, `Queue_proofs` | theorems | `Initiatives`, `DatabasePublication`, `Service`, `LiveQueue` |

### The ledger: state

`item`, `definition`, `attempt`, `attemptLease`, `preparationLease`, `replacement` and
`accepted` are the tables `work_items`, `work_item_definition_revisions` with
`item_dependencies`, `attempts` with `attempt_decision_batches`, the two lease tables
with their counters, `planned_replacements` with `replacement_dispositions`, and
`checkpoint_acceptances`. `project` is `project_meta`. An item has at most one
attempt, so attempts are indexed by their item. `clock` is the host's clock in steps.
`Proposals` adds `existing`, the items that have rows; `PrReview` adds `evidence`, the
rows of the transition history that its reader validates, and `classified`, whether the
definition records its route facts.

`readings` is not in the code: it is what agents remember. A reading holds the rows
of one item, the actions offered on it, and the time. Every mutation rests on one
reading, made in the same moment or earlier, which stands for the capability, the
token or the cancellation preview that the request carries, and for the operation
time sampled at the request's boundary (`mcp/mutation_operations.py`, `_apply_transition`).

### The ledger: actions

Every mutation runs in one transaction under SQLite's write lock, so each is one
step, and the interleaving is between readings, clock ticks and transactions. An action
`A(r, ...)` checks, in the code's order of layers:

1. `Selected(r, kind)`: the action was offered when it was selected and is offered
   now, under the lock, with authority judged by a fresh clock (`_read_authorize_and_decide`);
2. `ItemUnchanged`, `AttemptUnchanged`, `WorkerAuthority` or `PreparerAuthority`: the
   capability is the exact current one (`validate_supplied_action`);
3. the guards of the decision function;

and then changes the rows as the persistence of that decision does, with
`Commit(t)` for the project row. Lease operations and cancellation are not offered as
actions; they check their token or preview, and their time `t` lies anywhere between the
reading and the lock (`RequestTimes`).

Details that matter and are easily lost:

- A transition's receipt, and with it `updated_at`, has the request's own time, while
  authority is judged by a time read under the lock.
- Lease operations are judged by the request's own time only, so a holder may renew a
  lease that has lapsed in the meantime, as long as nobody else took it.
- A renewed preparation claim is read back inside its transaction, and that reading
  fails when the claim looks live and its item changed. `RenewPreparation` has that
  reading as its last conjunct; without it `LiveClaimIsExact` is false (its mutant).
- Merging and rejecting a proposal are guarded by the revision of the proposal's own row,
  which nothing advances, so they take no reading; `Create` reads everything it needs in its
  own transaction, and a consolidation computes again under the lock what the human
  confirmed and compares it. Their time still precedes the lock.
- PR review writes are guarded by the item's revision alone: no lease, prerequisite or
  replacement is looked at.

### The queue

One step of `LiveQueue` is one statement of a transaction: the list of UPDATEs that a
decision asks for, with the two loops (`compact_queue`, `make_queue_space`) that select
their rows when their turn comes. An UPDATE that finds its row elsewhere or its new
position taken gives the transaction up; a rollback may come at any statement, for
later checks or a death. `seen` is the order an agent read last, which its reorder
request must match. `ORDER BY queue_position` is `ByPosition`: the k-th of some rows is the one with
k - 1 of them below it.

### The files

`DatabasePublication` has a directory of two names. `entry` is what processes see,
`onDisk` the values a power loss may leave each name at, cleared by an fsync of the
directory; `content` and `flushed` say the same of the bytes. Each system call of
`initialize_work_state` is a step, and each may fail with the cleanup that the code has at
that place. A client commits whenever it finds a complete database, as SQLite does with
`synchronous = FULL`.

`Service` composes the executor, the artifacts and the board. A call is a list of
publications: one for a brief, a review and a prompt for a dispatch, a proof and a review for
readiness. `todo` is what remains of it, `step` where its callback is. `did` records what it
changed and `surfaces` what it will report; the two are compared in `AnswersAreTrue`. The rechecks
between publications (authority, sources, correction round) are one Boolean each. `durable` and
`boardOnDisk` play the part of `onDisk`.

### Initiatives and the roadmap

`Initiatives` has one variable for each table and one action for each kind of change. A request names
the subject revision that its author read; an assessment also names the context that was
evaluated, and may take the two from different readings. `meant` is not in the code: it is the goal
that the author of a judgment had read. A reading that is used at once is not counted, as in the ledger.
Of the other transactions of the ledger only `CreateItem` is there, as initiatives look at nothing else.

`Roadmap` is no state machine: `Layout` is `project`, loop by loop, and `Shown` the closure by which `read_roadmap`
selects its items. Each loop is a recursive function of the number of rounds done, taken after `Rounds` rounds
(one for each item), and one operator for what a round does (`NextBatch`, `SpreadFrom`, `PlaceFirst`). Run `intake` computes it of
every state, for every order of the live items by priority, and with no or all items as members.

### Abstractions

A lease identity is its holder and generation; the host epoch and `acquired_at` are
constant or derived. A definition is its revision and dependencies, and every
definition declares every checkpoint. A brief is the definition revision it accepts;
its content, evidence, routes and obligations are assumed valid. A batch of pause
decisions is one Boolean: the code demands an answer or a deferral for each question, so only
"all answered" and "not" remain. The history ids of acceptances are the set of accepted
checkpoints. In `Board` items exist from the start, with any acyclic dependencies; in
`Consolidation` the ledger starts empty. Completion without a candidate is always rejected by
the code and is no action. Actions that change nothing (continue, report a blocker,
review instructions) are left out. The clock never goes back.

In `PrReview` a row's position stands for its history id, a head is a commit with its source, and a
finding is its identity. In `Initiatives` a goal stands for goal and success signal, and the rest of a
definition is its revision. Of two bad prerequisites of one item the code keeps the last, the roadmap
here any one. In `Service` the HTML board and the roadmap files are not told from the
board, staging files have no name of their own, the pool is first-in first-out, and a thread's
return and its done-callback are one step.

`Kinds`, `Horizon`, `MaxRevision`, `MaxReadings`, `MaxWaits` and `MaxFaults` bound the runs and
nothing else: which actions agents choose from, the last clock reading, the number of commits, how
many earlier readings are remembered at once, the waits a consolidation asks for, and the failures.

## 3. Properties

| Property | Says | Run |
|---|---|---|
| `Board!TypeOK` | rows have the shape of their tables, readings are of the past | workers |
| `AttemptMatchesItem` | item and attempt move together | workers |
| `SubjectRevisionCoversFacts` | equal subject revisions mean equal facts: no old request is revived | workers |
| `WorkingMeansNoOpenDecisions` | nobody works or reviews while a human decision is pending | workers |
| `CandidateOnlyUnderReview` | the protected candidate lives exactly as long as its review | workers |
| `DoneAtAcceptedScope` | what was completed was reviewed at the last definition | workers |
| `SatisfactionIsPermanent` | a satisfied dependency stays satisfied | workers |
| `AttemptIsFenced` | worker leases implement `FencedLease` | authority |
| `NewWorkNewGeneration` | no token survives the end of a review or a rebinding of running work | authority |
| `SubmissionsAreCurrent` | a submission is by the worker in charge, at the current definition and with no replacement waiting | authority, replacements |
| `LiveClaimIsExact` | a live claim names a ready item at its current definition | authority, intake |
| `PreparationIsFenced` | preparation leases implement `FencedLease` | authority |
| `StartsOnSatisfiedDependencies` | work starts only with its prerequisites satisfied and no replacement waiting, at the commit | replacements |
| `TerminalHoldsNoAuthority` | nobody is in charge of what ended | replacements |
| `TerminalIsFinal` | what ended never changes (on the board without intake) | replacements |
| `Acyclic` | no group of items waits for itself | intake |
| `WaitsAreKept` | a consolidation loses no order of the work | intake |
| `RoadmapIsFaithful` | every unfinished item has the earliest wave after all it waits for, or a path to a dropped one | intake |
| `InitiativesValidate` | every history of initiatives passes the reader's own validation | initiatives |
| `AssessmentsNameTheirGoal` | a judgment is shown with the goal its author evaluated, in force at its commit | initiatives |
| `HistoryValidates` | everything written about PR reviews passes the reader's own validation | pr_reviews |
| `FindingsAreDisposed` | no finding is lost between its round and the closure | pr_reviews |
| `PresentedIsAcceptable` | the status of a review sends nobody to an action the writer refuses | pr_reviews |
| `EveryUpdateApplies` | no UPDATE of a decided operation misses its row or meets UNIQUE | queue |
| `PositionsDense` | committed positions are 1, 2, ... | queue |
| `ImplementsLiveOrder` | the column implements `LiveOrder` | queue |
| `PublishedIsComplete` | the name never leads to an incomplete database, also after a power loss | publication |
| `ReportedIsDurable` | no power loss takes a reported database away | publication |
| `ReportedIsKept` | neither does a later initialization (violated for two at once) | publication, overlap |
| `WorkIsKept` | a client's commit is lost only to the initialization that made the name, when it fails before it has ended | publication |
| `InterruptionIsRepaired` | an initialization without further faults completes what was left (liveness) | publication |
| `SlotsAreExact` | free slots and unfinished callbacks add up to the limit | service |
| `ReferencesAreKept` | an accepted reference has its bytes, also after a power loss | service |
| `AnswersAreTrue` | a result names exactly what its call changed | service |
| `CancelledDidNothing` | a call cancelled once changed nothing | service |
| `BoardNeverGoesBack` | no refresh replaces the board by an older one | service |
| `CommitsAreShown` | a commit is on the board in the end, also of a cancelled call, unless something fails (liveness) | service |
| `CallsEnd` | every admitted call and every shutdown ends (liveness) | service |
| `StoredClaimIsExact` | the code's own check of a stored claim (violated) | stored_claims |
| `LiveClaimSuppresses` | a live claim keeps its item ready and its definition unchanged (violated) | pr_claims |

`AttemptIsFenced` and `PreparationIsFenced` say that each item's lease row implements
the abstract `FencedLease` under the mapping `high <- generation`,
`holder <- Holder(row)`, `deadline <- Deadline(row)`. TLC accepts a quantified refinement only
with the quantifier inside the box, which is how they are written; the theorems
`WorkerRefinement` and `PreparerRefinement` state `Spec => AttemptGrant(i)!Spec` itself.
`ImplementsLiveOrder` maps `order` to the live items sorted by committed position: the moving rows of
an open transaction are stutters, and a commit is one insertion, one end or one rearrangement.

## 4. Runs

The `.cfg` files say what each instance is for. TLC finishes all of them exhaustively.

| Run | Instance | Distinct states |
|---|---|---|
| authority | 1 item, 2 tasks, 2 time steps, leases of 2, 6 commits | 278 101 |
| workers | 1 item, 1 task, 2 candidates, 1 time step, 9 commits | 516 878 |
| replacements | 2 items, no time, 6 commits | 424 720 |
| intake | 4 items, 1 checkpoint, no time, 5 commits, 1 requested wait | 64 950 |
| pr_reviews | 1 item, 2 tasks, 2 heads, 2 findings, no time, 8 commits | 108 763 |
| initiatives | 2 initiatives, 1 item, 2 goals, 6 commits | 268 620 |
| queue | 4 items, 1 agent | 11 772 |
| publication | 1 initializer, 4 files, 5 faults | 121 459 |
| service | 2 calls, 2 threads, 2 slots, 3 names, 2 contents, 1 fault | 281 858 |
| stored_claims | 1 item, 1 task, leases of 1, 2 time steps, 3 commits | violation |
| pr_claims | 1 item, 2 tasks, no time, 4 commits | violation |
| overlap | 2 initializers, 3 files, no fault | violation |

Each board run takes the action kinds that its question is about. One remembered reading is
enough for the races at hand, since each is between one delayed request and a
sequence of prompt ones: prompt requests take a fresh reading and are not counted. A replacement is
another item, so what replacements do is checked with two items; expiry is checked in the runs with
time. Two tasks are enough to take a lease from each other. A lease of two in two time
steps can be renewed, or expire and be transferred with the old token outstanding. An item
needs three commits to have a worker (claim, activate, acquire) and two to be in
review and out of it, so nine make a second round. In the intake four items are the least
that a consolidation needs to matter: a source, what it waits for, what waits for it, and the
campaign. Five commits merge, reject or consolidate in front of items that wait; items that are
accepted at a checkpoint and dropped later are beyond them, and covered by the theorem `FaithfulRoadmap` only.
Some combinations are beyond all runs and rest on theorems about any number of items. `intake` has no
`revise-item`, so cycles by concurrent revisions are covered by `NoCycles` only; nor has `replacements`, so
a definition or a prerequisite revised between the selection of a start and its commit is covered by
`SatisfiedStarts` only. Two calls on two slots never find the executor full: more calls than slots are
covered by `ExactSlots` only. A PR review with two heads and two findings needs eight commits for a rejected brief or two
rounds and a closure. Six commits let a goal change and come back between two judgments, and an
item join, leave and join again. Four queue items leave every position to be inserted at, left, and exchanged, and a campaign
can end three of them together.

Five faults let an initialization be interrupted, be interrupted again while it repairs, and end in a
power loss; four files are enough for every name to be remembered at a different one. One failure in
`service` is enough for every mutant, because each claim is about one thing that goes wrong at the worst
moment of two concurrent calls; the safety properties also held with two.

Items, tasks, candidates, checkpoints and findings are never told apart, so all are symmetric where no
liveness is checked; `publication` and `service` use no symmetry. Deadlock checking is off where
bounds stop every behaviour or a system may rest; the queue is checked for deadlock.

Every passing property has a mutant in `PROJECT.json`: an operator marked `Mutant:` in the
module, which changes one mapped definition the way a slip in that code would and
makes TLC find the property violated.

### What the violated runs show

`stored_claims` checks the condition that `read_preparation_authority_status` and
`_validate_current_state` impose on every stored claim: one that is live at the time of the last
commit must name a ready item at its current definition. TLC finds:

1. at time 0 an agent selects `revise-item` for an item, and its request waits;
2. another agent starts to prepare the item, with a claim until time 1, and stops;
3. at time 1 the revision gets the lock; authority is judged at time 1, the claim has
   expired and `revise-item` is legal;
4. the revision commits with its own operation time, so `updated_at` is 0 again.

The claim now looks live at `updated_at` and pins the old definition. Reading it raises
`INVALID_STATE`, which blocks starting a preparation, previewing a cancellation and reading the
state, until some later commit moves `updated_at` past the claim's expiry. A slow request
about another item has the same effect. By the real clock nothing is wrong: `LiveClaimIsExact`
holds in run `authority` and is proved.

`pr_claims` needs two steps: an agent claims the preparation of a ready item, and another starts a PR
review on it. `_check` of `start-pr-review` looks at the state of the item, not at its claim, so the item goes to
review under the live claim, with the same consequences as above for as long as the claim lives.

`overlap` starts `pinboard init` twice. Both find no database. The first links its staging file; the
second then inspects the directory, sees two names of one file, takes them for residue of an interrupted
publication and removes the database after the first has reported it. With two initializers
`PublishedIsComplete` and `ReportedIsDurable` fail as well, since each may write to the staging file
the other has synchronized; one initializer after the other, however interrupted, is safe
(`publication`).

## 5. Fairness

The ledger's specifications (`Board`, `Consolidation`, `PrReview`, `Initiatives`, `LiveQueue`) have no fairness: the board
promises to be safe however slow agents are, and that something happens depends on agents and humans, who
may stop at any point (`Forget`).

`DatabasePublication` has weak fairness of each initializer's next system call: a process that is not
killed goes on. Nobody has to start one, and faults are not fair; they are finite in number by the bound, and
`InterruptionIsRepaired` speaks of an initialization that begins after the last of them.

`Service` has weak fairness of a free thread taking the next callback, of each callback's next
step, of the event loop delivering a finished result and of the process's exit: threads and the
event loop are scheduled by the system, every callback's operations return or fail, and the
board lock, if it is free, is obtained by a waiting callback (the callback's step is then
enabled for good, as no other call takes the lock for ever). Nothing is assumed of callers: they need not
submit, cancel or shut down.

## 6. Theorems

Checked by TLAPS for all values of the constants that satisfy the named assumptions: of the board
`TasksAssumption`, `ItemsAssumption`, `CheckpointsAssumption`, `CandidatesAssumption`,
`LeaseTimeAssumption` and `BoundsAssumption` (the null values are not members of their sets,
items are finite in number, a lease lasts some time, bounds are naturals), of PR reviews
`HeadsAssumption`, of initiatives `InitiativesBounds`, of the database file `PublicationAssumption`, of the service
`ExecutorAssumption`, `FilesAssumption` and `ServiceAssumption` (calls are finite in number, there are no more threads
than slots), of the queue `QueueAssumption` (items are finite in number). Two hypotheses are stated in the theorems that need them. Those of `Publication_proofs` are about one
initializer at a time (`OneInitializer`): run `overlap` shows that two break them. `StatusIsTrue` is
about a host with at least two tasks, since nobody may judge a brief that they wrote themselves:
with one task the status sends its author to wait for a verdict that nobody can give.

| Theorem | Statement | Argument |
|---|---|---|
| `Board_proofs!Typed` | `Spec => []TypeOK` | inductive as it is; one lemma per action module |
| `Board_proofs!WorkersFenced`, `PreparersFenced` | the two fencing properties | inductive `RowsHeld` (an active row has a task, a written one a generation); every transaction grants, renews, ends or leaves each row, and each is a step of `FencedLease` or none |
| `Board_proofs!WorkerRefinement`, `PreparerRefinement` | `Spec => AttemptGrant(i)!Spec`, `Spec => PreparationGrant(i)!Spec` | the same step lemmas, for one item |
| `Lifecycle_proofs!Matching` | `Spec => []AttemptMatchesItem` | inductive with `TypeOK`: every transition moves one item and its attempt to an allowed pair |
| `Lifecycle_proofs!NoCycles` | `Spec => []Acyclic` | a revision that passes the search has a closed set without the item, so every set of items still has a member that waits for none of the set |
| `Lifecycle_proofs!ExactClaims` | `Spec => []LiveClaimIsExact` | inductive with `TypeOK` and `AttemptMatchesItem`: whatever changes a ready item or its definition is offered only when no claim is live by the clock, and a late renewal is read back |
| `Lifecycle_proofs!DecisionsFirst` | `Spec => []WorkingMeansNoOpenDecisions` | inductive `AllSound` with `TypeOK` and `AttemptMatchesItem` |
| `Lifecycle_proofs!CandidatesEnd` | `Spec => []CandidateOnlyUnderReview` | the same |
| `Lifecycle_proofs!ReviewedAtScope` | `Spec => []DoneAtAcceptedScope` | the same |
| `Lifecycle_proofs!NobodyLeft` | `Spec => []TerminalHoldsNoAuthority` | the same, with `ExactClaims` for the claim |
| `Lifecycle_proofs!RevisionsCover` | `Spec => []SubjectRevisionCoversFacts` | inductive `StampsPast` (no revision of a row or a reading is ahead of the project's); a commit gives each row that it changes a revision that no reading has seen |
| `Lifecycle_proofs!Terminal` | `Spec => TerminalIsFinal` | a step offers nothing on an item that ended |
| `Lifecycle_proofs!SatisfiedForGood` | `Spec => SatisfactionIsPermanent` | acceptances are only added, and what is done stays done |
| `Lifecycle_proofs!NewGenerations` | `Spec => NewWorkNewGeneration` | every step does to an attempt one of five `Moves`; those out of review fence, and what is in review has an allocated generation (`ReviewRecorded`) |
| `Lifecycle_proofs!CurrentSubmissions`, `SatisfiedStarts` | the two action properties | the same `Moves`: only a submission enters review, only a start or a resumption becomes active |
| `Intake_proofs!IntakeNoCycles` | `IntakeSpec => []Acyclic` | inductive with `TypeOK` and `Grown` (an item that is not there waits for nothing, and nothing waits for it) |
| `Intake_proofs!IntakeExactClaims` | `IntakeSpec => []LiveClaimIsExact` | inductive `Exact`; what intake ends or revises has no live claim by the clock (`LapsedByNow`, `ConsolidateEnds`) |
| `Intake_proofs!KeptWaits` | `IntakeSpec => WaitsAreKept` | `WaitsInherited`: a wait of one live item for another becomes one between their heirs (the campaign is the heir of its sources) |
| `Intake_proofs!FaithfulRoadmap` | `IntakeSpec => []RoadmapIsFaithful` | follows from `Whole` (the invariant of `IntakeNoCycles`); a loop invariant and a measure for each of the three loops |
| `PrReview_proofs!WritersSatisfyReaders` | `PrSpec => []HistoryValidates` | inductive `PrInv`: every history is `Coherent`, an appended row sees the same history as the reader |
| `PrReview_proofs!NoFindingLost` | `PrSpec => []FindingsAreDisposed` | the same invariant: `Traced` accounts for each finding after each round |
| `PrReview_proofs!StatusIsTrue` | two tasks `=> (PrSpec => []PresentedIsAcceptable)` | the same invariant: what the last rows say decides both the status and the writer's guard |
| `Initiatives_proofs!JudgmentsNamed` | `Spec => []AssessmentsNameTheirGoal` | inductive `Inv`: revisions and commits of an initiative are numbered alike, and a reading's context is a recorded one |
| `Initiatives_proofs!HistoriesValidate` | `Spec => []InitiativesValidate` | inductive `History` with `Inv`: notes counted, episodes apart, contexts chained, goals preserved |
| `Publication_proofs!CompletePublications`, `DurableReports`, `KeptReports`, `KeptWork` | the four safety properties of `DatabasePublication` | inductive `Inv`: what the disk may hold under the name is whole (`Whole`), and `Phase` says what holds at each system call |
| `Service_proofs!ExactSlots` | `Spec => []SlotsAreExact` | inductive `Slots`: a call that was not submitted has no future, and a service that is down no callback |
| `Service_proofs!TrueAnswers`, `CancelledForGood` | `Spec => []AnswersAreTrue`, `Spec => []CancelledDidNothing` | inductive `Told`: at each step of a callback, what it has told and what it has changed (`Stage`, `Honest`) |
| `Service_proofs!KeptReferences` | `Spec => []ReferencesAreKept` | inductive `Kept` with `Told`: what a call carries to its acceptance is linked, complete and synchronized (`Carried`) |
| `Service_proofs!BoardAdvances` | `Spec => BoardNeverGoesBack` | inductive `Ordered` with `Told`: what the holder of the lock composes is not older than the board |
| `Queue_proofs!UpdatesApply` | `Spec => []EveryUpdateApplies` | inductive `Inv`: an open transaction is in one of five phases, each of which says where every row is and which statements are left |
| `Queue_proofs!NoGaps` | `Spec => []PositionsDense` | the same invariant: when no statement is left, the free position is the last one |
| `Queue_proofs!QueueIsTheOrder` | `Spec => ImplementsLiveOrder` | the same invariant: `Progress` and `Reordering` relate the rows to the committed ones |

### The board

`ExactClaims` needs `AttemptMatchesItem` because the actions on running attempts do not look at
claims: they cannot concern a ready item. `WorkersFenced` needs no assumption on how late requests
are beyond `RequestTimes`: a row that looked lapsed at an earlier time has lapsed by now.

`AllSound` says of each item that open decisions keep it from work, that a candidate is there exactly when
it must be, that what is done was accepted at its scope, and that an active worker's lease is on an open
attempt. The last part is not among the properties: without it nothing would rule out that an attempt that
ended kept its worker. `ReviewedAtScope` covers the replacements by any other item, which the run
`workers` with its single item does not reach.

What concerns old requests (`RevisionsCover` and the theorems after it) rests on one fact, `StepsStamp`: a step is about one item, `Stamps` every row of it
that changes with the new project revision, and leaves the rows of all others. The subject
revision of an item or attempt is that of its row, and no reading holds a revision ahead of the
project's, so an equal subject revision leaves no room for a commit that changed the facts. An action that
forgot to advance one row would break this.

### Intake

The heart of `IntakeNoCycles` is the lemma `ManyRevisedAcyclic`. A consolidation changes the waits of
several items at once and searches for a cycle from each of them. Suppose the new graph had a set of
items that each wait for one of the set, and take a smallest one (strict inclusion is well-founded, as items
are finite). The old graph has no such set, so one of its members changed; the search from that member did
not meet it again, and what the search met within the set is a smaller set of the same kind.

`KeptWaits` is about waits at any distance, and induction over paths is not available. What an item awaits is
the least set closed under waits, so it suffices to show one set closed: the items whose heirs are in a set
that is closed under the new waits are closed under the old ones, because a wait of one item for another
becomes one of its heir for the other's heir (`WaitsInherited`).

### The roadmap

`FaithfulRoadmap` is about an algorithm, so its proof is one of loops. A function defined by recursion over the rounds is a
`CHOOSE`, about which nothing is known until some function satisfies the equation: `RoundsExist` builds it, for a
loop that maps a set of states to itself, from its finite traces. `LoopEnds` takes a measure that every
round but the last ones makes grow, and a bound of it; both rest on `NatSteps`, an induction over a set of numbers in
place of a predicate. The three loops then have

- `ShownCloses`: after the first batch, all that unfinished items wait for has been selected;
- `Spreading`: every invalid item has a path of waits to a dropped one, who is settled has passed it on to all
  that wait for it, and the queue lists the others; each round settles one item more;
- `Placing`: the degree of an item is the number of those it waits for that are not placed, who is ready is listed, and
  the placed ones stand right behind the last they wait for (`Leveled`); each round places one item more.

That the queues name nobody twice (`Lists`) is what bounds the rounds. When the last queue is empty, nobody is left:
else those left would each wait for one of them, against `Acyclic` (`AllPlaced`). A missing prerequisite is ruled out by
`Grown`, and one that is neither unfinished nor dropped is satisfied.

### PR reviews

`Coherent` says of a history that a closure or cancellation is its last row, that every row passes the reader's check
of its position, that a verdict judges the brief that was in force where it stands (`Judging`), and that after each round the open
findings are those raised and not settled (`Traced`). The writer computes a row from the rows that
there are; the reader validates it later against the rows before its position, so the proof shows that both
see the same last brief, round and head (`UpTo`, `ReadBack`). The last position of a set is defined by `CHOOSE`;
`MaxOfPositions` shows that there is one without an induction over the length, again from strict
inclusion being well-founded. `Trail` ties the history to the rows of the item, so that the board's other
actions (`BoardTrail`) cannot move an item whose review is open except as the review allows.

### Initiatives

`Inv` says that the context of every revision is recorded (`Written`), that of two
revisions the higher number was committed later (`Numbered`), that an initiative that exists has a last revision (`Founded`),
and that a reading and a judgment name a context that was recorded (`Recorded`, `Named`). A judgment's
goal is the one in force at its commit because the writer compares the reading's context with the
current one. `History` adds that each initiative has as many commits as notes and shares none with another (`Counts`),
that the episodes of a membership are 1, 2, ... and one at most is active (`Membered`), that the context advances
exactly when the goal changes (`Chained`), and that nothing but the contexts of revisions is recorded (`Preserved`).
The commits are counted without an induction: each commit adds one, to one initiative (`CountsKept`).

### The database file

What makes the argument is what may be on the disk: a directory entry that was not
synchronized is one of a set of values, and a power loss picks one. `Whole` says that whatever the disk may hold
under the database's name is nothing or a complete and flushed file; `Settled` that a
published database with a client's commit has its name on disk; and `Phase` what else the initializer may rely on at each
system call: it builds only what was not there, and withdraws only what was not reported. Taking back a failed
publication (`TakesBack`) is then the only step that removes the name, and it never follows a report (`KeptReports`).
`KeptWork` adds when it may happen. An initializer is undecided from its link to the end of what follows; while
a database is published and nobody is undecided, none becomes so (`EndedForGood`), because whoever starts finds the database
and resumes. Work committed before the initialization ends can be lost to its failure; work that is there when
it ends, by success, failure, death or power loss, stays.

### The service

`Told` and `Kept` say something of each callback by itself: `ToldHere` and `KeptHere` are about the callback that
takes a step, `ToldElsewhere` and `CarriedElsewhere` about the others. What callbacks share are the
files and the board: two calls may publish the same file, and one may find the other's link before it is
synchronized. `FilesOK` therefore speaks of files and not of calls, with `unsynced` for the exception that
section 9 names. In `Ordered` the lock does it: only its holder writes the board, and what the holder has read
is at least as new as the file.

### The queue

While rows move, all positions but one are taken: `Gap(positions, n, p)` says that n items have the positions
1, ..., n + 1 except p. Every UPDATE of an insertion or a compaction moves the free position by one, so that its row
is the one next to it and its new position is the free one. `Compacting` and `Spacing` say this of each
statement that is left, `ToCompact` and `ToSpace` hold before a loop has selected its rows, and
`EndsAfter` says that the items a consolidation has yet to end are below the free position, the highest first: their positions are
still those read before the first one moved, which is why the code may compute all statements at the
start. The mutants `ConsolidateAscending` and `SelectRowsAscending` are the orders for which this fails.

A reordering moves rows out of the way, above all positions in use, and then to their places. `Reordering` counts the
statements done and gives each row as a function of this count, so no statement needs the ones before it.

No argument goes along a list. That a list of statements is what the operators of
the community modules build (`FlattenSeq`, `SetToSeqs`) is shown by a witness that satisfies their
definitions, or from the least place at which it would not (`FlattenedPairs`). That two orders of the same items are
equal follows from `SortedIs`: the item at place k is the one with k - 1 items before it.

In the refinement, an open transaction is a stutter. `Progress` keeps, for the commit, which items entered
and which went, and that the others kept their order: a commit is then `Insert`, `End` or a stutter, and that of
a reordering is `Rearrange` by the agent whose reading the request carried. `LiveOrder` has
instances of the community operators of its own; `SameOperators` identifies them with those of `LiveQueue`.

### What is model-checked only

- Liveness under fairness (`InterruptionIsRepaired`, `CommitsAreShown`, `CallsEnd`), which the prover does
  not reach.
- The three properties that the code violates.

## 7. Plan

Done: the ledger, its intake, PR reviews, initiatives, the roadmap, the queue, the database file, artifacts, the executor and the
board view, and theorems for all safety properties that hold. Next: schema migration and artifact
ownership, as far as they keep state of their own, and item and attempt views.

## 8. Not modelled

- The totals, the external prerequisites and the rendering of the roadmap.
- Queries, overview, exports and archives: projections of the ledger in one read transaction each.
- Briefs, obligations and routing: validation of documents. The ledger takes a brief that passed it.
- The choice and the wording of prompts, packages and reviews in a dispatch; its publications are
  modelled. The capture of candidate snapshots, and which owner an artifact has.
- History rows other than PR evidence, and the counters of items by state.
- Schema migration, an offline procedure on a copy.
- Item and attempt views, which are written without the board's lock, and rendering.
- Command line, hooks, host settings, instructions, skills, evaluations and scripts carry text to and
  from the same application calls. A large part of the repository is of this kind: request and
  response contracts, parsers, renderers and instructions, without state to check.

## 9. Behaviours worth knowing

Except the first, none of these contradicts a document; the model has them because the code does.

Executor, artifacts and dispatch:

- A call that is cancelled a second time while its callback runs reports a cancellation
  although the callback may still commit (`execution.py:498`), contrary to what ARCHITECTURE.md:251
  says of cancellation. `CancelledDidNothing` therefore speaks of one cancellation.
- A reused artifact whose cleanup fsync failed silently gets a reference that a power loss can leave
  without its file. `unsynced` marks it, and `ReferencesAreKept` excepts it.
- `prepare_dispatch` reads a correction's history after a publication without the handler that the
  recheck of its authority has (`dispatch_operations.py:1828`, `:2018`): an error there is an exception.
- Of two dispatches that race with different reviews, the loser meets a link that exists and gets
  an error instead of the evidence of a collision.
- Item and attempt views are written without the board lock (`views.py:1518`), so a slow writer may put an
  older one back until the next commit about that item.

Database file:

- An I/O failure after the link withdraws a database to which a client may already have committed
  (`database.py:410`). `WorkIsKept` excepts this case, in which it promises nothing, and excludes every other.

PR reviews:

- A start ignores unsatisfied prerequisites and unresolved replacements; an item in review without
  attempt is offered no replacement or retention; its close does not need the reviewed definition to be current.
- The status offers "round" without an observed head, and for an item whose implementation
  candidate is in review it offers start and close, which the writer refuses. `PresentedIsAcceptable` excepts both.

Proposals and consolidation:

- A proposal that plans to replace a terminal item changes that item's subject revision, so the
  `TerminalIsFinal` of `Board` does not hold of intake.
- Merging a proposal ignores live dependents (`decisions.py:1594`): they become satisfied although the
  target is not done. The target may be the item itself or a dropped one. Rejecting drops an item without
  the preview that a cancellation needs.
- A consolidation leaves consumers that are being worked on behind at a stale definition, on purpose.

Lifecycle:

- Resuming with a revised brief changes a paused attempt's scope and leaves the worker's lease
  working (`decisions.py:1128`); rebinding fences it.
- Rebinding does not look at prerequisites: an active attempt may go on at a definition whose new
  dependencies are not satisfied, since only starting and resuming ask for them.
- A paused item without an attempt, which none of the modelled operations produces, would be offered
  `defer`, which the decision then rejects.
- Two items planned to replace each other can both end as superseded.
- A dropped prerequisite never satisfies its dependents, until their definition is revised.
