------------------------------ MODULE PrReview ------------------------------
(***************************************************************************)
(* The review of a human-owned pull request: a ready item goes to review   *)
(* without an attempt and collects evidence, row after row of the          *)
(* transition history, until the human closes it.  Everything else that    *)
(* happens on the board goes on beside it.                                 *)
(***************************************************************************)
EXTENDS Board, Sequences, FiniteSetsExt

CONSTANTS Heads,       \* commits of the pull request, each with its source
          NoHead,
          Findings     \* identities of what reviewers find

ASSUME HeadsAssumption == NoHead \notin Heads

VARIABLES
  evidence,     \* the rows of each item's review, and of its cancellation
  classified    \* the current definition records its route facts

prVars == <<vars, evidence, classified>>

-----------------------------------------------------------------------------
\* A row of evidence; its position stands for its history id.
Brief(rev, task) == [kind |-> "brief", definition |-> rev, by |-> task]
Verdict(brief, ready, task) == [kind |-> "verdict", brief |-> brief, ready |-> ready, by |-> task]
Observation(head) == [kind |-> "head", head |-> head]
Round(brief, previous, head, findings, prior, carried) ==
  [kind |-> "round", brief |-> brief, previous |-> previous, head |-> head,
   findings |-> findings, prior |-> prior, carried |-> carried]
Closing(final, head, newer, disposed, outcome) ==
  [kind |-> "close", final |-> final, head |-> head, newer |-> newer,
   disposed |-> disposed, outcome |-> outcome]
Cancellation(i) == [kind |-> "cancel", state |-> item[i].state, attempt |-> HasAttempt(i)]

Rows(s, kind) == {k \in DOMAIN s: s[k].kind = kind}

\* The position of the last row of a kind, 0 when there is none.
Last(s, kind) == IF Rows(s, kind) = {} THEN 0 ELSE Max(Rows(s, kind))

LatestHead(s) == IF Last(s, "head") = 0 THEN NoHead ELSE s[Last(s, "head")].head
ReviewedHead(s) == IF Last(s, "round") = 0 THEN NoHead ELSE s[Last(s, "round")].head
OpenFindings(s) == IF Last(s, "round") = 0 THEN {} ELSE s[Last(s, "round")].findings

\* Mutant: any earlier verdict vouches for the brief in force.
LatestVerdict(s) == Last(s, "verdict")

\* The verdict on the brief in force, 0 while nobody gave one.
VerdictInForce(s) ==
  LET given == {k \in Rows(s, "verdict"): s[k].brief = Last(s, "brief")} IN
  IF given = {} THEN 0 ELSE Max(given)

Judged(s, ready) == VerdictInForce(s) # 0 /\ s[VerdictInForce(s)].ready = ready

\* A head that was observed and not reviewed by the last round.
Unreviewed(s) == IF LatestHead(s) = ReviewedHead(s) THEN NoHead ELSE LatestHead(s)

InReview(i) == item[i].state = "review" /\ Rows(evidence[i], "brief") # {}

\* The brief in force is about the item's current definition.
BriefCurrent(i) ==
  /\ Rows(evidence[i], "brief") # {}
  /\ evidence[i][Last(evidence[i], "brief")].definition = definition[i].rev

-----------------------------------------------------------------------------
\* What the adapter accepts, payload by payload (_check).
FirstBrief(i) == item[i].state = "ready" /\ Rows(evidence[i], "brief") = {} /\ attempt[i].state = "none"

\* Mutant: a rejected brief is replaced only after a new definition.
RevisedBriefOnDefinition(i) == InReview(i) /\ ~ BriefCurrent(i)

RevisedBrief(i) == InReview(i) /\ (~ BriefCurrent(i) \/ Judged(evidence[i], FALSE))

AcceptsVerdict(i, task) ==
  /\ InReview(i) /\ BriefCurrent(i)
  /\ VerdictInForce(evidence[i]) = 0
  /\ task # evidence[i][Last(evidence[i], "brief")].by

AcceptsRound(i, head) ==
  /\ InReview(i) /\ BriefCurrent(i)
  /\ Judged(evidence[i], TRUE)
  /\ head # NoHead /\ head = LatestHead(evidence[i])

\* Mutant: a finding that is carried forward may be missing from the round.
DisposesOfSome(s, findings, prior, carried) == prior = OpenFindings(s) /\ carried \subseteq prior

\* Every finding of the last round is disposed of; the carried ones are found again.
Disposes(s, findings, prior, carried) == prior = OpenFindings(s) /\ carried = findings \cap prior

-----------------------------------------------------------------------------
\* Every write goes by the item's revision, keeps its row and advances that revision.
Record(r, kind, row) ==
  LET i == r.subject IN
  /\ kind \in Kinds
  /\ ItemUnchanged(r)
  /\ evidence' = [evidence EXCEPT ![i] = Append(@, row)]
  /\ \E t \in RequestTimes(r): Commit(t)
  /\ UNCHANGED <<definition, attempt, attemptLease, preparationLease, replacement, accepted,
                 classified>>

\* No lease, prerequisite or replacement is looked at.
StartPrReview(r, task) ==
  LET i == r.subject IN
  /\ classified[i]
  /\ FirstBrief(i) \/ RevisedBrief(i)
  /\ Record(r, "start-pr-review", Brief(definition[i].rev, task))
  /\ SetItemState(i, "review")

ReviewPrBrief(r, task, ready) ==
  LET i == r.subject IN
  /\ classified[i]
  /\ AcceptsVerdict(i, task)
  /\ Record(r, "review-pr-brief", Verdict(Last(evidence[i], "brief"), ready, task))
  /\ AdvanceItem(i)

ObservePrHead(r, head) ==
  LET i == r.subject IN
  /\ classified[i]
  /\ InReview(i)
  /\ Record(r, "observe-pr-head", Observation(head))
  /\ AdvanceItem(i)

RecordPrRound(r, findings, prior, carried) ==
  LET i == r.subject
      s == evidence[i] IN
  /\ classified[i]
  /\ AcceptsRound(i, LatestHead(s))
  /\ Disposes(s, findings, prior, carried)
  /\ Record(r, "record-pr-round",
            Round(Last(s, "brief"), Last(s, "round"), LatestHead(s), findings, prior, carried))
  /\ AdvanceItem(i)

\* The human ends the review, whatever the state of its brief, rounds and definition.
ClosePrReview(r, outcome) ==
  LET i == r.subject
      s == evidence[i] IN
  /\ InReview(i)
  /\ Record(r, "close-pr-review",
            Closing(Last(s, "round"), ReviewedHead(s), Unreviewed(s), OpenFindings(s), outcome))
  /\ SetItemState(i, outcome)

PrReviewNext(r) ==
  \/ \E task \in Tasks:
       \/ StartPrReview(r, task)
       \/ \E ready \in BOOLEAN: ReviewPrBrief(r, task, ready)
  \/ \E head \in Heads: ObservePrHead(r, head)
  \/ \E findings, prior, carried \in SUBSET Findings: RecordPrRound(r, findings, prior, carried)
  \/ \E outcome \in {"done", "dropped"}: ClosePrReview(r, outcome)

\* A cancellation adds its row to the history; a new definition may record route facts
\* that the one before it lacked, and never discards them.
BoardNext ==
  /\ Next
  /\ evidence' = [i \in Items |->
       IF item[i].state # "dropped" /\ item'[i].state = "dropped"
       THEN Append(evidence[i], Cancellation(i)) ELSE evidence[i]]
  /\ classified' \in [Items -> BOOLEAN]
  /\ \A i \in Items: classified'[i] # classified[i] =>
       definition'[i].rev # definition[i].rev /\ classified'[i]

PrInit == Init /\ evidence = [i \in Items |-> <<>>] /\ classified \in [Items -> BOOLEAN]

PrNext == BoardNext \/ \E r \in Readings: PrReviewNext(r)

PrSpec == PrInit /\ [][PrNext]_prVars

-----------------------------------------------------------------------------
\* What the status of an item presents as the next actions (_present).
PresentedByState(i) ==
  LET s == evidence[i] IN
  CASE FirstBrief(i) -> {"start"}
    [] item[i].state = "review" /\ ~ BriefCurrent(i) -> {"start", "close"}
    [] item[i].state = "review" /\ BriefCurrent(i) /\ VerdictInForce(s) = 0 ->
         {"review-brief", "observe", "close"}
    [] item[i].state = "review" /\ BriefCurrent(i) /\ Judged(s, FALSE) -> {"start", "close"}
    [] item[i].state = "review" /\ BriefCurrent(i) /\ Judged(s, TRUE) -> {"observe", "round", "close"}
    [] OTHER -> {}

Presented(i) ==
  IF classified[i] THEN PresentedByState(i) ELSE PresentedByState(i) \cap {"close"}

\* Some payload of that action would be accepted now, had an agent all it needs.
Acceptable(i, action) ==
  CASE action = "start" -> classified[i] /\ (FirstBrief(i) \/ RevisedBrief(i))
    [] action = "review-brief" -> classified[i] /\ \E task \in Tasks: AcceptsVerdict(i, task)
    [] action = "observe" -> classified[i] /\ InReview(i)
    [] action = "round" -> classified[i] /\ \E head \in Heads: AcceptsRound(i, head)
    [] action = "close" -> InReview(i)

-----------------------------------------------------------------------------
\* The route as the reader of the whole state checks it again, row by row and without
\* the writer's state (validate_review_history): what is wrong with row k of s.
BriefUpTo(s, k) == Last(SubSeq(s, 1, k - 1), "brief")
VerdictUpTo(s, k) ==
  LET given == {j \in Rows(s, "verdict"): BriefUpTo(s, k) < j /\ j < k} IN
  IF given = {} THEN 0 ELSE Max(given)

RowValid(i, k) ==
  LET s == evidence[i]
      row == s[k]
      before == SubSeq(s, 1, k - 1)
      brief == BriefUpTo(s, k)
      verdict == VerdictUpTo(s, k)
      round == Last(before, "round")
  IN CASE row.kind = "brief" -> row.definition \in 1 .. definition[i].rev
       [] row.kind = "verdict" ->
            brief # 0 /\ row.brief = brief /\ row.by # s[brief].by /\ verdict = 0
       [] row.kind = "head" -> brief # 0
       [] row.kind = "round" ->
            /\ brief # 0 /\ verdict # 0 /\ s[verdict].ready /\ row.brief = brief
            /\ row.previous = round
            /\ Last(before, "head") # 0 /\ row.head = LatestHead(before)
            /\ row.prior = OpenFindings(before)
            /\ row.carried = row.findings \cap row.prior
       [] row.kind = "close" ->
            /\ row.final = round /\ row.head = ReviewedHead(before)
            /\ row.disposed = OpenFindings(before)
            /\ row.newer = Unreviewed(before)
       [] row.kind = "cancel" -> brief # 0 /\ row.state = "review" /\ ~ row.attempt

\* The state that the history of an item leads to.
StateOfHistory(s) ==
  CASE Last(s, "close") # 0 -> s[Last(s, "close")].outcome
    [] Last(s, "cancel") # 0 -> "dropped"
    [] OTHER -> "review"

\* Whatever was written, in whatever order and with whatever else on the board, the
\* independent validation of the whole state accepts it: a review has no attempt, no row
\* follows its end, every row stands on the rows before it and the item is in the state
\* that its history leads to (validate_review_history against _check and write).
HistoryValidates ==
  \A i \in Items:
    \/ Rows(evidence[i], "brief") # {}
    \/ item[i].state = "review" /\ attempt[i].state \in {"none", "done"}
    => LET s == evidence[i] IN
       /\ s # <<>> /\ attempt[i].state = "none"
       /\ Rows(s, "close") \cup Rows(s, "cancel") \subseteq {Len(s)}
       /\ \A k \in DOMAIN s: RowValid(i, k)
       /\ item[i].state = StateOfHistory(s)

\* No finding is lost between the round that raised it and the end of the review: it is
\* resolved or accepted by a later round, or carried by every round up to the closure,
\* which disposes of it; only a cancellation leaves one open (ReviewRound, ReviewClose).
FindingsAreDisposed ==
  \A i \in Items: LET s == evidence[i] IN Last(s, "close") # 0 =>
    \A k \in Rows(s, "round"): \A f \in s[k].findings:
      \/ f \in s[Last(s, "close")].disposed
      \/ \E j \in Rows(s, "round"): j > k /\ f \in s[j].prior \ s[j].carried

\* An agent that follows the status of a review is never sent to an action that the
\* writer rejects; a round also needs an observed head, which the status shows
\* (_present against _check).
PresentedIsAcceptable ==
  \A i \in Items: \A action \in Presented(i):
    \/ Acceptable(i, action)
    \/ action = "round" /\ LatestHead(evidence[i]) = NoHead
    \/ HasAttempt(i)

-----------------------------------------------------------------------------
\* "A live claim suppresses conflicting ready-item lifecycle and definition mutations"
\* (ARCHITECTURE.md): while a claim stays live its item neither leaves the queue of ready
\* items nor changes its definition.
LiveClaimSuppresses ==
  [][\A i \in Items: PreparationLive(i) /\ PreparationLive(i)' =>
       item'[i].state = item[i].state /\ definition'[i] = definition[i]]_prVars
=============================================================================
