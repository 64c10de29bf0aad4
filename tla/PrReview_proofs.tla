--------------------------- MODULE PrReview_proofs --------------------------
(***************************************************************************)
(* The evidence of pull request reviews: what was written passes the       *)
(* validation that reads it back, and no finding is lost, for any items,   *)
(* agents, heads and findings, beside everything else on the board.        *)
(***************************************************************************)
EXTENDS PrReview, Lifecycle_proofs, FiniteSetTheorems, SequenceTheorems, WellFoundedInduction

HeadOrNone == Heads \cup {NoHead}
BriefRow == [kind: {"brief"}, definition: Nat, by: Tasks]
VerdictRow == [kind: {"verdict"}, brief: Nat, ready: BOOLEAN, by: Tasks]
HeadRow == [kind: {"head"}, head: Heads]
RoundRow == [kind: {"round"}, brief: Nat, previous: Nat, head: HeadOrNone, findings: SUBSET Findings,
             prior: SUBSET Findings, carried: SUBSET Findings]
CloseRow == [kind: {"close"}, final: Nat, head: HeadOrNone, newer: HeadOrNone, disposed: SUBSET Findings,
             outcome: {"done", "dropped"}]
CancelRow == [kind: {"cancel"}, state: LiveStates \cup TerminalStates, attempt: BOOLEAN]
Row == BriefRow \cup VerdictRow \cup HeadRow \cup RoundRow \cup CloseRow \cup CancelRow

LEMMA RowKinds ==
  ASSUME NEW row \in Row
  PROVE  /\ row.kind \in {"brief", "verdict", "head", "round", "close", "cancel"}
         /\ row.kind = "brief" => row \in BriefRow
         /\ row.kind = "verdict" => row \in VerdictRow
         /\ row.kind = "head" => row \in HeadRow
         /\ row.kind = "round" => row \in RoundRow
         /\ row.kind = "close" => row \in CloseRow
         /\ row.kind = "cancel" => row \in CancelRow
BY DEF Row, BriefRow, VerdictRow, HeadRow, RoundRow, CloseRow, CancelRow

-----------------------------------------------------------------------------
\* A set of positions that is not empty has a last one: of those positions, one with the
\* fewest positions after it.
LEMMA MaxOfPositions ==
  ASSUME NEW n \in Nat, NEW S \in SUBSET (1 .. n), S # {}
  PROVE  Max(S) \in S /\ \A k \in S: k <= Max(S)
<1> DEFINE after(k) == {j \in 1 .. n: j > k}
           Afters == {after(k): k \in S}
<1>1. IsWellFoundedOn(StrictSubsetOrdering(1 .. n), SUBSET (1 .. n))
  <2>1. IsFiniteSet(1 .. n)
    BY FS_Interval
  <2> QED BY <2>1, FS_StrictSubsetOrderingWellFounded, FS_FiniteSubsetsOfFinite
<1>2. Afters \subseteq SUBSET (1 .. n) /\ Afters # {}
  OBVIOUS
<1>3. PICK A \in Afters: \A B \in Afters: ~ (<<B, A>> \in StrictSubsetOrdering(1 .. n))
  <2> HIDE DEF Afters
  <2> QED BY <1>1, <1>2, WFMin
<1>4. PICK k \in S: A = after(k)
  OBVIOUS
<1>5. ASSUME NEW j \in S, j > k
      PROVE  FALSE
  <2>1. after(j) \subseteq after(k) /\ after(j) # after(k)
    BY <1>5
  <2>2. <<after(j), A>> \in StrictSubsetOrdering(1 .. n)
    BY <1>4, <2>1 DEF StrictSubsetOrdering
  <2> QED BY <1>3, <1>5, <2>2
<1>6. \A j \in S: k >= j
  BY <1>5
<1>7. Max(S) \in S /\ \A j \in S: Max(S) >= j
  BY <1>4, <1>6 DEF Max
<1> QED BY <1>7

LEMMA LastRow ==
  ASSUME NEW s \in Seq(Row), NEW kind
  PROVE  /\ Rows(s, kind) \subseteq 1 .. Len(s) /\ Last(s, kind) \in 0 .. Len(s)
         /\ Rows(s, kind) = {} <=> Last(s, kind) = 0
         /\ Rows(s, kind) # {} => Last(s, kind) \in Rows(s, kind)
         /\ \A k \in Rows(s, kind): k <= Last(s, kind)
<1>1. Len(s) \in Nat /\ DOMAIN s = 1 .. Len(s)
  OBVIOUS
<1>2. Rows(s, kind) \in SUBSET (1 .. Len(s))
  BY <1>1 DEF Rows
<1>3. CASE Rows(s, kind) = {}
  BY <1>1, <1>2, <1>3 DEF Last
<1>4. CASE Rows(s, kind) # {}
  <2>1. Last(s, kind) = Max(Rows(s, kind))
    BY <1>4 DEF Last
  <2>2. Max(Rows(s, kind)) \in Rows(s, kind) /\ \A k \in Rows(s, kind): k <= Max(Rows(s, kind))
    BY <1>1, <1>2, <1>4, MaxOfPositions
  <2> QED BY <1>1, <1>2, <1>4, <2>1, <2>2
<1> QED BY <1>3, <1>4

\* What one more row changes.
LEMMA Appended ==
  ASSUME NEW s \in Seq(Row), NEW row \in Row
  PROVE  /\ Append(s, row) \in Seq(Row) /\ Len(Append(s, row)) = Len(s) + 1
         /\ DOMAIN Append(s, row) = 1 .. (Len(s) + 1)
         /\ \A k \in 1 .. Len(s): Append(s, row)[k] = s[k]
         /\ Append(s, row)[Len(s) + 1] = row
OBVIOUS

LEMMA RowsAppended ==
  ASSUME NEW s \in Seq(Row), NEW row \in Row, NEW kind
  PROVE  /\ Rows(Append(s, row), kind) =
              Rows(s, kind) \cup (IF row.kind = kind THEN {Len(s) + 1} ELSE {})
         /\ Last(Append(s, row), kind) = IF row.kind = kind THEN Len(s) + 1 ELSE Last(s, kind)
<1> DEFINE t == Append(s, row)
<1>1. /\ t \in Seq(Row) /\ Len(t) = Len(s) + 1 /\ DOMAIN t = 1 .. (Len(s) + 1)
      /\ Len(s) \in Nat /\ DOMAIN s = 1 .. Len(s)
      /\ \A k \in 1 .. Len(s): t[k] = s[k]
      /\ t[Len(s) + 1] = row
  BY Appended
<1> HIDE DEF t
<1>2. Rows(t, kind) = Rows(s, kind) \cup (IF row.kind = kind THEN {Len(s) + 1} ELSE {})
  BY <1>1 DEF Rows
<1>3. CASE row.kind = kind
  <2>1. Len(s) + 1 \in Rows(t, kind)
    BY <1>2, <1>3
  <2>2. Last(t, kind) \in Rows(t, kind) /\ Len(s) + 1 <= Last(t, kind) /\ Last(t, kind) \in 0 .. Len(t)
    BY <1>1, <2>1, LastRow
  <2>3. Last(t, kind) = Len(s) + 1
    BY <1>1, <2>2
  <2> QED BY <1>2, <1>3, <2>3 DEF t
<1>4. CASE row.kind # kind
  <2>1. Rows(t, kind) = Rows(s, kind)
    BY <1>2, <1>4
  <2> QED BY <1>2, <1>4, <2>1 DEF Last, t
<1> QED BY <1>3, <1>4

\* A row is read back with what was there before it.
LEMMA Prefixes ==
  ASSUME NEW s \in Seq(Row), NEW row \in Row, NEW k \in 1 .. (Len(s) + 1)
  PROVE  SubSeq(Append(s, row), 1, k - 1) = SubSeq(s, 1, k - 1)
<1>1. Append(s, row) = s \o <<row>> /\ <<row>> \in Seq(Row) /\ Len(s) \in Nat
  OBVIOUS
<1>2. CASE k = 1
  BY <1>2, SubSeqEmpty
<1>3. CASE k # 1
  <2>1. k - 1 \in 1 .. Len(s) /\ 1 \in 1 .. Len(s)
    BY <1>1, <1>3
  <2> QED BY <1>1, <2>1, SubSeqOfConcat1
<1> QED BY <1>2, <1>3

-----------------------------------------------------------------------------
\* What RowValid says of row k of a history, at definition revision rev.
ValidAt(s, k, rev) ==
  LET row == s[k]
      before == SubSeq(s, 1, k - 1)
      brief == BriefUpTo(s, k)
      verdict == VerdictUpTo(s, k)
      round == Last(before, "round")
  IN CASE row.kind = "brief" -> row.definition \in 1 .. rev
       [] row.kind = "verdict" ->
            brief # 0 /\ row.brief = brief /\ row.by # s[brief].by /\ verdict = 0
       [] row.kind = "head" -> brief # 0
       [] row.kind = "round" ->
            /\ brief # 0 /\ verdict # 0 /\ s[verdict].ready /\ row.brief = brief
            /\ row.previous = round
            /\ Last(before, "head") # 0 /\ row.head = LatestHead(before)
            /\ row.prior = OpenFindings(before)
            /\ row.carried = row.findings \cap row.prior
       [] row.kind = "close" ->
            /\ row.final = round /\ row.head = ReviewedHead(before)
            /\ row.disposed = OpenFindings(before)
            /\ row.newer = Unreviewed(before)
       [] row.kind = "cancel" -> brief # 0 /\ row.state = "review" /\ ~ row.attempt

AllValid(s, rev) == \A k \in DOMAIN s: ValidAt(s, k, rev)

LEMMA RowValidIs ==
  ASSUME NEW i, NEW k
  PROVE  RowValid(i, k) <=> ValidAt(evidence[i], k, definition[i].rev)
BY DEF RowValid, ValidAt

LEMMA UpTo ==
  ASSUME NEW s \in Seq(Row), NEW k \in 1 .. Len(s)
  PROVE  BriefUpTo(s, k) \in 0 .. k - 1 /\ VerdictUpTo(s, k) \in 0 .. k - 1
<1>1. Len(s) \in Nat /\ \A j \in 1 .. Len(s): s[j] \in Row
  OBVIOUS
<1>2. SubSeq(s, 1, k - 1) \in Seq(Row) /\ Len(SubSeq(s, 1, k - 1)) = k - 1
  BY <1>1, SubSeqProperties
<1>3. BriefUpTo(s, k) \in 0 .. k - 1
  BY <1>2, LastRow DEF BriefUpTo
<1>4. VerdictUpTo(s, k) \in 0 .. k - 1
  <2> DEFINE given == {j \in Rows(s, "verdict"): BriefUpTo(s, k) < j /\ j < k}
  <2>1. given \in SUBSET (1 .. (k - 1)) /\ k - 1 \in Nat
    BY <1>1, LastRow
  <2>2. VerdictUpTo(s, k) = IF given = {} THEN 0 ELSE Max(given)
    BY DEF VerdictUpTo
  <2> HIDE DEF given
  <2>3. given # {} => Max(given) \in given
    BY <2>1, MaxOfPositions
  <2>4. CASE given = {}
    BY <2>1, <2>2, <2>4
  <2>5. CASE given # {}
    <3>1. VerdictUpTo(s, k) = Max(given)
      BY <2>2, <2>5
    <3>2. VerdictUpTo(s, k) \in 1 .. (k - 1)
      BY <2>1, <2>3, <2>5, <3>1
    <3> QED BY <3>2
  <2> QED BY <2>4, <2>5
<1> QED BY <1>3, <1>4

\* Rows that follow change nothing of what was valid.
LEMMA ValidKept ==
  ASSUME NEW s \in Seq(Row), NEW row \in Row, NEW rev \in Nat, NEW next \in Nat, rev <= next,
         NEW k \in 1 .. Len(s), ValidAt(s, k, rev)
  PROVE  ValidAt(Append(s, row), k, next)
<1> DEFINE t == Append(s, row)
<1>1. /\ Len(s) \in Nat /\ s[k] \in Row
      /\ \A j \in 1 .. Len(s): t[j] = s[j]
  BY Appended
<1>2. SubSeq(t, 1, k - 1) = SubSeq(s, 1, k - 1)
  BY <1>1, Prefixes
<1>3. BriefUpTo(t, k) = BriefUpTo(s, k)
  BY <1>2 DEF BriefUpTo
<1>4. VerdictUpTo(t, k) = VerdictUpTo(s, k)
  <2>1. Rows(t, "verdict") = Rows(s, "verdict") \cup (IF row.kind = "verdict" THEN {Len(s) + 1} ELSE {})
    BY RowsAppended
  <2> HIDE DEF t
  <2>2. {j \in Rows(t, "verdict"): BriefUpTo(t, k) < j /\ j < k}
          = {j \in Rows(s, "verdict"): BriefUpTo(s, k) < j /\ j < k}
    BY <1>1, <1>3, <2>1
  <2> QED BY <2>2 DEF VerdictUpTo
<1>5. /\ BriefUpTo(s, k) # 0 => t[BriefUpTo(s, k)] = s[BriefUpTo(s, k)]
      /\ VerdictUpTo(s, k) # 0 => t[VerdictUpTo(s, k)] = s[VerdictUpTo(s, k)]
  BY <1>1, UpTo
<1>6. t[k] = s[k] /\ 1 .. rev \subseteq 1 .. next
  BY <1>1
<1>7. s[k].kind \in {"brief", "verdict", "head", "round", "close", "cancel"}
  BY <1>1, RowKinds
<1> HIDE DEF t
<1>8. ValidAt(t, k, next)
  BY <1>2, <1>3, <1>4, <1>5, <1>6, <1>7 DEF ValidAt
<1> QED BY <1>8 DEF t

\* A verdict is about the brief in force exactly when it came after that brief.
Judging(s) ==
  \A k \in Rows(s, "verdict"):
    s[k].brief < k /\ (s[k].brief = Last(s, "brief") <=> Last(s, "brief") < k)

LEMMA JudgingKept ==
  ASSUME NEW s \in Seq(Row), NEW row \in Row, Judging(s),
         row.kind = "verdict" => row.brief = Last(s, "brief")
  PROVE  Judging(Append(s, row))
<1> DEFINE t == Append(s, row)
<1>1. /\ Len(s) \in Nat /\ \A j \in 1 .. Len(s): t[j] = s[j] /\ s[j] \in Row
      /\ t[Len(s) + 1] = row
  BY Appended
<1>2. /\ Rows(t, "verdict") = Rows(s, "verdict") \cup (IF row.kind = "verdict" THEN {Len(s) + 1} ELSE {})
      /\ Last(t, "brief") = IF row.kind = "brief" THEN Len(s) + 1 ELSE Last(s, "brief")
  BY RowsAppended
<1> HIDE DEF t
<1>3. Rows(s, "verdict") \subseteq 1 .. Len(s) /\ Last(s, "brief") \in 0 .. Len(s)
  BY LastRow
<1>4. ASSUME NEW k \in Rows(s, "verdict")
      PROVE  t[k].brief < k /\ (t[k].brief = Last(t, "brief") <=> Last(t, "brief") < k)
  <2>1. s[k].brief \in Nat /\ t[k] = s[k] /\ k \in 1 .. Len(s)
    <3>1. k \in 1 .. Len(s) /\ s[k] \in Row /\ s[k].kind = "verdict"
      BY <1>1, <1>3 DEF Rows
    <3> QED BY <1>1, <3>1, RowKinds DEF VerdictRow
  <2>2. s[k].brief < k /\ (s[k].brief = Last(s, "brief") <=> Last(s, "brief") < k)
    BY DEF Judging
  <2> QED BY <1>1, <1>2, <1>3, <2>1, <2>2
<1>5. ASSUME row.kind = "verdict"
      PROVE  LET k == Len(s) + 1 IN
             t[k].brief < k /\ (t[k].brief = Last(t, "brief") <=> Last(t, "brief") < k)
  BY <1>1, <1>2, <1>3, <1>5
<1>6. Judging(t)
  BY <1>2, <1>4, <1>5 DEF Judging
<1> QED BY <1>6 DEF t

\* The reader finds before the last row what the writer saw: the whole history, its last
\* brief and the verdict on it.
LEMMA ReadBack ==
  ASSUME NEW s \in Seq(Row), NEW row \in Row, Judging(s)
  PROVE  /\ SubSeq(Append(s, row), 1, Len(s)) = s
         /\ BriefUpTo(Append(s, row), Len(s) + 1) = Last(s, "brief")
         /\ VerdictUpTo(Append(s, row), Len(s) + 1) = VerdictInForce(s)
<1> DEFINE t == Append(s, row)
           k == Len(s) + 1
<1>1. Len(s) \in Nat /\ k - 1 = Len(s)
  OBVIOUS
<1>2. SubSeq(t, 1, Len(s)) = s
  BY <1>1, Prefixes, SubSeqFull
<1>3. BriefUpTo(t, k) = Last(s, "brief")
  BY <1>1, <1>2 DEF BriefUpTo
<1>4. VerdictUpTo(t, k) = VerdictInForce(s)
  <2>1. Rows(t, "verdict") = Rows(s, "verdict") \cup (IF row.kind = "verdict" THEN {k} ELSE {})
    BY RowsAppended
  <2>2. Rows(s, "verdict") \subseteq 1 .. Len(s)
    BY LastRow
  <2> HIDE DEF t
  <2>3. {j \in Rows(t, "verdict"): Last(s, "brief") < j /\ j < k}
          = {j \in Rows(s, "verdict"): s[j].brief = Last(s, "brief")}
    <3>1. \A j \in Rows(s, "verdict"): j < k /\ (s[j].brief = Last(s, "brief") <=> Last(s, "brief") < j)
      BY <1>1, <2>2 DEF Judging
    <3> QED BY <1>1, <2>1, <3>1
  <2> QED BY <1>3, <2>3 DEF VerdictUpTo, VerdictInForce
<1> QED BY <1>2, <1>3, <1>4

LEMMA InForce ==
  ASSUME NEW s \in Seq(Row)
  PROVE  VerdictInForce(s) \in 0 .. Len(s)
<1> DEFINE given == {k \in Rows(s, "verdict"): s[k].brief = Last(s, "brief")}
<1>1. given \in SUBSET (1 .. Len(s)) /\ Len(s) \in Nat
  BY LastRow
<1>2. VerdictInForce(s) = IF given = {} THEN 0 ELSE Max(given)
  BY DEF VerdictInForce
<1> HIDE DEF given
<1>3. given # {} => Max(given) \in given
  BY <1>1, MaxOfPositions
<1>4. CASE given = {}
  BY <1>1, <1>2, <1>4
<1>5. CASE given # {}
  <2>1. VerdictInForce(s) = Max(given)
    BY <1>2, <1>5
  <2>2. VerdictInForce(s) \in 1 .. Len(s)
    BY <1>1, <1>3, <1>5, <2>1
  <2> QED BY <2>2
<1> QED BY <1>4, <1>5

-----------------------------------------------------------------------------
\* A finding is open, or some later round settled it; a closure settles the open ones.
Settled(s, k, f) == \E j \in Rows(s, "round"): j > k /\ f \in s[j].prior \ s[j].carried
Traced(s) ==
  \A k \in Rows(s, "round"): \A f \in s[k].findings: f \in OpenFindings(s) \/ Settled(s, k, f)
Disposing(s) == Last(s, "close") # 0 => s[Last(s, "close")].disposed = OpenFindings(s)

\* Nothing has ended the review yet, and nothing follows its end.
Open(s) == Rows(s, "close") = {} /\ Rows(s, "cancel") = {}
Ending(s) == Rows(s, "close") \cup Rows(s, "cancel") \subseteq {Len(s)}

Coherent(s, rev) == Ending(s) /\ AllValid(s, rev) /\ Judging(s) /\ Traced(s) /\ Disposing(s)

\* What the writer requires of a row that follows the history s.
Follows(s, row, rev) ==
  LET brief == Last(s, "brief")
      verdict == VerdictInForce(s)
  IN /\ row.kind = "brief" => row.definition \in 1 .. rev
     /\ row.kind = "verdict" =>
          brief # 0 /\ row.brief = brief /\ row.by # s[brief].by /\ verdict = 0
     /\ row.kind = "head" => brief # 0
     /\ row.kind = "round" =>
          /\ brief # 0 /\ verdict # 0 /\ s[verdict].ready /\ row.brief = brief
          /\ row.previous = Last(s, "round")
          /\ Last(s, "head") # 0 /\ row.head = LatestHead(s)
          /\ row.prior = OpenFindings(s)
          /\ row.carried = row.findings \cap row.prior
     /\ row.kind = "close" =>
          /\ row.final = Last(s, "round") /\ row.head = ReviewedHead(s)
          /\ row.disposed = OpenFindings(s)
          /\ row.newer = Unreviewed(s)
     /\ row.kind = "cancel" => brief # 0 /\ row.state = "review" /\ ~ row.attempt

LEMMA TracedKept ==
  ASSUME NEW s \in Seq(Row), NEW row \in Row, NEW rev, Traced(s), Follows(s, row, rev)
  PROVE  Traced(Append(s, row))
<1> DEFINE t == Append(s, row)
           n == Len(s) + 1
<1>1. /\ Len(s) \in Nat /\ \A j \in 1 .. Len(s): t[j] = s[j]
      /\ t[n] = row
  BY Appended
<1>2. /\ Rows(t, "round") = Rows(s, "round") \cup (IF row.kind = "round" THEN {n} ELSE {})
      /\ Last(t, "round") = IF row.kind = "round" THEN n ELSE Last(s, "round")
  BY RowsAppended
<1> HIDE DEF t
<1>3. Rows(s, "round") \subseteq 1 .. Len(s) /\ Last(s, "round") \in 0 .. Len(s)
  BY LastRow
<1>4. OpenFindings(t) = IF row.kind = "round" THEN row.findings ELSE OpenFindings(s)
  BY <1>1, <1>2, <1>3 DEF OpenFindings
<1>5. ASSUME NEW k \in Rows(s, "round"), NEW f \in s[k].findings
      PROVE  f \in OpenFindings(t) \/ Settled(t, k, f)
  <2>1. CASE Settled(s, k, f)
    <3>1. PICK j \in Rows(s, "round"): j > k /\ f \in s[j].prior \ s[j].carried
      BY <2>1 DEF Settled
    <3>2. j \in Rows(t, "round") /\ t[j] = s[j]
      BY <1>1, <1>2, <1>3
    <3> QED BY <3>1, <3>2 DEF Settled
  <2>2. CASE f \in OpenFindings(s) /\ row.kind # "round"
    BY <1>4, <2>2
  <2>3. CASE f \in OpenFindings(s) /\ row.kind = "round"
    <3>1. row.prior = OpenFindings(s) /\ row.carried = row.findings \cap row.prior
      BY <2>3 DEF Follows
    <3>2. CASE f \in row.findings
      BY <1>4, <2>3, <3>2
    <3>3. CASE f \notin row.findings
      <4>1. n \in Rows(t, "round") /\ n > k /\ f \in t[n].prior \ t[n].carried
        BY <1>1, <1>2, <1>3, <2>3, <3>1, <3>3
      <4> QED BY <4>1 DEF Settled
    <3> QED BY <3>2, <3>3
  <2> QED BY <2>1, <2>2, <2>3 DEF Traced
<1>6. ASSUME NEW k \in Rows(t, "round"), NEW f \in t[k].findings
      PROVE  f \in OpenFindings(t) \/ Settled(t, k, f)
  <2>1. CASE k \in Rows(s, "round")
    BY <1>1, <1>3, <1>5, <1>6, <2>1
  <2>2. CASE k \notin Rows(s, "round")
    BY <1>1, <1>2, <1>4, <1>6, <2>2
  <2> QED BY <2>1, <2>2
<1>7. Traced(t)
  BY <1>6 DEF Traced
<1> QED BY <1>7 DEF t

LEMMA CoherentAppended ==
  ASSUME NEW s \in Seq(Row), NEW row \in Row, NEW rev \in Nat,
         Coherent(s, rev), Open(s), Follows(s, row, rev)
  PROVE  Coherent(Append(s, row), rev)
<1> DEFINE t == Append(s, row)
           n == Len(s) + 1
<1>1. /\ t \in Seq(Row) /\ Len(s) \in Nat /\ Len(t) = n /\ DOMAIN t = 1 .. n
      /\ DOMAIN s = 1 .. Len(s) /\ \A j \in 1 .. Len(s): t[j] = s[j]
      /\ t[n] = row
  BY Appended
<1>2. Judging(t) /\ Traced(t)
  <2>1. row.kind = "verdict" => row.brief = Last(s, "brief")
    BY DEF Follows
  <2> QED BY <2>1, JudgingKept, TracedKept DEF Coherent
<1>3. Ending(t)
  <2>1. /\ Rows(t, "close") = Rows(s, "close") \cup (IF row.kind = "close" THEN {n} ELSE {})
        /\ Rows(t, "cancel") = Rows(s, "cancel") \cup (IF row.kind = "cancel" THEN {n} ELSE {})
    BY RowsAppended
  <2> QED BY <1>1, <2>1 DEF Ending, Open
<1>4. Disposing(t)
  <2>1. /\ Last(t, "close") = IF row.kind = "close" THEN n ELSE Last(s, "close")
        /\ Last(t, "round") = IF row.kind = "round" THEN n ELSE Last(s, "round")
    BY RowsAppended
  <2>2. Last(s, "close") = 0 /\ Last(s, "round") \in 0 .. Len(s)
    BY LastRow DEF Open
  <2>3. ASSUME row.kind = "close"
        PROVE  OpenFindings(t) = OpenFindings(s) /\ row.disposed = OpenFindings(s)
    BY <1>1, <2>1, <2>2, <2>3 DEF OpenFindings, Follows
  <2> HIDE DEF t
  <2> QED BY <1>1, <2>1, <2>2, <2>3 DEF Disposing
<1>5. AllValid(t, rev)
  <2>1. ASSUME NEW k \in 1 .. Len(s)
        PROVE  ValidAt(t, k, rev)
    BY <1>1, <2>1, ValidKept DEF Coherent, AllValid
  <2>2. ValidAt(t, n, rev)
    <3>1. /\ n - 1 = Len(s)
          /\ SubSeq(t, 1, Len(s)) = s
          /\ BriefUpTo(t, n) = Last(s, "brief") /\ VerdictUpTo(t, n) = VerdictInForce(s)
      BY <1>1, ReadBack DEF Coherent
    <3>2. SubSeq(t, 1, n - 1) = s
      BY <3>1
    <3>3. /\ Last(s, "brief") # 0 => t[Last(s, "brief")] = s[Last(s, "brief")]
          /\ VerdictInForce(s) # 0 => t[VerdictInForce(s)] = s[VerdictInForce(s)]
      <4>1. Last(s, "brief") \in 0 .. Len(s) /\ VerdictInForce(s) \in 0 .. Len(s)
        BY LastRow, InForce
      <4> QED BY <1>1, <4>1
    <3>4. row.kind \in {"brief", "verdict", "head", "round", "close", "cancel"}
      BY RowKinds
    <3> HIDE DEF t, n
    <3>5. CASE row.kind \in {"brief", "head"}
      BY <1>1, <3>1, <3>2, <3>5 DEF ValidAt, Follows
    <3>6. CASE row.kind = "verdict"
      <4>1. /\ Last(s, "brief") # 0 /\ row.brief = Last(s, "brief")
            /\ row.by # t[Last(s, "brief")].by /\ VerdictInForce(s) = 0
        BY <3>3, <3>6 DEF Follows
      <4> QED BY <1>1, <3>1, <3>6, <4>1 DEF ValidAt
    <3>9. CASE row.kind = "cancel"
      <4>1. Last(s, "brief") # 0 /\ row.state = "review" /\ ~ row.attempt
        BY <3>9 DEF Follows
      <4> QED BY <1>1, <3>1, <3>9, <4>1 DEF ValidAt
    <3>7. CASE row.kind = "round"
      BY <1>1, <3>1, <3>2, <3>3, <3>7 DEF ValidAt, Follows
    <3>8. CASE row.kind = "close"
      BY <1>1, <3>1, <3>2, <3>8 DEF ValidAt, Follows
    <3> QED BY <3>4, <3>5, <3>6, <3>7, <3>8, <3>9
  <2>3. 1 .. n = (1 .. Len(s)) \cup {n}
    BY <1>1
  <2> HIDE DEF n
  <2> QED BY <1>1, <2>1, <2>2, <2>3 DEF AllValid
<1> QED BY <1>2, <1>3, <1>4, <1>5 DEF Coherent

\* Where an open history leads with one more row.
LEMMA StateAppended ==
  ASSUME NEW s \in Seq(Row), NEW row \in Row, Open(s)
  PROVE  StateOfHistory(Append(s, row)) =
           IF row.kind = "close" THEN row.outcome
           ELSE IF row.kind = "cancel" THEN "dropped" ELSE "review"
<1> DEFINE t == Append(s, row)
           n == Len(s) + 1
<1>1. Len(s) \in Nat /\ t[n] = row
  BY Appended
<1>2. /\ Last(t, "close") = IF row.kind = "close" THEN n ELSE 0
      /\ Last(t, "cancel") = IF row.kind = "cancel" THEN n ELSE 0
  BY RowsAppended DEF Open, Last
<1> HIDE DEF t
<1>3. StateOfHistory(t) = IF row.kind = "close" THEN row.outcome
           ELSE IF row.kind = "cancel" THEN "dropped" ELSE "review"
  BY <1>1, <1>2 DEF StateOfHistory
<1> QED BY <1>3 DEF t

\* A history that leads to review is open.
LEMMA ReviewOpen ==
  ASSUME NEW s \in Seq(Row), StateOfHistory(s) = "review"
  PROVE  Open(s)
<1>1. CASE Rows(s, "close") # {}
  <2>1. Last(s, "close") # 0 /\ Last(s, "close") \in Rows(s, "close")
    BY <1>1, LastRow
  <2>2. s[Last(s, "close")] \in Row /\ s[Last(s, "close")].kind = "close"
    BY <2>1, LastRow DEF Rows
  <2>3. s[Last(s, "close")].outcome \in {"done", "dropped"}
    BY <2>2, RowKinds DEF CloseRow
  <2> QED BY <2>1, <2>3 DEF StateOfHistory
<1>2. CASE Rows(s, "close") = {} /\ Rows(s, "cancel") # {}
  BY <1>2, LastRow DEF StateOfHistory
<1> QED BY <1>1, <1>2 DEF Open

LEMMA EmptyHistory ==
  ASSUME NEW rev
  PROVE  /\ Coherent(<<>>, rev) /\ Open(<<>>) /\ \A kind: Rows(<<>>, kind) = {}
<1>1. \A kind: Rows(<<>>, kind) = {}
  BY DEF Rows
<1> QED BY <1>1 DEF Coherent, Open, Ending, AllValid, Judging, Traced, Disposing, Last

LEMMA FactsTyped ==
  ASSUME NEW s \in Seq(Row)
  PROVE  /\ LatestHead(s) \in HeadOrNone /\ ReviewedHead(s) \in HeadOrNone
         /\ Unreviewed(s) \in HeadOrNone /\ OpenFindings(s) \in SUBSET Findings
         /\ LatestHead(s) # NoHead => Last(s, "head") # 0
<1>1. Last(s, "head") # 0 => s[Last(s, "head")] \in HeadRow
  <2>1. Last(s, "head") # 0 => Last(s, "head") \in Rows(s, "head") /\ Last(s, "head") \in 1 .. Len(s)
    BY LastRow
  <2> QED BY <2>1, RowKinds DEF Rows
<1>2. Last(s, "round") # 0 => s[Last(s, "round")] \in RoundRow
  <2>1. Last(s, "round") # 0 => Last(s, "round") \in Rows(s, "round") /\ Last(s, "round") \in 1 .. Len(s)
    BY LastRow
  <2> QED BY <2>1, RowKinds DEF Rows
<1> QED BY <1>1, <1>2 DEF LatestHead, ReviewedHead, Unreviewed, OpenFindings, HeadOrNone, HeadRow,
     RoundRow

-----------------------------------------------------------------------------
PrTyped ==
  /\ TypeOK
  /\ \A i \in Items: definition[i].rev >= 1
  /\ evidence \in [Items -> Seq(Row)]
  /\ classified \in [Items -> BOOLEAN]

\* An item without a review: its attempt fits its state, and the one row that it may have
\* is its cancellation.
Plain(i) ==
  /\ Fits(i)
  /\ evidence[i] # <<>> => item[i].state = "dropped"
  /\ \A k \in DOMAIN evidence[i]: evidence[i][k].kind = "cancel"

\* An item with a review: it never has an attempt, and its history is coherent and leads to
\* the state that it is in.
UnderReview(i) ==
  /\ attempt[i].state = "none"
  /\ Coherent(evidence[i], definition[i].rev)
  /\ item[i].state = StateOfHistory(evidence[i])

Trail(i) == IF Rows(evidence[i], "brief") = {} THEN Plain(i) ELSE UnderReview(i)

PrInv == PrTyped /\ \A i \in Items: Trail(i)

LEMMA InReviewMeans ==
  ASSUME PrTyped, NEW i \in Items, Trail(i), InReview(i)
  PROVE  UnderReview(i) /\ Open(evidence[i]) /\ Last(evidence[i], "brief") # 0
<1>1. evidence[i] \in Seq(Row)
  BY DEF PrTyped
<1>2. UnderReview(i) /\ item[i].state = "review"
  BY DEF InReview, Trail
<1>3. Open(evidence[i])
  BY <1>1, <1>2, ReviewOpen DEF UnderReview
<1>4. Last(evidence[i], "brief") # 0
  BY <1>1, LastRow DEF InReview
<1> QED BY <1>2, <1>3, <1>4

\* What a review's own transaction writes: one row that may follow, and the state that the
\* history then leads to.
Writes(i, row) ==
  /\ row \in Row
  /\ evidence' = [evidence EXCEPT ![i] = Append(evidence[i], row)]
  /\ UNCHANGED <<definition, attempt, attemptLease, preparationLease, replacement, accepted, classified>>
  /\ item' \in [Items -> Item] /\ \A j \in Items \ {i}: item'[j] = item[j]
  /\ (FirstBrief(i) /\ row.kind = "brief") \/ InReview(i)
  /\ row.kind # "cancel"
  /\ item'[i].state = IF row.kind = "close" THEN row.outcome ELSE "review"
  /\ Follows(evidence[i], row, definition[i].rev)

LEMMA AdvanceItemTyped ==
  ASSUME TypeOK, NEW i \in Items, AdvanceItem(i)
  PROVE  /\ item' \in [Items -> Item] /\ \A j \in Items \ {i}: item'[j] = item[j]
         /\ item'[i].state = item[i].state
<1>1. NextRevision \in Nat /\ item[i] \in Item
  BY DEF TypeOK, NextRevision
<1>2. [item[i] EXCEPT !.rev = NextRevision] \in Item
  BY <1>1 DEF Item
<1> QED BY <1>1, <1>2 DEF TypeOK, AdvanceItem, Item

LEMMA ReviewWrites ==
  ASSUME PrTyped, NEW r \in Readings, Trail(r.subject), PrReviewNext(r)
  PROVE  /\ \E t \in RequestTimes(r): Commit(t)
         /\ \E row: Writes(r.subject, row)
<1> DEFINE i == r.subject
           s == evidence[i]
<1>1. /\ i \in Items /\ TypeOK /\ s \in Seq(Row)
      /\ definition[i].rev \in Nat /\ definition[i].rev \in 1 .. definition[i].rev
  <2>1. i \in Items /\ TypeOK
    BY ReadingTyped DEF PrTyped
  <2>2. definition[i] \in Definition
    BY <2>1 DEF TypeOK
  <2> QED BY <2>1, <2>2 DEF PrTyped, Definition
<1>2. InReview(i) => Last(s, "brief") # 0 /\ item[i].state = "review"
  BY <1>1, InReviewMeans DEF InReview
<1>3. Last(s, "brief") \in Nat /\ Last(s, "round") \in Nat
  BY <1>1, LastRow
\* Each of the five actions names its row and what it does to the item.
<1>4. ASSUME NEW row \in Row, NEW kind, Record(r, kind, row), row.kind # "cancel",
             (FirstBrief(i) /\ row.kind = "brief") \/ InReview(i),
             \/ AdvanceItem(i) /\ InReview(i) /\ row.kind # "close"
             \/ SetItemState(i, "review") /\ row.kind # "close"
             \/ row.kind = "close" /\ SetItemState(i, row.outcome),
             Follows(s, row, definition[i].rev)
      PROVE  (\E t \in RequestTimes(r): Commit(t)) /\ Writes(i, row)
  <2>1. evidence' = [evidence EXCEPT ![i] = Append(s, row)]
    BY <1>4 DEF Record, PrTyped
  <2>2. row.kind = "close" => row.outcome \in {"done", "dropped"}
    BY RowKinds DEF CloseRow
  <2>3. /\ item' \in [Items -> Item] /\ \A j \in Items \ {i}: item'[j] = item[j]
        /\ item'[i].state = IF row.kind = "close" THEN row.outcome ELSE "review"
    <3>1. ASSUME NEW to \in LiveStates \cup TerminalStates, SetItemState(i, to)
          PROVE  /\ item' \in [Items -> Item] /\ \A j \in Items \ {i}: item'[j] = item[j]
                 /\ item'[i].state = to
      BY <1>1, <3>1, SetItemStateTyped, SetItemStateEffect
    <3>2. CASE AdvanceItem(i) /\ InReview(i) /\ row.kind # "close"
      BY <1>1, <1>2, <3>2, AdvanceItemTyped
    <3>3. CASE SetItemState(i, "review") /\ row.kind # "close"
      BY <3>1, <3>3 DEF LiveStates
    <3>4. CASE row.kind = "close" /\ SetItemState(i, row.outcome)
      BY <2>2, <3>1, <3>4 DEF TerminalStates
    <3> QED BY <1>4, <3>2, <3>3, <3>4
  <2> QED BY <1>4, <2>1, <2>3 DEF Record, Writes
<1>5. ASSUME NEW task \in Tasks, StartPrReview(r, task)
      PROVE  (\E t \in RequestTimes(r): Commit(t)) /\ \E row: Writes(i, row)
  <2> DEFINE row == Brief(definition[i].rev, task)
  <2>1. row \in Row /\ row.kind = "brief" /\ row.definition = definition[i].rev
    BY <1>1 DEF Brief, Row, BriefRow
  <2>2. /\ FirstBrief(i) \/ InReview(i)
        /\ Record(r, "start-pr-review", row) /\ SetItemState(i, "review")
    BY <1>5 DEF StartPrReview, RevisedBrief
  <2>3. Follows(s, row, definition[i].rev)
    BY <1>1, <2>1 DEF Follows
  <2> QED BY <1>4, <2>1, <2>2, <2>3
<1>6. ASSUME NEW task \in Tasks, NEW ready \in BOOLEAN, ReviewPrBrief(r, task, ready)
      PROVE  (\E t \in RequestTimes(r): Commit(t)) /\ \E row: Writes(i, row)
  <2> DEFINE row == Verdict(Last(s, "brief"), ready, task)
  <2>1. row \in Row /\ row.kind = "verdict" /\ row.brief = Last(s, "brief") /\ row.by = task
    BY <1>3 DEF Verdict, Row, VerdictRow
  <2>2. AcceptsVerdict(i, task) /\ InReview(i) /\ Record(r, "review-pr-brief", row) /\ AdvanceItem(i)
    BY <1>6 DEF ReviewPrBrief, AcceptsVerdict
  <2>3. Follows(s, row, definition[i].rev)
    BY <1>2, <2>1, <2>2 DEF Follows, AcceptsVerdict
  <2> QED BY <1>4, <2>1, <2>2, <2>3
<1>7. ASSUME NEW head \in Heads, ObservePrHead(r, head)
      PROVE  (\E t \in RequestTimes(r): Commit(t)) /\ \E row: Writes(i, row)
  <2> DEFINE row == Observation(head)
  <2>1. row \in Row /\ row.kind = "head"
    BY DEF Observation, Row, HeadRow
  <2>2. InReview(i) /\ Record(r, "observe-pr-head", row) /\ AdvanceItem(i)
    BY <1>7 DEF ObservePrHead
  <2>3. Follows(s, row, definition[i].rev)
    BY <1>2, <2>1, <2>2 DEF Follows
  <2> QED BY <1>4, <2>1, <2>2, <2>3
<1>8. ASSUME NEW findings \in SUBSET Findings, NEW prior \in SUBSET Findings,
             NEW carried \in SUBSET Findings, RecordPrRound(r, findings, prior, carried)
      PROVE  (\E t \in RequestTimes(r): Commit(t)) /\ \E row: Writes(i, row)
  <2> DEFINE row == Round(Last(s, "brief"), Last(s, "round"), LatestHead(s), findings, prior, carried)
  <2>1. /\ row \in Row /\ row.kind = "round" /\ row.brief = Last(s, "brief")
        /\ row.previous = Last(s, "round") /\ row.head = LatestHead(s)
        /\ row.findings = findings /\ row.prior = prior /\ row.carried = carried
    <3>1. LatestHead(s) \in HeadOrNone
      BY <1>1, FactsTyped
    <3> QED BY <1>3, <3>1 DEF Round, Row, RoundRow
  <2>2. /\ AcceptsRound(i, LatestHead(s)) /\ InReview(i) /\ Disposes(s, findings, prior, carried)
        /\ Record(r, "record-pr-round", row) /\ AdvanceItem(i)
    BY <1>8 DEF RecordPrRound, AcceptsRound
  <2>3. /\ Last(s, "head") # 0 /\ VerdictInForce(s) # 0 /\ s[VerdictInForce(s)].ready
        /\ prior = OpenFindings(s) /\ carried = findings \cap prior
    BY <1>1, <2>2, FactsTyped DEF AcceptsRound, Judged, Disposes
  <2> HIDE DEF row
  <2>4. Follows(s, row, definition[i].rev)
    BY <1>2, <2>1, <2>2, <2>3 DEF Follows
  <2> QED BY <1>4, <2>1, <2>2, <2>4
<1>9. ASSUME NEW outcome \in {"done", "dropped"}, ClosePrReview(r, outcome)
      PROVE  (\E t \in RequestTimes(r): Commit(t)) /\ \E row: Writes(i, row)
  <2> DEFINE row == Closing(Last(s, "round"), ReviewedHead(s), Unreviewed(s), OpenFindings(s), outcome)
  <2>1. /\ row \in Row /\ row.kind = "close" /\ row.final = Last(s, "round")
        /\ row.head = ReviewedHead(s) /\ row.newer = Unreviewed(s)
        /\ row.disposed = OpenFindings(s) /\ row.outcome = outcome
    <3>1. /\ ReviewedHead(s) \in HeadOrNone /\ Unreviewed(s) \in HeadOrNone
          /\ OpenFindings(s) \in SUBSET Findings
      BY <1>1, FactsTyped
    <3> QED BY <1>3, <3>1 DEF Closing, Row, CloseRow
  <2>2. InReview(i) /\ Record(r, "close-pr-review", row) /\ SetItemState(i, outcome)
    BY <1>9 DEF ClosePrReview
  <2> HIDE DEF row
  <2>3. Follows(s, row, definition[i].rev)
    BY <2>1 DEF Follows
  <2> QED BY <1>4, <2>1, <2>2, <2>3
<1> QED BY <1>5, <1>6, <1>7, <1>8, <1>9 DEF PrReviewNext

\* The history that a review writes is coherent, and leads where the item goes.
LEMMA WrittenTrail ==
  ASSUME PrTyped, NEW i \in Items, Trail(i), NEW row, Writes(i, row)
  PROVE  Trail(i)'
<1>1. PICK s \in Seq(Row): s = evidence[i]
  BY DEF PrTyped
<1>2. PICK rev \in Nat: rev = definition[i].rev
  BY DEF PrTyped, TypeOK, Definition
<1>3. row \in Row /\ row.kind # "cancel" /\ Follows(s, row, rev)
  BY <1>1, <1>2 DEF Writes
<1>4. /\ Coherent(s, rev) /\ Open(s) /\ attempt[i].state = "none"
      /\ row.kind = "brief" \/ Rows(s, "brief") # {}
  <2>1. CASE FirstBrief(i) /\ row.kind = "brief"
    <3>1. s = <<>> /\ attempt[i].state = "none"
      BY <1>1, <2>1 DEF FirstBrief, Trail, Plain
    <3> QED BY <2>1, <3>1, EmptyHistory
  <2>2. CASE InReview(i)
    BY <1>1, <1>2, <2>2, InReviewMeans DEF UnderReview, InReview
  <2> QED BY <2>1, <2>2 DEF Writes
<1>5. PICK t: t = Append(s, row)
  OBVIOUS
<1>6. Coherent(t, rev)
  BY <1>3, <1>4, <1>5, CoherentAppended
<1>7. StateOfHistory(t) = IF row.kind = "close" THEN row.outcome ELSE "review"
  BY <1>1, <1>3, <1>4, <1>5, StateAppended
<1>8. Rows(t, "brief") # {}
  <2>1. Rows(t, "brief") = Rows(s, "brief") \cup (IF row.kind = "brief" THEN {Len(s) + 1} ELSE {})
    BY <1>3, <1>5, RowsAppended
  <2> QED BY <1>4, <2>1
<1>9. /\ evidence'[i] = t /\ definition'[i].rev = rev /\ attempt'[i].state = "none"
      /\ item'[i].state = StateOfHistory(t)
  BY <1>1, <1>2, <1>4, <1>5, <1>7 DEF Writes, PrTyped
<1> QED BY <1>6, <1>8, <1>9 DEF Trail, UnderReview

LEMMA ReviewStep ==
  ASSUME PrInv, NEW r \in Readings, PrReviewNext(r)
  PROVE  PrInv'
<1> DEFINE i == r.subject
<1>1. i \in Items /\ r.at \in 0 .. clock /\ TypeOK /\ clock \in Nat
  BY ReadingTyped DEF PrInv, PrTyped, TypeOK
<1>2. (\E t \in RequestTimes(r): Commit(t)) /\ (\E row: Writes(i, row))
  BY <1>1, ReviewWrites DEF PrInv
<1>3. PICK row: Writes(i, row)
  BY <1>2
<1>4. TypeOK'
  <2>1. PICK t \in RequestTimes(r): Commit(t)
    BY <1>2
  <2>2. t \in Nat
    BY <1>1 DEF RequestTimes
  <2>3. /\ item' \in [Items -> Item]
        /\ UNCHANGED <<definition, attempt, attemptLease, preparationLease, replacement, accepted>>
    BY <1>3 DEF Writes
  <2> QED BY <1>1, <2>1, <2>2, <2>3, CommitTyped DEF TypeOK
<1>5. evidence' \in [Items -> Seq(Row)]
  BY <1>1, <1>3, Appended DEF Writes, PrInv, PrTyped
<1>6. PrTyped'
  BY <1>3, <1>4, <1>5 DEF Writes, PrInv, PrTyped
<1>7. ASSUME NEW j \in Items \ {i}
      PROVE  Trail(j)'
  <2>1. Trail(j)
    BY DEF PrInv
  <2>2. /\ evidence'[j] = evidence[j] /\ item'[j] = item[j] /\ definition'[j] = definition[j]
        /\ attempt'[j] = attempt[j]
    BY <1>1, <1>3 DEF Writes, PrInv, PrTyped
  <2> QED BY <2>1, <2>2 DEF Trail, Plain, UnderReview, Fits
<1>8. Trail(i)'
  BY <1>1, <1>3, WrittenTrail DEF PrInv
<1> QED BY <1>6, <1>7, <1>8 DEF PrInv
-----------------------------------------------------------------------------
\* What the rest of the board does to an item under review.
LEMMA DefinitionGrows ==
  ASSUME TypeOK, [Next]_vars, NEW i \in Items
  PROVE  definition'[i].rev \in Nat /\ definition'[i].rev >= definition[i].rev
<1>1. ASSUME NEW r \in Readings, ItemDecisionsNext(r)
      PROVE  \/ UNCHANGED definition
             \/ \E j \in Items, new \in SUBSET Dependency:
                  definition' = [definition EXCEPT ![j] = [rev |-> @.rev + 1, deps |-> new]]
  BY <1>1, ReadingTyped DEF ItemDecisionsNext, MoveUnstarted, ResumeItem, BlockItem, Defer, Reopen,
     CloseDone, CloseSuperseded, RecordReplacement, RetainTemporarily, Cancel, Revise
<1>2. ASSUME NEW r \in Readings, PreparationNext(r) \/ AttemptAuthorityNext(r)
      PROVE  UNCHANGED definition
  BY <1>2 DEF PreparationNext, StartPreparation, RenewPreparation, ReleasePreparation,
     RevokePreparation, Activate, AttemptAuthorityNext, AcquireAttempt, RenewAttempt,
     ReleaseAttempt, RevokeAttempt
<1>3. ASSUME NEW r \in Readings, AttemptLifecycleNext(r)
      PROVE  UNCHANGED definition
  BY <1>3 DEF AttemptLifecycleNext, Pause, BlockAttempt, ResumeAttempt, RebindAttempt,
     SubmitReview, ReturnForCorrection, AcceptCheckpoint, AcceptReviewAndContinue, Complete
<1>4. ASSUME Tick \/ (\E j \in Items: Read(j)) \/ (\E r \in readings: Forget(r)) \/ UNCHANGED vars
      PROVE  UNCHANGED definition
  BY <1>4 DEF Tick, Read, Forget, ledger, vars
<1>5. definition \in [Items -> Definition] /\ \A j \in Items: definition[j].rev \in Nat
  BY DEF TypeOK, Definition
<1>6. CASE UNCHANGED definition
  BY <1>5, <1>6
<1>7. ASSUME NEW j \in Items, NEW new \in SUBSET Dependency,
             definition' = [definition EXCEPT ![j] = [rev |-> @.rev + 1, deps |-> new]]
      PROVE  definition'[i].rev \in Nat /\ definition'[i].rev >= definition[i].rev
  <2>1. CASE i = j
    BY <1>5, <1>7, <2>1
  <2>2. CASE i # j
    BY <1>5, <1>7, <2>2
  <2> QED BY <2>1, <2>2
<1> QED BY <1>1, <1>2, <1>3, <1>4, <1>6, <1>7 DEF Next

\* Of an item under review without an attempt, the board can only revise the definition,
\* or drop the item.
LEMMA StepInReview ==
  ASSUME TypeOK, [Next]_vars, NEW i \in Items, item[i].state = "review", attempt[i].state = "none"
  PROVE  attempt'[i].state = "none" /\ item'[i].state \in {"review", "dropped"}
<1> DEFINE Stays == attempt'[i].state = "none" /\ item'[i].state \in {"review", "dropped"}
<1>1. ~ HasAttempt(i) /\ item \in [Items -> Item] /\ attempt \in [Items -> Attempt]
  BY DEF HasAttempt, OpenAttemptStates, TypeOK
<1>2. \A kind \in Offers(i): kind \in {"cancel", "revise-item"}
  BY <1>1 DEF Offers, WorkerOffers, PreparerOffers, ProjectOffers, TerminalStates
<1>3. ASSUME NEW j \in Items, j # i, Stamps(j)
      PROVE  Stays
  BY <1>3 DEF Stamps, SameDecisions, SameFacts
<1>4. ASSUME NEW r \in Readings, r.subject = i, PreparationNext(r)
      PROVE  Stays
  <2>1. ~ Activate(r)
    BY <1>2, <1>4 DEF Activate, Selected
  <2>2. UNCHANGED <<item, attempt>>
    BY <1>4, <2>1 DEF PreparationNext, StartPreparation, RenewPreparation, ReleasePreparation,
       RevokePreparation
  <2> QED BY <2>2
<1>5. ASSUME NEW r \in Readings, r.subject = i, AttemptAuthorityNext(r)
      PROVE  Stays
  BY <1>5 DEF AttemptAuthorityNext, AcquireAttempt, RenewAttempt, ReleaseAttempt, RevokeAttempt
<1>6. ASSUME NEW r \in Readings, r.subject = i, AttemptLifecycleNext(r)
      PROVE  Stays
  BY <1>1, <1>2, <1>6 DEF AttemptLifecycleNext, Pause, BlockAttempt, ResumeAttempt, RebindAttempt,
     SubmitReview, ReturnForCorrection, AcceptCheckpoint, AcceptReviewAndContinue, Complete, Reviewed,
     Selected
<1>7. ASSUME NEW r \in Readings, r.subject = i, ItemDecisionsNext(r)
      PROVE  Stays
  <2>1. CASE \E t \in RequestTimes(r): Cancel(r, t)
    BY <1>1, <1>7, <2>1 DEF Cancel, SetItemState
  <2>2. CASE \E new \in SUBSET Dependency: Revise(r, new)
    BY <1>1, <1>7, <2>2 DEF Revise, AdvanceItem, Item
  <2>3. CASE CloseSuperseded(r)
    BY <1>7, <2>3 DEF CloseSuperseded
  <2>4. ASSUME NEW kind, Selected(r, kind), kind \notin {"cancel", "revise-item"}
        PROVE  FALSE
    BY <1>2, <1>7, <2>4 DEF Selected
  <2>5. ~ (ResumeItem(r) \/ BlockItem(r) \/ Defer(r) \/ Reopen(r) \/ CloseDone(r))
    BY <2>4 DEF ResumeItem, BlockItem, Defer, Reopen, CloseDone, MoveUnstarted
  <2>6. ~ (RetainTemporarily(r) \/ \E by \in Items, status \in {"current", "withdrawn"}:
                                     RecordReplacement(r, by, status))
    BY <2>4 DEF RetainTemporarily, RecordReplacement
  <2> QED BY <1>7, <2>1, <2>2, <2>3, <2>5, <2>6 DEF ItemDecisionsNext
<1>8. ASSUME Tick \/ (\E j \in Items: Read(j)) \/ (\E r \in readings: Forget(r)) \/ UNCHANGED vars
      PROVE  Stays
  BY <1>8 DEF Tick, Read, Forget, ledger, vars
<1>9. ASSUME NEW r \in Readings,
             PreparationNext(r) \/ AttemptAuthorityNext(r) \/ AttemptLifecycleNext(r) \/ ItemDecisionsNext(r)
      PROVE  Stays
  <2>1. r.subject \in Items /\ Stamps(r.subject)
    BY <1>9, ReadingTyped, PreparationStamps, AttemptAuthorityStamps, AttemptLifecycleStamps,
       ItemDecisionsStamp
  <2> HIDE DEF Stays
  <2> QED BY <1>3, <1>4, <1>5, <1>6, <1>7, <1>9, <2>1
<1> QED BY <1>8, <1>9 DEF Next
-----------------------------------------------------------------------------
\* A later definition invalidates no row.
LEMMA CoherentRises ==
  ASSUME NEW s \in Seq(Row), NEW rev \in Nat, NEW next \in Nat, rev <= next, Coherent(s, rev)
  PROVE  Coherent(s, next)
<1>1. \A k \in DOMAIN s: s[k] \in Row
  OBVIOUS
<1>2. ASSUME NEW k \in DOMAIN s
      PROVE  ValidAt(s, k, next)
  <2>1. ValidAt(s, k, rev) /\ 1 .. rev \subseteq 1 .. next
    BY DEF Coherent, AllValid
  <2>2. CASE s[k].kind = "brief"
    BY <2>1, <2>2 DEF ValidAt
  <2>3. CASE s[k].kind # "brief"
    <3>1. s[k].kind \in {"verdict", "head", "round", "close", "cancel"}
      BY <1>1, <2>3, RowKinds
    <3> QED BY <2>1, <3>1 DEF ValidAt
  <2> QED BY <2>2, <2>3
<1> QED BY <1>2 DEF Coherent, AllValid

LEMMA StatesOfHistory ==
  ASSUME NEW s \in Seq(Row)
  PROVE  StateOfHistory(s) \in {"review", "done", "dropped"}
<1>1. ASSUME Last(s, "close") # 0
      PROVE  s[Last(s, "close")].outcome \in {"done", "dropped"}
  <2>1. Last(s, "close") \in Rows(s, "close") /\ Last(s, "close") \in 1 .. Len(s)
    BY <1>1, LastRow
  <2>2. s[Last(s, "close")] \in Row /\ s[Last(s, "close")].kind = "close"
    BY <2>1 DEF Rows
  <2> QED BY <2>2, RowKinds DEF CloseRow
<1> QED BY <1>1 DEF StateOfHistory

Drops(i) == item[i].state # "dropped" /\ item'[i].state = "dropped"

LEMMA BoardTrail ==
  ASSUME PrTyped, NEW i \in Items, Trail(i), [Next]_vars,
         evidence'[i] = IF Drops(i) THEN Append(evidence[i], Cancellation(i)) ELSE evidence[i]
  PROVE  Trail(i)' /\ evidence'[i] \in Seq(Row)
<1>1. PICK s \in Seq(Row): s = evidence[i]
  BY DEF PrTyped
<1>2. PICK rev \in Nat: rev = definition[i].rev
  BY DEF PrTyped, TypeOK, Definition
<1>3. PICK next \in Nat: next = definition'[i].rev /\ rev <= next
  BY <1>2, DefinitionGrows DEF PrTyped
<1>4. PICK row: row = Cancellation(i)
  OBVIOUS
<1>5. /\ row \in Row /\ row.kind = "cancel" /\ row.state = item[i].state
      /\ row.attempt <=> HasAttempt(i)
  <2>1. item[i].state \in LiveStates \cup TerminalStates /\ HasAttempt(i) \in BOOLEAN
    BY DEF PrTyped, TypeOK, Item, HasAttempt
  <2> QED BY <1>4, <2>1 DEF Cancellation, Row, CancelRow
<1>6. PICK t \in Seq(Row): t = Append(s, row)
  BY <1>1, <1>5, Appended
<1>7. evidence'[i] = IF Drops(i) THEN t ELSE s
  BY <1>1, <1>4, <1>6
\* An item that ended before has all it ever gets.
<1>8. item[i].state \in TerminalStates => ~ Drops(i) /\ item'[i] = item[i] /\ attempt'[i] = attempt[i]
  BY StepKeepsTerminal DEF PrTyped, SameDecisions, SameFacts, Drops
<1>9. CASE Rows(s, "brief") = {}
  <2>1. Plain(i) /\ Fits(i)'
    BY <1>1, <1>9, StepFits DEF Trail, Plain, PrTyped
  <2>2. CASE Drops(i)
    <3>1. s = <<>>
      BY <1>1, <2>1, <2>2 DEF Plain, Drops
    <3>2. DOMAIN t = 1 .. 1 /\ t[1] = row
      BY <1>6, <3>1
    <3>3. \A k \in DOMAIN t: t[k].kind = "cancel"
      BY <1>5, <3>2
    <3>4. Rows(t, "brief") = {}
      BY <3>3 DEF Rows
    <3> QED BY <1>7, <2>1, <2>2, <3>3, <3>4 DEF Trail, Plain, Drops
  <2>3. CASE ~ Drops(i)
    <3>1. evidence'[i] = s
      BY <1>7, <2>3
    <3>2. s # <<>> => item'[i].state = "dropped"
      BY <1>1, <1>8, <2>1 DEF Plain, TerminalStates
    <3> QED BY <1>1, <1>9, <2>1, <3>1, <3>2 DEF Trail, Plain
  <2> QED BY <2>2, <2>3
<1>10. CASE Rows(s, "brief") # {}
  <2>1. /\ attempt[i].state = "none" /\ Coherent(s, next) /\ item[i].state = StateOfHistory(s)
    BY <1>1, <1>2, <1>3, <1>10, CoherentRises DEF Trail, UnderReview
  <2>2. CASE item[i].state # "review"
    <3>1. item[i].state \in TerminalStates
      BY <2>1, <2>2, StatesOfHistory DEF TerminalStates
    <3>2. evidence'[i] = s /\ item'[i].state = StateOfHistory(s) /\ attempt'[i].state = "none"
      BY <1>7, <1>8, <2>1, <3>1
    <3> QED BY <1>3, <1>10, <2>1, <3>2 DEF Trail, UnderReview
  <2>3. CASE item[i].state = "review"
    <3>1. attempt'[i].state = "none" /\ item'[i].state \in {"review", "dropped"}
      BY <2>1, <2>3, StepInReview DEF PrTyped
    <3>2. Open(s) /\ Last(s, "brief") # 0
      BY <1>10, <2>1, <2>3, ReviewOpen, LastRow
    <3>3. CASE item'[i].state = "review"
      <4>1. evidence'[i] = s
        BY <1>7, <3>3 DEF Drops
      <4> QED BY <1>3, <1>10, <2>1, <2>3, <3>1, <3>3, <4>1 DEF Trail, UnderReview
    <3>4. CASE item'[i].state = "dropped"
      <4>1. evidence'[i] = t
        BY <1>7, <2>3, <3>4 DEF Drops
      <4>2. ~ row.attempt /\ row.state = "review"
        BY <1>5, <2>1, <2>3 DEF HasAttempt, OpenAttemptStates
      <4>3. Follows(s, row, next)
        BY <1>5, <3>2, <4>2 DEF Follows
      <4>4. Coherent(t, next) /\ StateOfHistory(t) = "dropped"
        BY <1>5, <1>6, <2>1, <3>2, <4>3, CoherentAppended, StateAppended
      <4>5. Rows(t, "brief") # {}
        <5>1. Rows(t, "brief") = Rows(s, "brief") \cup (IF row.kind = "brief" THEN {Len(s) + 1} ELSE {})
          BY <1>5, <1>6, RowsAppended
        <5> QED BY <1>10, <5>1
      <4> QED BY <1>3, <3>1, <3>4, <4>1, <4>4, <4>5 DEF Trail, UnderReview
    <3> QED BY <3>1, <3>3, <3>4
  <2> QED BY <2>2, <2>3
<1>11. evidence'[i] \in Seq(Row)
  BY <1>7
<1> QED BY <1>9, <1>10, <1>11

LEMMA BoardStep ==
  ASSUME PrInv, BoardNext
  PROVE  PrInv'
<1>1. TypeOK /\ [Next]_vars /\ TypeOK'
  BY NextTyped DEF PrInv, PrTyped, BoardNext
<1>2. evidence' = [i \in Items |-> IF Drops(i) THEN Append(evidence[i], Cancellation(i)) ELSE evidence[i]]
  BY DEF BoardNext, Drops
<1>3. \A i \in Items: evidence'[i] = IF Drops(i) THEN Append(evidence[i], Cancellation(i)) ELSE evidence[i]
  BY <1>2
<1>4. \A i \in Items: Trail(i)' /\ evidence'[i] \in Seq(Row)
  BY <1>1, <1>3, BoardTrail DEF PrInv
<1>5. evidence' \in [Items -> Seq(Row)]
  BY <1>2, <1>3, <1>4
<1>6. \A i \in Items: definition'[i].rev >= 1
  <2>1. ASSUME NEW i \in Items
        PROVE  definition'[i].rev >= 1
    <3>1. definition[i].rev \in Nat /\ definition[i].rev >= 1
      BY DEF PrInv, PrTyped, TypeOK, Definition
    <3>2. definition'[i].rev \in Nat /\ definition'[i].rev >= definition[i].rev
      BY <1>1, DefinitionGrows
    <3> QED BY <3>1, <3>2
  <2> QED BY <2>1
<1> QED BY <1>1, <1>4, <1>5, <1>6 DEF PrInv, PrTyped, BoardNext

LEMMA PrNextInv ==
  ASSUME PrInv, [PrNext]_prVars
  PROVE  PrInv'
<1>1. CASE UNCHANGED prVars
  BY <1>1 DEF prVars, vars, PrInv, PrTyped, TypeOK, Trail, Plain, UnderReview, Fits
<1> QED BY <1>1, ReviewStep, BoardStep DEF PrNext

LEMMA PrAlways == PrSpec => []PrInv
<1>1. PrInit => PrInv
  <2> SUFFICES ASSUME PrInit
               PROVE  PrInv
    OBVIOUS
  <2>1. Init /\ evidence = [i \in Items |-> <<>>] /\ classified \in [Items -> BOOLEAN]
    BY DEF PrInit
  <2>2. TypeOK
    BY <2>1 DEF Init, TypeOK, Item, LiveStates, Definition, NoAttempt, Attempt, NoLease, Lease,
       NoPreparation, PreparationLease, NoReplacement, Replacement, Status
  <2>3. \A i \in Items: definition[i].rev >= 1 /\ item[i].state = "ready" /\ attempt[i].state = "none"
    BY <2>1 DEF Init, NoAttempt
  <2>4. \A i \in Items: evidence[i] = <<>> /\ Rows(evidence[i], "brief") = {}
    BY <2>1 DEF Rows
  <2>5. \A i \in Items: Trail(i)
    BY <2>3, <2>4 DEF Trail, Plain, Fits, AllowedAttemptStates
  <2> QED BY <2>1, <2>2, <2>3, <2>5 DEF PrInv, PrTyped
<1> QED BY <1>1, PrNextInv, PTL DEF PrSpec
-----------------------------------------------------------------------------
\* Whatever agents and humans write, in whatever order and with whatever else on the board,
\* the reader of the whole state accepts it (HistoryValidates): the writer checks each
\* payload against the state, the reader each row against the rows before it
\* (_check and write against validate_review_history).
THEOREM WritersSatisfyReaders == PrSpec => []HistoryValidates
<1>1. ASSUME PrInv
      PROVE  HistoryValidates
  <2>1. ASSUME NEW i \in Items,
               \/ Rows(evidence[i], "brief") # {}
               \/ item[i].state = "review" /\ attempt[i].state \in {"none", "done"}
        PROVE  LET s == evidence[i] IN
               /\ s # <<>> /\ attempt[i].state = "none"
               /\ Rows(s, "close") \cup Rows(s, "cancel") \subseteq {Len(s)}
               /\ \A k \in DOMAIN s: RowValid(i, k)
               /\ item[i].state = StateOfHistory(s)
    <3>1. Trail(i)
      BY <1>1 DEF PrInv
    <3>2. Rows(evidence[i], "brief") # {}
      <4>1. ASSUME item[i].state = "review", Plain(i)
            PROVE  attempt[i].state = "review"
        BY <4>1 DEF Plain, Fits, AllowedAttemptStates
      <4> QED BY <2>1, <3>1, <4>1 DEF Trail
    <3>3. UnderReview(i)
      BY <3>1, <3>2 DEF Trail
    <3>4. evidence[i] # <<>>
      BY <3>2, EmptyHistory
    <3>5. \A k \in DOMAIN evidence[i]: RowValid(i, k)
      BY <3>3, RowValidIs DEF UnderReview, Coherent, AllValid
    <3> QED BY <3>3, <3>4, <3>5 DEF UnderReview, Coherent, Ending
  <2> QED BY <2>1 DEF HistoryValidates
<1> QED BY <1>1, PrAlways, PTL

\* No finding gets lost on the way to the end of its review, over any number of rounds,
\* heads and revised briefs (FindingsAreDisposed; ReviewRound, ReviewClose).
THEOREM NoFindingLost == PrSpec => []FindingsAreDisposed
<1>1. ASSUME PrInv
      PROVE  FindingsAreDisposed
  <2>1. ASSUME NEW i \in Items, Last(evidence[i], "close") # 0,
               NEW k \in Rows(evidence[i], "round"), NEW f \in evidence[i][k].findings
        PROVE  \/ f \in evidence[i][Last(evidence[i], "close")].disposed
               \/ Settled(evidence[i], k, f)
    <3>1. Trail(i)
      BY <1>1 DEF PrInv
    <3>2. Rows(evidence[i], "brief") # {}
      BY <2>1, <3>1 DEF Trail, Plain, Rows
    <3> QED BY <2>1, <3>1, <3>2 DEF Trail, UnderReview, Coherent, Traced, Disposing
  <2> QED BY <2>1 DEF FindingsAreDisposed, Settled
<1> QED BY <1>1, PrAlways, PTL

\* The status of a review names no action that the writer rejects (PresentedIsAcceptable;
\* _present against _check).  A brief is judged by another task than its author, so this
\* takes two tasks.
THEOREM StatusIsTrue ==
  ASSUME \A task \in Tasks: \E other \in Tasks: other # task
  PROVE  PrSpec => []PresentedIsAcceptable
<1>1. ASSUME PrInv
      PROVE  PresentedIsAcceptable
  <2>1. ASSUME NEW i \in Items, NEW action \in Presented(i), ~ HasAttempt(i),
               ~ (action = "round" /\ LatestHead(evidence[i]) = NoHead)
        PROVE  Acceptable(i, action)
    <3>1. PICK s \in Seq(Row): s = evidence[i]
      BY <1>1 DEF PrInv, PrTyped
    <3>2. classified[i] \in BOOLEAN /\ Trail(i)
      BY <1>1 DEF PrInv, PrTyped
    <3>3. action \in PresentedByState(i) /\ (classified[i] \/ action = "close")
      BY <2>1 DEF Presented
\* A review without an attempt has a brief.
    <3>4. item[i].state = "review" => InReview(i) /\ Last(s, "brief") \in Rows(s, "brief")
      <4>1. item[i].state = "review" => Rows(s, "brief") # {}
        BY <2>1, <3>1, <3>2 DEF Trail, Plain, Fits, AllowedAttemptStates, HasAttempt, OpenAttemptStates
      <4> QED BY <3>1, <4>1, LastRow DEF InReview
    <3>5. CASE FirstBrief(i)
      <4>1. action = "start"
        <5>1. item[i].state # "review"
          BY <3>5 DEF FirstBrief
        <5>2. PresentedByState(i) = {"start"}
          BY <3>5, <5>1 DEF PresentedByState
        <5> QED BY <3>3, <5>2
      <4> QED BY <3>3, <3>5, <4>1 DEF Acceptable
    <3>6. CASE ~ FirstBrief(i)
      <4>1. item[i].state = "review" /\ InReview(i)
        BY <3>3, <3>4, <3>6 DEF PresentedByState
      <4>2. CASE action \in {"close", "observe"}
        BY <3>3, <4>1, <4>2 DEF Acceptable
      <4>3. CASE action = "start"
        <5>1. ~ BriefCurrent(i) \/ Judged(s, FALSE)
          BY <3>1, <3>3, <3>6, <4>3 DEF PresentedByState
        <5> QED BY <3>1, <3>3, <4>1, <4>3, <5>1 DEF Acceptable, RevisedBrief
      <4>4. CASE action = "review-brief"
        <5>1. BriefCurrent(i) /\ VerdictInForce(s) = 0
          BY <3>1, <3>3, <3>6, <4>4 DEF PresentedByState
        <5>2. s[Last(s, "brief")].by \in Tasks
          <6>1. /\ Last(s, "brief") \in DOMAIN s /\ s[Last(s, "brief")] \in Row
                /\ s[Last(s, "brief")].kind = "brief"
            BY <3>1, <3>4, <4>1 DEF Rows
          <6> QED BY <6>1, RowKinds DEF BriefRow
        <5>3. \E task \in Tasks: task # s[Last(s, "brief")].by
          BY <5>2
        <5> QED BY <3>1, <3>3, <4>1, <4>4, <5>1, <5>3 DEF Acceptable, AcceptsVerdict
      <4>5. CASE action = "round"
        <5>1. BriefCurrent(i) /\ Judged(s, TRUE)
          BY <3>1, <3>3, <3>6, <4>5 DEF PresentedByState
        <5>2. LatestHead(s) \in Heads /\ LatestHead(s) # NoHead
          BY <2>1, <3>1, <4>5, FactsTyped DEF HeadOrNone
        <5> QED BY <3>1, <3>3, <4>1, <4>5, <5>1, <5>2 DEF Acceptable, AcceptsRound
      <4>6. action \in {"close", "observe", "start", "review-brief", "round"}
        BY <3>3, <3>6 DEF PresentedByState
      <4> QED BY <4>2, <4>3, <4>4, <4>5, <4>6
    <3> QED BY <3>5, <3>6
  <2> QED BY <2>1 DEF PresentedIsAcceptable
<1> QED BY <1>1, PrAlways, PTL
=============================================================================
