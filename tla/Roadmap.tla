------------------------------ MODULE Roadmap -------------------------------
(***************************************************************************)
(* The roadmap of a ledger: the items it shows and the wave in which each  *)
(* unfinished one can be worked on, or the path to the dropped item that   *)
(* keeps it from any (application/roadmap.py, read_roadmap).  It is a pure *)
(* function of one snapshot, computed again after every commit; here it is *)
(* computed of every ledger that intake can reach.  A loop is a function:  *)
(* what is known after n rounds of it.                                     *)
(***************************************************************************)
EXTENDS Consolidation, SequencesExt

\* The placements of f set over those of g.
Over(f, g) == [x \in DOMAIN f \cup DOMAIN g |-> IF x \in DOMAIN f THEN f[x] ELSE g[x]]

Unfinished == {i \in existing: item[i].state \in LiveStates}

\* No item enters the queue of a loop twice, so after that many rounds it is empty.
Rounds == Cardinality(Items)

\* Batch by batch: what the unfinished items of one batch wait for is the next one.
NextBatch(s) ==
  LET discovered ==
        (UNION {Prerequisites(definition[i].deps): i \in s.pending \cap Unfinished}) \ s.selected
  IN  [selected |-> s.selected \cup discovered, pending |-> discovered]

\* The live items, who ever was a member of an initiative, and what those wait for.
Shown(members) ==
  LET first == Unfinished \cup members
      after[n \in Nat] == IF n = 0 THEN [selected |-> first, pending |-> first]
                          ELSE NextBatch(after[n - 1])
  IN  after[Rounds].selected

\* The edges that are left: a satisfied dependency does not count.
Waits(i) == {d.item: d \in {e \in definition[i].deps: ~ Satisfied(e)}}

\* The items of S by priority.
ByPriority(S, open) ==
  CHOOSE s \in SetToSeqs(S): \A j, k \in 1 .. Len(s): j < k =>
    \E m, n \in 1 .. Len(open): m < n /\ open[m] = s[j] /\ open[n] = s[k]

Wave(number) == [kind |-> "wave", number |-> number]
Blocked(path) == [kind |-> "blocked", path |-> path]
Unknown == [kind |-> "unknown"]

\* Items that no wave can hold: of two bad prerequisites the code keeps the last one.
Invalid(shown) ==
  LET bad(i) == {p \in Waits(i): p \notin shown \/ item[p].state = "dropped"}
      placement(i) == LET p == CHOOSE p \in bad(i): TRUE IN
                        IF p \in shown THEN Blocked(<<i, p>>) ELSE Unknown
  IN  [i \in {j \in shown \cap Unfinished: bad(j) # {}} |-> placement(i)]

\* Mutant: only who waits for a dropped item itself is kept from the waves.
SpreadNowhere(open, invalid, queue) == invalid

\* Breadth first from the invalid items to everybody who waits for one of them.
SpreadFrom(open, s) ==
  LET i == Head(s.queue)
      next == {j \in ToSet(open): i \in Waits(j)} \ DOMAIN s.invalid
      placement(j) == IF s.invalid[i] = Unknown THEN Unknown
                      ELSE Blocked(<<j>> \o s.invalid[i].path)
  IN  IF s.queue = <<>> THEN s
      ELSE [invalid |-> Over([j \in next |-> placement(j)], s.invalid),
            queue |-> Tail(s.queue) \o ByPriority(next, open)]

Spread(open, invalid, queue) ==
  LET after[n \in Nat] == IF n = 0 THEN [invalid |-> invalid, queue |-> queue]
                          ELSE SpreadFrom(open, after[n - 1])
  IN  after[Rounds].invalid

\* Topological order: an item is placed when all that it waits for is.
PlaceFirst(open, s) ==
  LET i == Head(s.ready)
      levels == {s.placed[p].number: p \in Waits(i) \cap DOMAIN s.placed}
      released == {j \in DOMAIN s.indegree: i \in Waits(j) /\ s.indegree[j] = 1}
      wave == [j \in {i} |-> Wave(1 + Max({0} \cup levels))]
  IN  IF s.ready = <<>> THEN s
      ELSE [placed |-> Over(wave, s.placed),
            indegree |-> [j \in DOMAIN s.indegree |->
                            s.indegree[j] - (IF i \in Waits(j) THEN 1 ELSE 0)],
            ready |-> Tail(s.ready) \o ByPriority(released, open)]

Place(open, indegree, ready) ==
  LET after[n \in Nat] == IF n = 0 THEN [placed |-> <<>>, indegree |-> indegree, ready |-> ready]
                          ELSE PlaceFirst(open, after[n - 1])
  IN  after[Rounds].placed

\* The placement of every unfinished item, which are given by priority.
Layout(open, shown) ==
  LET seeds == Invalid(shown)
      invalid == Spread(open, seeds, ByPriority(DOMAIN seeds, open))
      remaining == ToSet(open) \ DOMAIN invalid
      indegree == [i \in remaining |-> Cardinality(Waits(i) \cap remaining)]
      waves == Place(open, indegree, ByPriority({i \in remaining: indegree[i] = 0}, open))
  IN  Over(waves, Over(invalid, [i \in remaining |-> Unknown]))

-----------------------------------------------------------------------------
\* Of every ledger, whoever are members and whatever the priority of the items, the roadmap
\* puts each unfinished item into one wave, after all it still waits for and no later than
\* that, or names a path of waits from it to an item that was dropped; it never meets a
\* missing item or a cycle.  The first wave is what the board itself may start (project).
RoadmapIsFaithful ==
  \A members \in {{}, existing}, open \in SetToSeqs(Unfinished):
    LET layout == Layout(open, Shown(members))
        Number(i) == layout[i].number
    IN  \A i \in Unfinished:
          \/ /\ layout[i].kind = "wave"
             /\ \A p \in Waits(i): layout[p].kind = "wave"
             /\ Number(i) = 1 + Max({0} \cup {Number(p): p \in Waits(i)})
             /\ Number(i) = 1 <=> DependenciesSatisfied(i)
          \/ /\ layout[i].kind = "blocked"
             /\ layout[i].path[1] = i
             /\ \A k \in 2 .. Len(layout[i].path):
                  layout[i].path[k] \in Waits(layout[i].path[k - 1])
             /\ item[Last(layout[i].path)].state = "dropped"
=============================================================================
