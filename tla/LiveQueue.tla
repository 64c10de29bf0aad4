------------------------------ MODULE LiveQueue ------------------------------
(***************************************************************************)
(* The queue_position column of work_items: 1, 2, ... for the live items,  *)
(* NULL for the ended ones, UNIQUE in the schema.  SQLite checks UNIQUE at *)
(* every row, so an operation that moves several items is a list of        *)
(* UPDATEs whose order matters (adapters/sqlite/lifecycle.py,              *)
(* persistence.py, proposals.py, pr_review.py).  One transaction writes at *)
(* a time; everybody else reads the last committed rows.                   *)
(***************************************************************************)
EXTENDS Naturals, Sequences, FiniteSets, SequencesExt, FiniteSetsExt

CONSTANTS Items, Agents

ASSUME QueueAssumption == IsFiniteSet(Items)

VARIABLES
  committed, \* the positions as committed; 0 stands for NULL
  rows,      \* the positions as the open transaction sees them
  open,      \* whether a transaction holds the write lock
  pending,   \* the statements it has still to execute
  ended,     \* items in a terminal state
  seen       \* the order each agent read last

vars == <<committed, rows, open, pending, ended, seen>>

Bound == 2 * Cardinality(Items)  \* positions used while items move

Live(positions) == {i \in Items : positions[i] > 0}

\* ORDER BY queue_position: the k-th of the items S has k - 1 of them before it.
ByPosition(S, positions) ==
  [k \in 1..Cardinality(S) |->
     CHOOSE i \in S : Cardinality({j \in S : positions[j] < positions[i]}) = k - 1]

\* read_live_order: the live items by position.
InOrder(positions) == ByPosition(Live(positions), positions)

\* SELECT COALESCE(MAX(queue_position), 0): what the code calls the live item count.
LiveCount(positions) == Max({0} \cup {positions[i] : i \in Items})

\* UPDATE ... SET queue_position = to WHERE item_id = item AND queue_position IN from.
Set(item, from, to) == [kind |-> "set", item |-> item, from |-> from, to |-> to]
Anywhere == 1..Bound
\* The two loops that SELECT rows and move each by one.
Compact(above) == [kind |-> "compact", at |-> above]
Space(at) == [kind |-> "space", at |-> at]

Init ==
  /\ committed = [i \in Items |-> 0]
  /\ rows = committed
  /\ open = FALSE
  /\ pending = <<>>
  /\ ended = {}
  /\ seen = [a \in Agents |-> <<>>]

\* BEGIN IMMEDIATE, with the statements the decision asks for.
Begin(statements) ==
  /\ ~open
  /\ open' = TRUE
  /\ pending' = statements
  /\ UNCHANGED <<committed, rows, ended, seen>>
-----------------------------------------------------------------------------
Read(a) ==
  /\ seen' = [seen EXCEPT ![a] = InOrder(committed)]
  /\ UNCHANGED <<committed, rows, open, pending, ended>>

\* create_proposal: room is made at the position, then the item is inserted.
Propose(i, at) ==
  /\ committed[i] = 0 /\ i \notin ended
  /\ at <= LiveCount(committed) + 1
  /\ Begin(<<Space(at), Set(i, {0}, at)>>)

\* set_item_state to a terminal state: the row is found by its identity, state
\* and revision, and the gap at the position read before is closed.
Ending(i) == <<Set(i, Anywhere, 0), Compact(committed[i])>>

End(i) ==
  /\ committed[i] > 0
  /\ Begin(Ending(i))

\* Mutant: the sources end in the order of the queue.
ConsolidateAscending(campaign, sources) ==
  /\ sources # {} /\ sources \subseteq Live(committed) \ {campaign}
  /\ campaign \notin ended
  /\ Begin((IF committed[campaign] = 0
            THEN LET last == LiveCount(committed) + 1
                 IN <<Space(last), Set(campaign, {0}, last)>>
            ELSE <<>>)
           \o FlattenSeq([k \in 1..Cardinality(sources) |->
                Ending(ByPosition(sources, committed)[k])]))

\* ConsolidationMutation: the campaign is created at the end of the queue or is
\* live already; its sources end from the last position to the first, each with
\* the position it had when the transaction began.
Consolidate(campaign, sources) ==
  /\ sources # {} /\ sources \subseteq Live(committed) \ {campaign}
  /\ campaign \notin ended
  /\ Begin((IF committed[campaign] = 0
            THEN LET last == LiveCount(committed) + 1
                 IN <<Space(last), Set(campaign, {0}, last)>>
            ELSE <<>>)
           \o FlattenSeq([k \in 1..Cardinality(sources) |->
                Ending(Reverse(ByPosition(sources, committed))[k])]))

\* OrderChange.changed_positions
Moved(before, after) ==
  LET changed == {k \in 1..Len(after) : before[k] # after[k]}
  IN ByPosition(changed, [k \in changed |-> k])

\* OrderMutation: the moved items first go above the live range.
Moves(before, after) ==
  LET moved == Moved(before, after)
      Lifted(k) == Len(before) + moved[k]
  IN [k \in 1..Len(moved) |-> Set(after[moved[k]], Anywhere, Lifted(k))]
     \o [k \in 1..Len(moved) |-> Set(after[moved[k]], {Lifted(k)}, moved[k])]

\* Mutant: only the members of the order are compared, not their sequence.
DecideOrderOnMembers(current, expected, requested) ==
  /\ ToSet(current) = ToSet(expected)
  /\ Len(requested) = Len(current) /\ ToSet(requested) = ToSet(current)

\* decide_order
DecideOrder(current, expected, requested) ==
  /\ current = expected
  /\ Len(requested) = Len(current) /\ ToSet(requested) = ToSet(current)

\* service.reorder: the request repeats the order its agent read.
Reorder(a, requested) ==
  /\ DecideOrder(InOrder(committed), seen[a], requested)
  /\ Begin(Moves(InOrder(committed), requested))
-----------------------------------------------------------------------------
\* Mutant: the rows make room from the first to the last.
SelectRowsAscending ==
  /\ pending # <<>> /\ Head(pending).kind \in {"compact", "space"}
  /\ LET at == Head(pending).at
         selected == IF Head(pending).kind = "compact"
                     THEN ByPosition({i \in Items : rows[i] > at}, rows)
                     ELSE ByPosition({i \in Live(rows) : rows[i] >= at}, rows)
         target(i) == IF Head(pending).kind = "compact" THEN rows[i] - 1 ELSE rows[i] + 1
     IN pending' = [k \in 1..Len(selected) |->
                      Set(selected[k], {rows[selected[k]]}, target(selected[k]))] \o Tail(pending)
  /\ UNCHANGED <<committed, rows, open, ended, seen>>

\* compact_queue and make_queue_space select their rows when their turn comes,
\* in the order in which the rows can move, and update each where it was found.
SelectRows ==
  /\ pending # <<>> /\ Head(pending).kind \in {"compact", "space"}
  /\ LET at == Head(pending).at
         selected == IF Head(pending).kind = "compact"
                     THEN ByPosition({i \in Items : rows[i] > at}, rows)
                     ELSE Reverse(ByPosition({i \in Live(rows) : rows[i] >= at}, rows))
         target(i) == IF Head(pending).kind = "compact" THEN rows[i] - 1 ELSE rows[i] + 1
     IN pending' = [k \in 1..Len(selected) |->
                      Set(selected[k], {rows[selected[k]]}, target(selected[k]))] \o Tail(pending)
  /\ UNCHANGED <<committed, rows, open, ended, seen>>

\* The row is where the statement expects it, and its new position is free.
Applies(statement) ==
  /\ rows[statement.item] \in statement.from
  /\ statement.to > 0 => \A i \in Items \ {statement.item} : rows[i] # statement.to

\* A statement that changes no row or breaks UNIQUE gives the transaction up.
Update ==
  /\ pending # <<>> /\ Head(pending).kind = "set"
  /\ LET statement == Head(pending)
     IN IF Applies(statement)
        THEN /\ rows' = [rows EXCEPT ![statement.item] = statement.to]
             /\ pending' = Tail(pending)
             /\ UNCHANGED open
        ELSE rows' = committed /\ pending' = <<>> /\ open' = FALSE
  /\ UNCHANGED <<committed, ended, seen>>

CommitTransaction ==
  /\ open /\ pending = <<>>
  /\ committed' = rows
  /\ ended' = ended \cup {i \in Items : committed[i] > 0 /\ rows[i] = 0}
  /\ open' = FALSE
  /\ UNCHANGED <<rows, pending, seen>>

\* A later check of the transaction fails, or its process dies.
Rollback ==
  /\ open
  /\ rows' = committed
  /\ pending' = <<>>
  /\ open' = FALSE
  /\ UNCHANGED <<committed, ended, seen>>

Orders == UNION {[1..n -> Items] : n \in 0..Cardinality(Items)}

Next ==
  \/ \E a \in Agents : Read(a) \/ \E requested \in Orders : Reorder(a, requested)
  \/ \E i \in Items, at \in 1..Cardinality(Items) : Propose(i, at)
  \/ \E i \in Items : End(i)
  \/ \E campaign \in Items, sources \in SUBSET Items : Consolidate(campaign, sources)
  \/ SelectRows \/ Update \/ CommitTransaction \/ Rollback

Spec == Init /\ [][Next]_vars
-----------------------------------------------------------------------------
\* What was decided under the write lock is always written: no UPDATE of a
\* decided operation misses its row or meets UNIQUE on the way, whatever the
\* queue looked like, so a legal request is never refused by its own steps
\* (lifecycle.py:1166, persistence.py:897, persistence.py:947).
EveryUpdateApplies ==
  pending # <<>> /\ Head(pending).kind = "set" => Applies(Head(pending))

\* The committed positions are 1, 2, ... without a gap, whichever items end
\* together: the position of the last item is their number, as proposals take
\* it for (persistence.py:1199, proposal_decisions.py:35).
PositionsDense ==
  /\ {committed[i] : i \in Live(committed)} = 1..Cardinality(Live(committed))
  /\ \A i \in Live(committed) : i \notin ended

\* Read as a sequence, the column is the priority order of LiveOrder: nobody
\* rearranges an order that changed since it was read, the items that stay keep
\* their order, and an ended item never returns (service.py:948).
Abstract == INSTANCE LiveOrder WITH order <- InOrder(committed)

ImplementsLiveOrder == Abstract!Spec
=============================================================================
