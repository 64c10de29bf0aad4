------------------------------ MODULE LiveOrder ------------------------------
(***************************************************************************)
(* What the saved priority promises to its readers: the live items form    *)
(* one sequence, and an item that left it has left for good.  A new item   *)
(* is inserted, ended items leave and the others keep their order, and     *)
(* only the agent that has seen the whole current sequence rearranges it.  *)
(***************************************************************************)
EXTENDS Naturals, Sequences, SequencesExt

CONSTANTS Items, Agents

VARIABLES order, \* the live items by priority
          ended, \* the items that left the order
          seen   \* the order each agent read last

vars == <<order, ended, seen>>

Precedes(i, j) == \E m, n \in 1..Len(order) : m < n /\ order[m] = i /\ order[n] = j

\* The order of the items that are not in S.
Without(S) ==
  CHOOSE rest \in SetToSeqs(ToSet(order) \ S) :
    \A m, n \in 1..Len(rest) : m < n => Precedes(rest[m], rest[n])

Init ==
  /\ order = <<>>
  /\ ended = {}
  /\ seen = [a \in Agents |-> <<>>]

Read(a) ==
  /\ seen' = [seen EXCEPT ![a] = order]
  /\ UNCHANGED <<order, ended>>

Insert(i) ==
  /\ i \notin ToSet(order) \cup ended
  /\ \E p \in 1..(Len(order) + 1) : order' = InsertAt(order, p, i)
  /\ UNCHANGED <<ended, seen>>

\* The sources of a campaign end together; a campaign that is new is last.
End(S) ==
  /\ S # {} /\ S \subseteq ToSet(order)
  /\ ended' = ended \cup S
  /\ \/ order' = Without(S)
     \/ \E c \in Items \ (ToSet(order) \cup ended) : order' = Append(Without(S), c)
  /\ UNCHANGED seen

Rearrange(a) ==
  /\ seen[a] = order
  /\ Len(order') = Len(order) /\ ToSet(order') = ToSet(order)
  /\ UNCHANGED <<ended, seen>>

Next ==
  \/ \E a \in Agents : Read(a) \/ Rearrange(a)
  \/ \E i \in Items : Insert(i)
  \/ \E S \in SUBSET Items : End(S)

Spec == Init /\ [][Next]_vars
=============================================================================
