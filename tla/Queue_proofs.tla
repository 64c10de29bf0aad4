----------------------------- MODULE Queue_proofs -----------------------------
(***************************************************************************)
(* Proofs about the queue positions, for any items and any agents: every   *)
(* UPDATE applies, committed positions have no gap, and the column is the  *)
(* priority order of LiveOrder.                                            *)
(***************************************************************************)
EXTENDS LiveQueue, FunctionTheorems, FiniteSetTheorems, SequenceTheorems, WellFoundedInduction, TLAPS

\* The statements of a transaction.
Statement ==
  [kind: {"set"}, item: Items, from: SUBSET Nat, to: Nat] \cup [kind: {"compact", "space"}, at: Nat]

\* n items have a position among 1, ..., n + 1, where p is free.
Gap(positions, n, p) ==
  /\ n \in Nat /\ p \in 1 .. (n + 1)
  /\ \A i \in Items: positions[i] \in (0 .. (n + 1)) \ {p}
  /\ \A i, j \in Items: positions[i] = positions[j] /\ positions[i] > 0 => i = j
  /\ \A q \in (1 .. (n + 1)) \ {p}: \E i \in Items: positions[i] = q

\* The n items have the positions 1, ..., n.
Dense(positions, n) == Gap(positions, n, n + 1)

\* After its first a statements the transaction ends the items of sigma, each of them below
\* the position top and before the ones that it ended earlier.
EndsAfter(a, sigma, top) ==
  /\ Len(pending) = a + 2 * Len(sigma)
  /\ \A k \in 1 .. Len(sigma):
       /\ pending[a + 2 * k - 1] = Set(sigma[k], Anywhere, 0)
       /\ pending[a + 2 * k] = Compact(rows[sigma[k]])
       /\ committed[sigma[k]] > 0 /\ rows[sigma[k]] \in 1 .. (top - 1)
  /\ \A j, k \in 1 .. Len(sigma): j < k => rows[sigma[k]] < rows[sigma[j]]

\* The items that the transaction has given a position, and those it has ended.
Entered == {i \in Items: committed[i] = 0 /\ rows[i] > 0}
Gone == {i \in Items: committed[i] > 0 /\ rows[i] = 0}

OrderKept ==
  \A i, j \in Items: committed[i] > 0 /\ committed[j] > 0 /\ rows[i] > 0 /\ rows[j] > 0 =>
    (committed[i] < committed[j] <=> rows[i] < rows[j])

\* A transaction that inserts one item, or ends some behind which it may have put a campaign.
Progress(sigma) ==
  /\ OrderKept
  /\ Entered \cap ended = {} /\ \A i, j \in Entered: i = j
  /\ (Gone = {} /\ sigma = <<>>) \/ \A c \in Entered, i \in Items: rows[i] <= rows[c]

\* The rows above the free position p move down.
Compacting(n, p, sigma) ==
  /\ Gap(rows, n, p) /\ Progress(sigma) /\ EndsAfter(n + 1 - p, sigma, p)
  /\ \A k \in 1 .. (n + 1 - p): \A i \in Items:
       rows[i] = p + k => pending[k] = Set(i, {p + k}, p + k - 1)

ToCompact(n, p, sigma) ==
  /\ Gap(rows, n, p) /\ Progress(sigma) /\ EndsAfter(1, sigma, p)
  /\ pending[1] = Compact(p)

\* The rows from position at on move up to the free position p, for item i to be inserted.
Inserting(n, p, i, at, sigma) ==
  /\ Gap(rows, n, p) /\ OrderKept /\ Entered = {} /\ Gone = {}
  /\ i \in Items \ ended /\ rows[i] = 0 /\ at \in 1 .. p
  /\ sigma # <<>> => at = n + 1

Spacing(n, p, i, at, sigma) ==
  /\ Inserting(n, p, i, at, sigma) /\ EndsAfter(p - at + 1, sigma, at)
  /\ \A k \in 1 .. (p - at): \A j \in Items:
       rows[j] = p - k => pending[k] = Set(j, {p - k}, p - k + 1)
  /\ pending[p - at + 1] = Set(i, {0}, at)

ToSpace(n, i, at, sigma) ==
  /\ Inserting(n, n + 1, i, at, sigma) /\ EndsAfter(2, sigma, at)
  /\ pending[1] = Space(at) /\ pending[2] = Set(i, {0}, at)

\* t of the UPDATEs that bring the n live items in the order requested are done.
Reordering(n, requested, t) ==
  LET before == InOrder(committed)
      moved == Moved(before, requested)
      m == Len(moved)
  IN /\ requested \in [1 .. n -> Items]
     /\ \A i \in Items: committed[i] > 0 <=> \E k \in 1 .. n: requested[k] = i
     /\ Dense(committed, n)
     /\ \E a \in Agents: seen[a] = before
     /\ t \in 0 .. 2 * m /\ Len(pending) = 2 * m - t
     /\ \A k \in 1 .. (2 * m - t): pending[k] = Moves(before, requested)[t + k]
     /\ \A k \in 1 .. m:
          rows[requested[moved[k]]] = IF t < k THEN committed[requested[moved[k]]]
                                      ELSE IF t < m + k THEN n + moved[k] ELSE moved[k]
     /\ \A i \in Items:
          (\A k \in 1 .. m: i # requested[moved[k]]) => rows[i] = committed[i]

Writing ==
  \/ \E n \in Nat: \E p \in 1 .. (n + 1): \E sigma \in Seq(Items):
       Compacting(n, p, sigma) \/ ToCompact(n, p, sigma)
  \/ \E n \in Nat: \E p \in 1 .. (n + 1): \E i \in Items: \E at \in 1 .. p: \E sigma \in Seq(Items):
       Spacing(n, p, i, at, sigma) \/ ToSpace(n, i, at, sigma)
  \/ \E n, t \in Nat: \E requested \in [1 .. n -> Items]: Reordering(n, requested, t)

TypeOK ==
  /\ committed \in [Items -> Nat] /\ rows \in [Items -> Nat]
  /\ open \in BOOLEAN /\ pending \in Seq(Statement)
  /\ ended \subseteq Items
  /\ seen \in [Agents -> Seq(Items)]

Inv ==
  /\ TypeOK
  /\ \E n \in Nat: Dense(committed, n)
  /\ \A i \in ended: committed[i] = 0
  /\ IF open THEN Writing ELSE pending = <<>> /\ rows = committed
-----------------------------------------------------------------------------
LEMMA SequenceOf ==
  ASSUME NEW S, NEW n \in Nat, NEW s \in [1 .. n -> S]
  PROVE  s \in Seq(S) /\ Len(s) = n
OBVIOUS

\* s is the sequence of the m items of S by position.
Sorts(s, m, S, positions) ==
  /\ s \in [1 .. m -> S]
  /\ \A k \in 1 .. m: positions[s[k]] \in Nat
  /\ \A j, k \in 1 .. m: j < k => positions[s[j]] < positions[s[k]]
  /\ \A i \in S: \E k \in 1 .. m: s[k] = i

Below(S, positions, i) == {j \in S: positions[j] < positions[i]}

\* The items before one at the k-th place are those at the places before k.
LEMMA PlaceOf ==
  ASSUME NEW S, NEW positions, NEW m \in Nat, NEW s, Sorts(s, m, S, positions),
         NEW k \in 1 .. m
  PROVE  Cardinality(Below(S, positions, s[k])) = k - 1
<1> DEFINE B == Below(S, positions, s[k])
           g == [j \in 1 .. (k - 1) |-> s[j]]
<1> USE DEF Sorts, Below
<1>1. \A j \in 1 .. (k - 1): j \in 1 .. m /\ g[j] = s[j] /\ s[j] \in B
  OBVIOUS
<1>2. \A i \in B: \E j \in 1 .. (k - 1): s[j] = i
  <2> SUFFICES ASSUME NEW i \in B
               PROVE  \E j \in 1 .. (k - 1): s[j] = i
    OBVIOUS
  <2>1. PICK j \in 1 .. m: s[j] = i
    OBVIOUS
  <2>2. ~ (k < j) /\ j # k
    BY <2>1
  <2> QED BY <2>1, <2>2
<1>3. \A j, l \in 1 .. (k - 1): s[j] = s[l] => j = l
  <2> SUFFICES ASSUME NEW j \in 1 .. (k - 1), NEW l \in 1 .. (k - 1), s[j] = s[l], j < l \/ l < j
               PROVE  FALSE
    OBVIOUS
  <2> QED OBVIOUS
<1>4. g \in Bijection(1 .. (k - 1), B)
  <2>1. g \in [1 .. (k - 1) -> B]
    BY <1>1
  <2>2. g \in Injection(1 .. (k - 1), B)
    BY <2>1, <1>1, <1>3 DEF Injection, IsInjective
  <2>3. g \in Surjection(1 .. (k - 1), B)
    BY <2>1, <1>1, <1>2 DEF Surjection
  <2> QED BY <2>2, <2>3 DEF Bijection
<1>5. IsFiniteSet(1 .. (k - 1)) /\ Cardinality(1 .. (k - 1)) = k - 1
  BY FS_Interval
<1> QED BY <1>4, <1>5, FS_Bijection DEF ExistsBijection

\* ByPosition is the sequence of S by position, whoever finds it.
LEMMA SortedIs ==
  ASSUME NEW S, NEW positions, NEW m \in Nat, NEW s, Sorts(s, m, S, positions)
  PROVE  Cardinality(S) = m /\ ByPosition(S, positions) = s
<1> DEFINE Before(i) == Cardinality(Below(S, positions, i))
<1>1. ASSUME NEW k \in 1 .. m
      PROVE  Before(s[k]) = k - 1
  BY PlaceOf
<1>0. s \in [1 .. m -> S]
  BY DEF Sorts
<1>2. Cardinality(S) = m
  <2>1. \A j, l \in 1 .. m: s[j] = s[l] => j = l
    <3> SUFFICES ASSUME NEW j \in 1 .. m, NEW l \in 1 .. m, s[j] = s[l], j < l \/ l < j
                 PROVE  FALSE
      OBVIOUS
    <3> QED BY DEF Sorts
  <2>2. s \in Bijection(1 .. m, S)
    BY <2>1 DEF Bijection, Injection, Surjection, IsInjective, Sorts
  <2>3. IsFiniteSet(1 .. m) /\ Cardinality(1 .. m) = m
    BY FS_Interval
  <2> QED BY <2>2, <2>3, FS_Bijection DEF ExistsBijection
<1>3. ASSUME NEW k \in 1 .. m
      PROVE  (CHOOSE i \in S: Before(i) = k - 1) = s[k]
  <2> DEFINE c == CHOOSE i \in S: Before(i) = k - 1
  <2>1. \A l \in 1 .. m: Before(s[l]) = l - 1
    BY <1>1
  <2> HIDE DEF Before
  <2>2. c \in S /\ Before(c) = k - 1
    BY <2>1, <1>0
  <2>3. PICK l \in 1 .. m: s[l] = c
    BY <2>2 DEF Sorts
  <2>4. l - 1 = k - 1
    BY <2>1, <2>2, <2>3
  <2> QED BY <2>3, <2>4
<1>4. s = [k \in 1 .. m |-> s[k]]
  BY <1>0
<1> QED BY <1>2, <1>3, <1>4 DEF ByPosition, Below

\* The positions of S are lo + 1, ..., lo + m.
Consecutive(S, positions, lo, m) ==
  /\ \A i \in S: positions[i] \in (lo + 1) .. (lo + m)
  /\ \A i, j \in S: positions[i] = positions[j] => i = j
  /\ \A q \in (lo + 1) .. (lo + m): \E i \in S: positions[i] = q

\* Then the item at lo + k is in the k-th place.
LEMMA ConsecutiveOrder ==
  ASSUME NEW S, NEW positions, NEW lo \in Nat, NEW m \in Nat,
         Consecutive(S, positions, lo, m)
  PROVE  /\ Cardinality(S) = m
         /\ ByPosition(S, positions) \in [1 .. m -> S]
         /\ \A k \in 1 .. m: positions[ByPosition(S, positions)[k]] = lo + k
<1> DEFINE s == [k \in 1 .. m |-> CHOOSE i \in S: positions[i] = lo + k]
<1> USE DEF Consecutive
<1>1. \A k \in 1 .. m: s[k] \in S /\ positions[s[k]] = lo + k
  <2> SUFFICES ASSUME NEW k \in 1 .. m
               PROVE  s[k] \in S /\ positions[s[k]] = lo + k
    OBVIOUS
  <2>1. \E i \in S: positions[i] = lo + k
    OBVIOUS
  <2> QED BY <2>1
<1>2. s \in [1 .. m -> S]
  BY <1>1
<1>3. \A i \in S: \E k \in 1 .. m: s[k] = i
  <2> SUFFICES ASSUME NEW i \in S
               PROVE  \E k \in 1 .. m: s[k] = i
    OBVIOUS
  <2>1. positions[i] - lo \in 1 .. m /\ positions[i] = lo + (positions[i] - lo)
    OBVIOUS
  <2> QED BY <1>1, <2>1
<1> HIDE DEF s
<1>4. \A k \in 1 .. m: positions[s[k]] \in Nat
  BY <1>1
<1>5. \A j, k \in 1 .. m: j < k => positions[s[j]] < positions[s[k]]
  BY <1>1
<1>7. Sorts(s, m, S, positions)
  BY <1>2, <1>3, <1>4, <1>5 DEF Sorts
<1>6. Cardinality(S) = m /\ ByPosition(S, positions) = s
  BY <1>7, SortedIs
<1> QED BY <1>1, <1>2, <1>6

\* Every finite set of items with different positions is in the order of ByPosition.
LEMMA Sorted ==
  ASSUME NEW S, IsFiniteSet(S), NEW positions,
         \A i \in S: positions[i] \in Nat,
         \A i, j \in S: positions[i] = positions[j] => i = j
  PROVE  Cardinality(S) \in Nat /\ Sorts(ByPosition(S, positions), Cardinality(S), S, positions)
<1> DEFINE n == Cardinality(S)
           rank == [i \in S |-> Cardinality(Below(S, positions, i))]
<1>1. n \in Nat /\ IsFiniteSet(0 .. (n - 1)) /\ Cardinality(0 .. (n - 1)) = n
  <2>1. n \in Nat
    BY FS_CardinalityType
  <2> HIDE DEF n
  <2>2. 0 \in Int /\ n - 1 \in Int /\ (IF 0 > n - 1 THEN 0 ELSE n - 1 - 0 + 1) = n
    BY <2>1
  <2> QED BY <2>1, <2>2, FS_Interval
<1>2. \A i \in S: Below(S, positions, i) \subseteq S /\ IsFiniteSet(Below(S, positions, i))
                  /\ Cardinality(Below(S, positions, i)) \in Nat
  BY FS_Subset, FS_CardinalityType DEF Below
<1>3. ASSUME NEW i \in S
      PROVE  rank[i] \in 0 .. (n - 1)
  <2>1. Below(S, positions, i) # S
    BY DEF Below
  <2>2. Below(S, positions, i) \in SUBSET S
    BY DEF Below
  <2>3. Cardinality(Below(S, positions, i)) <= n /\ Cardinality(Below(S, positions, i)) # n
    BY <2>1, <2>2, FS_Subset
  <2> QED BY <2>3, <1>1, <1>2
<1>4. ASSUME NEW i \in S, NEW j \in S, positions[i] < positions[j]
      PROVE  rank[i] < rank[j]
  <2>1. Below(S, positions, i) \in SUBSET Below(S, positions, j) /\ i \in Below(S, positions, j)
        /\ i \notin Below(S, positions, i)
    BY <1>4 DEF Below
  <2>2. /\ Cardinality(Below(S, positions, i)) <= Cardinality(Below(S, positions, j))
        /\ Cardinality(Below(S, positions, i)) # Cardinality(Below(S, positions, j))
    BY <2>1, <1>2, FS_Subset
  <2> QED BY <2>2, <1>2
<1>5. \A i, j \in S: i # j => positions[i] < positions[j] \/ positions[j] < positions[i]
  OBVIOUS
<1>6. \A i, j \in S: rank[i] = rank[j] => i = j
  <2> SUFFICES ASSUME NEW i \in S, NEW j \in S, i # j
               PROVE  rank[i] # rank[j]
    OBVIOUS
  <2>1. rank[i] \in Nat /\ rank[j] \in Nat
    BY <1>2
  <2> HIDE DEF rank
  <2> QED BY <2>1, <1>4, <1>5
<1>7. \A r \in 0 .. (n - 1): \E i \in S: rank[i] = r
  <2>1. rank \in [S -> 0 .. (n - 1)]
    BY <1>3
  <2>2. rank \in Injection(S, 0 .. (n - 1))
    BY <2>1, <1>6 DEF Injection, IsInjective
  <2>3. rank \in Surjection(S, 0 .. (n - 1))
    BY <2>2, <1>1, FS_Injection
  <2> HIDE DEF rank
  <2> QED BY <2>3 DEF Surjection
<1> DEFINE s == ByPosition(S, positions)
<1>8. ASSUME NEW k \in 1 .. n
      PROVE  s[k] \in S /\ rank[s[k]] = k - 1
  <2>1. s[k] = CHOOSE i \in S: Cardinality(Below(S, positions, i)) = k - 1
    BY <1>1 DEF ByPosition, Below
  <2>2. \E i \in S: Cardinality(Below(S, positions, i)) = k - 1
    <3>1. PICK i \in S: rank[i] = k - 1
      BY <1>1, <1>7
    <3> QED BY <3>1
  <2> QED BY <2>1, <2>2
<1>10. s \in [1 .. n -> S]
  <2>1. \A k \in 1 .. n: \E i \in S: Cardinality(Below(S, positions, i)) = k - 1
    <3> SUFFICES ASSUME NEW k \in 1 .. n
                 PROVE  \E i \in S: Cardinality(Below(S, positions, i)) = k - 1
      OBVIOUS
    <3>1. PICK i \in S: rank[i] = k - 1
      BY <1>1, <1>7
    <3> QED BY <3>1
  <2> DEFINE e(k) == CHOOSE i \in S: Cardinality(Below(S, positions, i)) = k - 1
  <2>2. s = [k \in 1 .. n |-> e(k)]
    BY DEF ByPosition, Below
  <2>3. \A k \in 1 .. n: e(k) \in S
    BY <2>1
  <2> HIDE DEF e, s
  <2> QED BY <2>2, <2>3
<1> HIDE DEF s, rank, n
<1>11. \A i \in S: \E k \in 1 .. n: s[k] = i
  <2> SUFFICES ASSUME NEW i \in S
               PROVE  \E k \in 1 .. n: s[k] = i
    OBVIOUS
  <2>1. rank[i] + 1 \in 1 .. n
    BY <1>1, <1>3
  <2>2. s[rank[i] + 1] \in S /\ rank[s[rank[i] + 1]] = rank[i]
    BY <1>1, <1>3, <1>8, <2>1
  <2> QED BY <1>6, <2>1, <2>2
<1>12. ASSUME NEW j \in 1 .. n, NEW k \in 1 .. n, j < k
       PROVE  positions[s[j]] < positions[s[k]]
  <2>1. s[j] \in S /\ s[k] \in S /\ rank[s[j]] < rank[s[k]]
    BY <1>1, <1>8, <1>12
  <2>2. ~ rank[s[k]] < rank[s[j]] /\ s[j] # s[k]
    BY <2>1, <1>3, <1>1
  <2> QED BY <2>1, <2>2, <1>4, <1>5
<1> QED BY <1>1, <1>8, <1>10, <1>11, <1>12 DEF Sorts, s, n

\* FlattenSeq of pairs is the pairs one after the other.
Pairs(n, first, second) == [k \in 1 .. n |-> <<first[k], second[k]>>]

Interleaved(flat, S, n, first, second) ==
  /\ flat \in Seq(S) /\ Len(flat) = 2 * n
  /\ \A k \in 1 .. n: flat[2 * k - 1] = first[k] /\ flat[2 * k] = second[k]

LEMMA FlattenedPairs ==
  ASSUME NEW S, NEW n \in Nat, NEW first \in [1 .. n -> S], NEW second \in [1 .. n -> S]
  PROVE  Interleaved(FlattenSeq(Pairs(n, first, second)), S, n, first, second)
<1> DEFINE seqs == [k \in 1 .. n |-> <<first[k], second[k]>>]
           nth(m) == CHOOSE x \in S: \E k \in 1 .. n: \/ (m = 2 * k - 1 /\ x = first[k])
                                                      \/ (m = 2 * k /\ x = second[k])
           up(k) == [m \in 1 .. 2 * k |-> nth(m)]
           F(f) == [i \in 1 .. n |-> IF i = 1 THEN seqs[i] ELSE f[i - 1] \o seqs[i]]
<1>1. \A k \in 1 .. n: nth(2 * k - 1) = first[k] /\ nth(2 * k) = second[k]
  <2> SUFFICES ASSUME NEW k \in 1 .. n
               PROVE  nth(2 * k - 1) = first[k] /\ nth(2 * k) = second[k]
    OBVIOUS
  <2>1. \A l \in 1 .. n: (2 * k - 1 = 2 * l - 1 => l = k) /\ (2 * k = 2 * l => l = k)
                         /\ 2 * k - 1 # 2 * l /\ 2 * k # 2 * l - 1
    OBVIOUS
  <2>2. first[k] \in S /\ second[k] \in S
    OBVIOUS
  <2> QED BY <2>1, <2>2
<1>2. \A k \in 1 .. n: \A m \in 1 .. 2 * k: nth(m) \in S
  <2> SUFFICES ASSUME NEW k \in 1 .. n, NEW m \in 1 .. 2 * k
               PROVE  nth(m) \in S
    OBVIOUS
  <2>1. \E l \in 1 .. n: m = 2 * l - 1 \/ m = 2 * l
    <3>1. PICK l \in Int: m = 2 * l - 1 \/ m = 2 * l
      <4>1. (m + 1) \div 2 \in Int
        OBVIOUS
      <4>2. m = 2 * ((m + 1) \div 2) - 1 \/ m = 2 * ((m + 1) \div 2)
        OBVIOUS
      <4> QED BY <4>1, <4>2
    <3>2. m \in Int /\ 1 <= m /\ m <= 2 * k /\ k <= n /\ k \in Int
      OBVIOUS
    <3>3. l \in 1 .. n
      BY <3>1, <3>2
    <3> QED BY <3>1, <3>3
  <2> QED BY <1>1, <2>1
<1> HIDE DEF nth
<1>3. \A k \in 1 .. n: up(k) \in Seq(S) /\ Len(up(k)) = 2 * k
  BY <1>2
<1>4. \A k \in 1 .. n: Len(seqs[k]) = 2 /\ seqs[k] \in Seq(S)
                       /\ seqs[k][1] = nth(2 * k - 1) /\ seqs[k][2] = nth(2 * k)
  BY <1>1
<1>5. \A k \in 1 .. n: up(k) = IF k = 1 THEN seqs[k] ELSE up(k - 1) \o seqs[k]
  <2> SUFFICES ASSUME NEW k \in 1 .. n
               PROVE  up(k) = IF k = 1 THEN seqs[k] ELSE up(k - 1) \o seqs[k]
    OBVIOUS
  <2>1. CASE k = 1
    BY <2>1, <1>3, <1>4, SeqEqual
  <2>2. CASE k # 1
    <3>1. k - 1 \in 1 .. n /\ up(k - 1) \in Seq(S) /\ Len(up(k - 1)) = 2 * k - 2
      BY <2>2, <1>3
    <3> DEFINE joined == up(k - 1) \o seqs[k]
    <3>2. /\ joined \in Seq(S) /\ Len(joined) = 2 * k
          /\ \A m \in 1 .. 2 * k:
               joined[m] = IF m <= 2 * k - 2 THEN up(k - 1)[m] ELSE seqs[k][m - (2 * k - 2)]
      <4> DEFINE s1 == up(k - 1)
                 s2 == seqs[k]
      <4>1. s1 \in Seq(S) /\ s2 \in Seq(S) /\ Len(s1) = 2 * k - 2 /\ Len(s2) = 2
        BY <3>1, <1>4
      <4> HIDE DEF s1, s2
      <4>2. /\ s1 \o s2 \in Seq(S) /\ Len(s1 \o s2) = Len(s1) + Len(s2)
            /\ \A m \in 1 .. Len(s1) + Len(s2):
                 (s1 \o s2)[m] = IF m <= Len(s1) THEN s1[m] ELSE s2[m - Len(s1)]
        BY <4>1, ConcatProperties
      <4>3. Len(s1) + Len(s2) = 2 * k
        BY <4>1
      <4> QED BY <4>1, <4>2, <4>3 DEF s1, s2
    <3>3. \A m \in 1 .. 2 * k: joined[m] = nth(m)
      <4> SUFFICES ASSUME NEW m \in 1 .. 2 * k
                   PROVE  joined[m] = nth(m)
        OBVIOUS
      <4>1. CASE m <= 2 * k - 2
        BY <3>2, <4>1
      <4>2. CASE m = 2 * k - 1 \/ m = 2 * k
        <5>1. ~ m <= 2 * k - 2 /\ ((m - (2 * k - 2) = 1 /\ m = 2 * k - 1) \/ (m - (2 * k - 2) = 2 /\ m = 2 * k))
          BY <4>2
        <5>2. joined[m] = seqs[k][m - (2 * k - 2)]
          BY <3>2, <5>1
        <5>3. seqs[k][1] = nth(2 * k - 1) /\ seqs[k][2] = nth(2 * k)
          BY <1>4
        <5> HIDE DEF seqs, joined
        <5> QED BY <5>1, <5>2, <5>3
      <4> QED BY <4>1, <4>2
    <3> HIDE DEF joined
    <3>4. up(k) = joined
      BY <1>3, <3>2, <3>3, SeqEqual
    <3> QED BY <2>2, <3>4 DEF joined
  <2> QED BY <2>1, <2>2
<1> DEFINE flatten == CHOOSE f: f = F(f)
           ups == [k \in 1 .. n |-> up(k)]
<1>6. flatten = F(flatten)
  <2>1. ups = F(ups)
    <3> HIDE DEF up, seqs
    <3>1. \A i \in 1 .. n: ups[i] = IF i = 1 THEN seqs[i] ELSE ups[i - 1] \o seqs[i]
      <4> SUFFICES ASSUME NEW i \in 1 .. n
                   PROVE  ups[i] = IF i = 1 THEN seqs[i] ELSE ups[i - 1] \o seqs[i]
        OBVIOUS
      <4>1. ups[i] = up(i) /\ (i # 1 => i - 1 \in 1 .. n /\ ups[i - 1] = up(i - 1))
        OBVIOUS
      <4> HIDE DEF ups
      <4> QED BY <4>1, <1>5
    <3> QED BY <3>1
  <2> HIDE DEF F, ups
  <2> QED BY <2>1
<1>7. \A k \in 1 .. n: flatten[k] = up(k)
  <2> DEFINE T == {k \in 1 .. n: flatten[k] # up(k)}
  <2>1. ASSUME T # {}
        PROVE  FALSE
    <3>1. PICK k \in T: \A j \in T: ~ <<j, k>> \in OpToRel(<, Nat)
      <4>1. IsWellFoundedOn(OpToRel(<, Nat), Nat)
        BY NatLessThanWellFounded
      <4>2. T \subseteq Nat
        OBVIOUS
      <4> HIDE DEF T
      <4> QED BY <4>1, <4>2, <2>1, WFMin
    <3>2. k \in 1 .. n /\ flatten[k] # up(k)
      OBVIOUS
    <3>3. k # 1 => flatten[k - 1] = up(k - 1)
      <4> SUFFICES ASSUME k # 1, flatten[k - 1] # up(k - 1)
                   PROVE  FALSE
        OBVIOUS
      <4>1. k - 1 \in T /\ k - 1 \in Nat /\ k \in Nat /\ k - 1 < k
        BY SMTT(30), <3>2
      <4> HIDE DEF T
      <4> QED BY <3>1, <4>1 DEF OpToRel
    <3>4. flatten[k] = IF k = 1 THEN seqs[k] ELSE flatten[k - 1] \o seqs[k]
      <4> HIDE DEF flatten, seqs
      <4> QED BY <1>6, <3>2
    <3> HIDE DEF flatten, seqs, up
    <3> QED BY <1>5, <3>2, <3>3, <3>4
  <2> QED BY <2>1
<1>10. seqs = Pairs(n, first, second)
  BY DEF Pairs
<1> DEFINE flat == FlattenSeq(seqs)
<1>8. CASE n = 0
  <2>1. Len(seqs) = 0 /\ seqs = <<>>
    BY <1>8
  <2>2. flat = <<>>
    <3> HIDE DEF seqs
    <3> QED BY <2>1 DEF FlattenSeq
  <2> HIDE DEF flat
  <2>3. flat \in Seq(S) /\ Len(flat) = 2 * n /\ 1 .. n = {}
    BY <1>8, <2>2
  <2> HIDE DEF seqs
  <2> QED BY <1>10, <2>3 DEF flat, Interleaved
<1>9. CASE n # 0
  <2>1. Len(seqs) = n
    OBVIOUS
  <2>2. flat = flatten[n]
    BY <1>9, <2>1 DEF FlattenSeq
  <2>3. n \in 1 .. n
    BY <1>9
  <2>4. flat = up(n)
    <3> HIDE DEF flat, flatten, up
    <3> QED BY <1>7, <2>2, <2>3
  <2>5. up(n) \in Seq(S) /\ Len(up(n)) = 2 * n
    BY <1>3, <2>3
  <2>6. ASSUME NEW k \in 1 .. n
        PROVE  up(n)[2 * k - 1] = first[k] /\ up(n)[2 * k] = second[k]
    <3>1. 2 * k - 1 \in 1 .. 2 * n /\ 2 * k \in 1 .. 2 * n
      OBVIOUS
    <3> QED BY <1>1, <3>1
  <2> HIDE DEF flat, up, seqs
  <2> QED BY <1>10, <2>4, <2>5, <2>6 DEF flat, Interleaved
<1> QED BY <1>8, <1>9
-----------------------------------------------------------------------------
\* The column, row by row.
LEMMA RowDown ==
  ASSUME NEW r \in [Items -> Nat], NEW n, NEW p, Gap(r, n, p), NEW i \in Items, r[i] = p + 1
  PROVE  Gap([r EXCEPT ![i] = p], n, p + 1)
BY DEF Gap

LEMMA RowUp ==
  ASSUME NEW r \in [Items -> Nat], NEW n, NEW p, Gap(r, n, p), NEW i \in Items, r[i] = p - 1, p > 1
  PROVE  Gap([r EXCEPT ![i] = p], n, p - 1)
BY DEF Gap

LEMMA RowOut ==
  ASSUME NEW r \in [Items -> Nat], NEW n, Dense(r, n), NEW i \in Items, r[i] > 0
  PROVE  n > 0 /\ Gap([r EXCEPT ![i] = 0], n - 1, r[i])
BY DEF Gap, Dense

LEMMA RowIn ==
  ASSUME NEW r \in [Items -> Nat], NEW n, NEW p, Gap(r, n, p), NEW i \in Items, r[i] = 0
  PROVE  Dense([r EXCEPT ![i] = p], n + 1)
BY DEF Gap, Dense

\* The rows above a free position follow it one by one.
LEMMA RowsAbove ==
  ASSUME NEW r \in [Items -> Nat], NEW n, NEW p, Gap(r, n, p)
  PROVE  LET s == ByPosition({i \in Items: r[i] > p}, r) IN
         /\ s \in [1 .. (n + 1 - p) -> Items]
         /\ \A k \in 1 .. (n + 1 - p): r[s[k]] = p + k
<1> DEFINE S == {i \in Items: r[i] > p}
           m == n + 1 - p
<1>1. p \in Nat /\ m \in Nat /\ p + m = n + 1 /\ S \subseteq Items
  BY DEF Gap
<1>2. \A i \in S: r[i] \in (p + 1) .. (p + m)
  BY DEF Gap
<1>3. \A i, j \in S: r[i] = r[j] => i = j
  BY DEF Gap
<1>4. \A q \in (p + 1) .. (p + m): \E i \in S: r[i] = q
  BY DEF Gap
<1> HIDE DEF S, m
<1>5. /\ ByPosition(S, r) \in [1 .. m -> S]
      /\ \A k \in 1 .. m: r[ByPosition(S, r)[k]] = p + k
  <2>1. Consecutive(S, r, p, m)
    BY <1>1, <1>2, <1>3, <1>4 DEF Consecutive
  <2> QED BY <1>1, <2>1, ConsecutiveOrder
<1> QED BY <1>1, <1>5 DEF S, m

\* In a dense column the rows from a position on go up to the end.
LEMMA RowsFrom ==
  ASSUME NEW r \in [Items -> Nat], NEW n, Dense(r, n), NEW at \in 1 .. (n + 1)
  PROVE  LET s == ByPosition({i \in Live(r): r[i] >= at}, r) IN
         /\ s \in [1 .. (n + 1 - at) -> Items]
         /\ \A k \in 1 .. (n + 1 - at): r[s[k]] = at - 1 + k
<1> DEFINE S == {i \in Live(r): r[i] >= at}
           m == n + 1 - at
           lo == at - 1
<1>1. n \in Nat /\ lo \in Nat /\ m \in Nat /\ lo + m = n /\ S \subseteq Items
  BY DEF Gap, Dense, Live
<1>2. \A i \in S: r[i] \in (lo + 1) .. (lo + m)
  BY DEF Gap, Dense, Live
<1>3. \A i, j \in S: r[i] = r[j] => i = j
  BY DEF Gap, Dense, Live
<1>4. \A q \in (lo + 1) .. (lo + m): \E i \in S: r[i] = q
  BY DEF Gap, Dense, Live
<1> HIDE DEF S, m, lo
<1>5. /\ ByPosition(S, r) \in [1 .. m -> S]
      /\ \A k \in 1 .. m: r[ByPosition(S, r)[k]] = lo + k
  <2>1. Consecutive(S, r, lo, m)
    BY <1>1, <1>2, <1>3, <1>4 DEF Consecutive
  <2> QED BY <1>1, <2>1, ConsecutiveOrder
<1> QED BY <1>1, <1>5 DEF S, m, lo

\* The order of a dense column has every item at its position.
LEMMA OrderOf ==
  ASSUME NEW r \in [Items -> Nat], NEW n, Dense(r, n)
  PROVE  /\ n \in Nat /\ Cardinality(Live(r)) = n
         /\ InOrder(r) \in [1 .. n -> Items] /\ InOrder(r) \in Seq(Items) /\ Len(InOrder(r)) = n
         /\ \A k \in 1 .. n: r[InOrder(r)[k]] = k
         /\ \A i \in Items: r[i] > 0 => r[i] \in 1 .. n /\ InOrder(r)[r[i]] = i
<1> DEFINE S == Live(r)
           s == ByPosition(S, r)
<1>1. n \in Nat /\ S \subseteq Items
  BY DEF Gap, Dense, Live
<1>2. \A i \in S: r[i] \in (0 + 1) .. (0 + n)
  BY DEF Gap, Dense, Live
<1>3. \A i, j \in S: r[i] = r[j] => i = j
  BY DEF Gap, Dense, Live
<1>4. \A q \in (0 + 1) .. (0 + n): \E i \in S: r[i] = q
  BY DEF Gap, Dense, Live
<1> HIDE DEF S
<1>5. Cardinality(S) = n /\ s \in [1 .. n -> S] /\ \A k \in 1 .. n: r[s[k]] = 0 + k
  <2> HIDE DEF s
  <2>1. Consecutive(S, r, 0, n) /\ 0 \in Nat
    BY <1>1, <1>2, <1>3, <1>4 DEF Consecutive
  <2> QED BY <1>1, <2>1, ConsecutiveOrder DEF s
<1>6. s \in [1 .. n -> Items] /\ s \in Seq(Items) /\ Len(s) = n /\ \A k \in 1 .. n: r[s[k]] = k
  <2> HIDE DEF s
  <2>1. s \in [1 .. n -> Items] /\ \A k \in 1 .. n: r[s[k]] = k
    BY <1>1, <1>5
  <2> QED BY <1>1, <2>1, SequenceOf
<1>7. ASSUME NEW i \in Items, r[i] > 0
      PROVE  r[i] \in 1 .. n /\ s[r[i]] = i
  <2>1. r[i] \in 1 .. n
    BY <1>7 DEF Gap, Dense
  <2>2. s[r[i]] \in Items /\ r[s[r[i]]] = r[i]
    <3> HIDE DEF s
    <3> QED BY <2>1, <1>6
  <2> QED BY <1>7, <2>1, <2>2 DEF Gap, Dense
<1> QED BY <1>1, <1>5, <1>6, <1>7 DEF S, InOrder

\* There are no more positions than items, and none to spare while an item has none.
LEMMA Fits ==
  ASSUME NEW r \in [Items -> Nat], NEW n, NEW p, Gap(r, n, p)
  PROVE  /\ Cardinality(Items) \in Nat /\ n <= Cardinality(Items)
         /\ (\E i \in Items: r[i] = 0) => n + 1 <= Cardinality(Items)
<1> DEFINE Positions == (1 .. (n + 1)) \ {p}
           item == [q \in Positions |-> CHOOSE i \in Items: r[i] = q]
<1>1. n \in Nat /\ p \in 1 .. (n + 1) /\ IsFiniteSet(Items) /\ Cardinality(Items) \in Nat
  BY QueueAssumption, FS_CardinalityType DEF Gap
<1>2. \A q \in Positions: item[q] \in Items /\ r[item[q]] = q
  BY DEF Gap
<1>3. IsFiniteSet(Positions) /\ Cardinality(Positions) = n
  <2>1. IsFiniteSet(1 .. (n + 1)) /\ Cardinality(1 .. (n + 1)) = n + 1
    BY <1>1, FS_Interval
  <2>2. IsFiniteSet((1 .. (n + 1)) \ {p}) /\ Cardinality((1 .. (n + 1)) \ {p}) = n
    <3> DEFINE R == 1 .. (n + 1)
    <3>1. IsFiniteSet(R) /\ Cardinality(R) = n + 1 /\ p \in R
      BY <1>1, <2>1
    <3> HIDE DEF R
    <3>2. IsFiniteSet(R \ {p}) /\ Cardinality(R \ {p}) = Cardinality(R) - 1
      BY <3>1, FS_RemoveElement
    <3>3. Cardinality(R \ {p}) = n
      BY <1>1, <3>1, <3>2
    <3> QED BY <3>2, <3>3 DEF R
  <2> QED BY <1>1, <2>2
<1> HIDE DEF Positions
<1>4. item \in Injection(Positions, Items)
  <2>1. item \in [Positions -> Items]
    BY <1>2
  <2>2. \A q, t \in Positions: item[q] = item[t] => q = t
    BY <1>2
  <2> HIDE DEF item
  <2> QED BY <2>1, <2>2 DEF Injection, IsInjective
<1>5. /\ Cardinality(Positions) <= Cardinality(Items)
      /\ Cardinality(Positions) = Cardinality(Items) <=> item \in Surjection(Positions, Items)
  BY <1>1, <1>4, FS_Injection
<1>6. ASSUME NEW i \in Items, r[i] = 0
      PROVE  n # Cardinality(Items)
  <2> SUFFICES ASSUME item \in Surjection(Positions, Items)
               PROVE  FALSE
    BY <1>3, <1>5
  <2>1. PICK q \in Positions: item[q] = i
    BY DEF Surjection
  <2> QED BY <1>2, <1>6, <2>1 DEF Positions
<1> QED BY <1>1, <1>3, <1>5, <1>6

LEMMA LastPosition ==
  ASSUME NEW r \in [Items -> Nat], NEW n, Dense(r, n)
  PROVE  LiveCount(r) = n
<1> DEFINE S == {0} \cup {r[i]: i \in Items}
<1>1. n \in S /\ \A y \in S: n >= y /\ y \in Nat
  BY DEF Gap, Dense
<1> HIDE DEF S
<1>2. \A x \in S: (\A y \in S: x >= y) => x = n
  BY <1>1
<1>3. (CHOOSE x \in S: \A y \in S: x >= y) = n
  BY <1>1, <1>2
<1> QED BY <1>3 DEF S, LiveCount, Max
-----------------------------------------------------------------------------
\* Statements and the lists of them.
LEMMA StatementsAre ==
  /\ Anywhere \subseteq Nat
  /\ \A i \in Items, from \in SUBSET Nat, to \in Nat:
       /\ Set(i, from, to) \in Statement /\ Set(i, from, to).kind = "set"
       /\ Set(i, from, to).item = i /\ Set(i, from, to).from = from /\ Set(i, from, to).to = to
  /\ \A at \in Nat: /\ Compact(at) \in Statement /\ Compact(at).kind = "compact" /\ Compact(at).at = at
                    /\ Space(at) \in Statement /\ Space(at).kind = "space" /\ Space(at).at = at
<1>1. Cardinality(Items) \in Nat
  BY QueueAssumption, FS_CardinalityType
<1> QED BY <1>1 DEF Anywhere, Bound, Set, Compact, Space, Statement

\* What is left after the first statement.
LEMMA Rest ==
  ASSUME pending \in Seq(Statement), pending # <<>>
  PROVE  /\ Len(pending) \in Nat \ {0} /\ Head(pending) = pending[1] /\ pending[1] \in Statement
         /\ Tail(pending) \in Seq(Statement) /\ Len(Tail(pending)) = Len(pending) - 1
         /\ \A k \in 1 .. (Len(pending) - 1): Tail(pending)[k] = pending[k + 1]
OBVIOUS

\* An UPDATE of a transaction that goes on.
Applied(i, to) ==
  /\ rows' = [rows EXCEPT ![i] = to] /\ pending' = Tail(pending)
  /\ UNCHANGED <<committed, ended, seen>>

LEMMA UpdateIs ==
  ASSUME TypeOK, NEW i \in Items, NEW from \in SUBSET Nat, NEW to \in Nat,
         pending # <<>>, pending[1] = Set(i, from, to), rows[i] \in from,
         to > 0 => \A j \in Items: rows[j] # to
  PROVE  /\ Applies(Head(pending))
         /\ Update => Applied(i, to) /\ UNCHANGED open
         /\ ~ SelectRows
<1>1. Head(pending) = Set(i, from, to)
  BY Rest DEF TypeOK
<1>2. Applies(Head(pending))
  BY <1>1, StatementsAre DEF Applies
<1>3. Head(pending).kind = "set" /\ Head(pending).item = i /\ Head(pending).to = to
  BY <1>1, StatementsAre
<1>4. Update => Applied(i, to) /\ UNCHANGED open
  BY <1>2, <1>3 DEF Update, Applied
<1>5. ~ SelectRows
  BY <1>3 DEF SelectRows
<1> QED BY <1>2, <1>4, <1>5

LEMMA SelectIs ==
  ASSUME TypeOK, pending # <<>>, pending[1].kind # "set"
  PROVE  ~ Update /\ Head(pending).kind # "set" /\ Head(pending) = pending[1]
BY Rest DEF TypeOK, Update

LEMMA EndsAfterHead ==
  ASSUME TypeOK, pending # <<>>, pending' = Tail(pending), committed' = committed,
         NEW a \in Nat \ {0}, NEW sigma \in Seq(Items), NEW top \in Nat, NEW above \in Nat, top <= above,
         EndsAfter(a, sigma, top),
         \A k \in 1 .. Len(sigma): rows'[sigma[k]] = rows[sigma[k]]
  PROVE  EndsAfter(a - 1, sigma, above)'
<1>1. Len(pending) = a + 2 * Len(sigma) /\ Len(sigma) \in Nat
  BY DEF EndsAfter
<1>2. Len(pending') = a - 1 + 2 * Len(sigma)
  BY <1>1, Rest DEF TypeOK
<1>3. ASSUME NEW k \in 1 .. Len(sigma)
      PROVE  /\ pending'[a - 1 + 2 * k - 1] = pending[a + 2 * k - 1]
             /\ pending'[a - 1 + 2 * k] = pending[a + 2 * k]
  <2>1. a - 1 + 2 * k - 1 \in 1 .. (Len(pending) - 1) /\ a - 1 + 2 * k \in 1 .. (Len(pending) - 1)
    BY <1>1
  <2>2. /\ pending'[a - 1 + 2 * k - 1] = pending[a - 1 + 2 * k - 1 + 1]
        /\ pending'[a - 1 + 2 * k] = pending[a - 1 + 2 * k + 1]
    BY <2>1, Rest DEF TypeOK
  <2>3. a - 1 + 2 * k - 1 + 1 = a + 2 * k - 1 /\ a - 1 + 2 * k + 1 = a + 2 * k
    BY <1>1
  <2> QED BY <2>2, <2>3
<1>4. ASSUME NEW k \in 1 .. Len(sigma)
      PROVE  /\ pending'[a - 1 + 2 * k - 1] = Set(sigma[k], Anywhere, 0)
             /\ pending'[a - 1 + 2 * k] = Compact(rows'[sigma[k]])
             /\ committed'[sigma[k]] > 0 /\ rows'[sigma[k]] \in 1 .. (above - 1)
  <2>1. /\ pending[a + 2 * k - 1] = Set(sigma[k], Anywhere, 0)
        /\ pending[a + 2 * k] = Compact(rows[sigma[k]])
        /\ committed[sigma[k]] > 0 /\ rows[sigma[k]] \in 1 .. (top - 1)
    BY DEF EndsAfter
  <2>2. rows'[sigma[k]] = rows[sigma[k]] /\ rows[sigma[k]] \in 1 .. (above - 1)
    BY SMTT(30), <2>1
  <2> QED BY <1>3, <2>1, <2>2
<1>5. \A j, k \in 1 .. Len(sigma): j < k => rows'[sigma[k]] < rows'[sigma[j]]
  BY DEF EndsAfter
<1> QED BY <1>2, <1>4, <1>5 DEF EndsAfter, Anywhere, Bound, Set, Compact

\* Rows that move past no other keep what the transaction has achieved.
LEMMA ProgressStays ==
  ASSUME TypeOK, rows' \in [Items -> Nat], committed' = committed, ended' = ended,
         \A i \in Items: rows[i] > 0 <=> rows'[i] > 0,
         \A i, j \in Items: rows[i] > 0 /\ rows[j] > 0 => (rows[i] < rows[j] <=> rows'[i] < rows'[j]),
         NEW sigma
  PROVE  /\ OrderKept => OrderKept'
         /\ Entered' = Entered /\ Gone' = Gone
         /\ Progress(sigma) => Progress(sigma)'
<1>1. Entered' = Entered /\ Gone' = Gone
  BY DEF Entered, Gone, TypeOK
<1>2. OrderKept => OrderKept'
  BY DEF OrderKept
<1>3. \A c \in Entered: (\A i \in Items: rows[i] <= rows[c]) => \A i \in Items: rows'[i] <= rows'[c]
  <2> SUFFICES ASSUME NEW c \in Entered, \A i \in Items: rows[i] <= rows[c], NEW i \in Items
               PROVE  rows'[i] <= rows'[c]
    OBVIOUS
  <2>1. c \in Items /\ rows[c] > 0 /\ rows'[c] \in Nat /\ rows'[i] \in Nat /\ rows[i] \in Nat /\ rows[c] \in Nat
    BY DEF Entered, TypeOK
  <2>2. ~ (rows[c] < rows[i])
    BY <2>1
  <2> QED BY <2>1, <2>2
<1> QED BY <1>1, <1>2, <1>3 DEF Progress
-----------------------------------------------------------------------------
\* The next UPDATE closes the gap by one.
LEMMA CompactingMoves ==
  ASSUME TypeOK, NEW n, NEW p, NEW sigma \in Seq(Items), Compacting(n, p, sigma), p # n + 1
  PROVE  /\ EveryUpdateApplies /\ ~ SelectRows
         /\ Update => Compacting(n, p + 1, sigma)' /\ UNCHANGED open
<1>1. n \in Nat /\ p \in 1 .. n /\ n + 1 - p \in Nat \ {0} /\ p \in Nat
  BY DEF Compacting, Gap
<1>2. PICK i \in Items: rows[i] = p + 1
  <2>1. p + 1 \in (1 .. (n + 1)) \ {p}
    BY <1>1
  <2> QED BY <2>1 DEF Compacting, Gap
<1>3. pending[1] = Set(i, {p + 1}, p)
  <2>1. pending[1] = Set(i, {p + 1}, p + 1 - 1)
    <3>1. 1 \in 1 .. (n + 1 - p)
      BY <1>1
    <3> QED BY <3>1, <1>2 DEF Compacting
  <2>2. p + 1 - 1 = p
    BY <1>1
  <2> QED BY <2>1, <2>2
<1>4. pending # <<>> /\ Len(pending) \in Nat
  <2>1. Len(pending) = n + 1 - p + 2 * Len(sigma) /\ Len(sigma) \in Nat
    BY DEF Compacting, EndsAfter
  <2> QED BY <1>1, <2>1
<1>5. \A j \in Items: rows[j] # p
  BY DEF Compacting, Gap
<1>6. EveryUpdateApplies /\ ~ SelectRows /\ (Update => Applied(i, p) /\ UNCHANGED open)
  <2>1. {p + 1} \in SUBSET Nat /\ rows[i] \in {p + 1}
    BY <1>1, <1>2
  <2> QED BY <1>1, <1>3, <1>4, <1>5, <2>1, UpdateIs DEF EveryUpdateApplies
<1> SUFFICES ASSUME Update, Applied(i, p)
             PROVE  Compacting(n, p + 1, sigma)'
  BY <1>6
<1>7. /\ rows' = [rows EXCEPT ![i] = p] /\ rows' \in [Items -> Nat] /\ pending' = Tail(pending)
      /\ committed' = committed /\ ended' = ended
  BY <1>1 DEF Applied, TypeOK
<1>8. \A j \in Items: /\ rows[j] \in Nat /\ rows'[j] = IF j = i THEN p ELSE rows[j]
                      /\ rows[j] # p /\ (rows[j] = p + 1 <=> j = i)
  <2>1. \A j \in Items: rows[j] = rows[i] => j = i
    BY <1>1, <1>2 DEF Compacting, Gap
  <2> QED BY <1>2, <1>5, <1>7, <2>1 DEF TypeOK
<1>9. Gap(rows', n, p + 1)
  BY <1>2, <1>7, RowDown DEF Compacting, TypeOK
<1>10. Progress(sigma)'
  <2>1. \A j \in Items: rows[j] > 0 <=> rows'[j] > 0
    BY <1>1, <1>2, <1>8
  <2>2. \A j, k \in Items: rows[j] > 0 /\ rows[k] > 0 => (rows[j] < rows[k] <=> rows'[j] < rows'[k])
    BY <1>1, <1>2, <1>8
  <2>3. Progress(sigma)
    BY DEF Compacting
  <2> QED BY <1>7, <2>1, <2>2, <2>3, ProgressStays
<1>11. EndsAfter(n + 1 - p - 1, sigma, p + 1)'
  <2>1. EndsAfter(n + 1 - p, sigma, p)
    BY DEF Compacting
  <2>2. \A k \in 1 .. Len(sigma): rows'[sigma[k]] = rows[sigma[k]]
    <3>1. \A k \in 1 .. Len(sigma): rows[sigma[k]] \in 1 .. (p - 1) /\ sigma[k] \in Items
      BY <2>1 DEF EndsAfter
    <3> QED BY <1>1, <1>8, <3>1
  <2>3. p + 1 \in Nat /\ p <= p + 1
    BY <1>1
  <2> QED BY <1>1, <1>4, <1>7, <2>1, <2>2, <2>3, EndsAfterHead
<1>12. ASSUME NEW k \in 1 .. (n + 1 - (p + 1)), NEW j \in Items, rows'[j] = p + 1 + k
       PROVE  pending'[k] = Set(j, {p + 1 + k}, p + 1 + k - 1)
  <2>1. k + 1 \in 1 .. (n + 1 - p) /\ p + 1 + k = p + (k + 1) /\ k \in 1 .. (Len(pending) - 1)
    <3>1. Len(pending) = n + 1 - p + 2 * Len(sigma) /\ Len(sigma) \in Nat
      BY DEF Compacting, EndsAfter
    <3> QED BY <1>1, <3>1
  <2>2. rows[j] = p + (k + 1)
    BY <1>1, <1>8, <1>12, <2>1
  <2>3. pending[k + 1] = Set(j, {p + (k + 1)}, p + (k + 1) - 1)
    BY <2>1, <2>2 DEF Compacting
  <2>4. pending'[k] = pending[k + 1]
    BY <1>4, <1>7, <2>1, Rest DEF TypeOK
  <2>5. {p + (k + 1)} = {p + 1 + k} /\ p + (k + 1) - 1 = p + 1 + k - 1
    BY <1>1, <2>1
  <2> QED BY <2>3, <2>4, <2>5
<1>13. n + 1 - p - 1 = n + 1 - (p + 1)
  BY <1>1
<1>14. EndsAfter(n + 1 - (p + 1), sigma, p + 1)'
  BY <1>11, <1>13
<1> QED BY <1>9, <1>10, <1>12, <1>14 DEF Compacting, Set

\* When the gap is closed the next item is ended, at the position the transaction knows.
LEMMA CompactingEnds ==
  ASSUME TypeOK, NEW n, NEW sigma \in Seq(Items), Compacting(n, n + 1, sigma), sigma # <<>>,
         NEW q, q = rows[sigma[1]], NEW tau, tau = Tail(sigma)
  PROVE  /\ EveryUpdateApplies /\ ~ SelectRows
         /\ n \in Nat \ {0} /\ q \in 1 .. n /\ tau \in Seq(Items)
         /\ Update => ToCompact(n - 1, q, tau)' /\ UNCHANGED open
<1> DEFINE i == sigma[1]
<1>1. n \in Nat /\ Len(sigma) \in Nat \ {0} /\ i \in Items /\ q \in Nat
  BY DEF Compacting, Gap, TypeOK
<1>2. /\ EndsAfter(0, sigma, n + 1) /\ Gap(rows, n, n + 1) /\ Progress(sigma)
  <2>1. n + 1 - (n + 1) = 0
    BY <1>1
  <2> QED BY <2>1 DEF Compacting
<1>3. /\ Len(pending) = 2 * Len(sigma)
      /\ pending[1] = Set(i, Anywhere, 0) /\ pending[2] = Compact(q)
      /\ committed[i] > 0 /\ q \in 1 .. n
  <2>1. /\ Len(pending) = 0 + 2 * Len(sigma)
        /\ pending[0 + 2 * 1 - 1] = Set(sigma[1], Anywhere, 0)
        /\ pending[0 + 2 * 1] = Compact(rows[sigma[1]])
        /\ committed[sigma[1]] > 0 /\ rows[sigma[1]] \in 1 .. (n + 1 - 1)
    BY <1>1, <1>2 DEF EndsAfter
  <2>2. 0 + 2 * 1 - 1 = 1 /\ 0 + 2 * 1 = 2 /\ 0 + 2 * Len(sigma) = 2 * Len(sigma)
        /\ n + 1 - 1 = n
    BY <1>1
  <2> QED BY <2>1, <2>2
<1>4. pending # <<>> /\ Len(pending) \in Nat
  BY <1>1, <1>3
<1>5. q \in Anywhere /\ Anywhere \in SUBSET Nat
  <2>1. n <= Cardinality(Items) /\ Cardinality(Items) \in Nat
    BY <1>2, Fits DEF TypeOK
  <2> DEFINE size == Cardinality(Items)
  <2> HIDE DEF size
  <2>2. q \in 1 .. 2 * size /\ 1 .. 2 * size \in SUBSET Nat
    <3>1. size \in Nat /\ n <= size
      BY <2>1 DEF size
    <3> QED BY <1>1, <1>3, <3>1
  <2> QED BY <2>2 DEF Anywhere, Bound, size
<1>6. EveryUpdateApplies /\ ~ SelectRows /\ (Update => Applied(i, 0) /\ UNCHANGED open)
  BY <1>1, <1>3, <1>4, <1>5, UpdateIs DEF EveryUpdateApplies
<1> SUFFICES ASSUME Update, Applied(i, 0)
             PROVE  ToCompact(n - 1, q, tau)'
  <2>1. n \in Nat \ {0} /\ tau \in Seq(Items)
    BY <1>1, <1>3
  <2> QED BY <1>3, <1>6, <2>1
<1>7. /\ rows' = [rows EXCEPT ![i] = 0] /\ rows' \in [Items -> Nat] /\ pending' = Tail(pending)
      /\ committed' = committed /\ ended' = ended
  BY <1>1 DEF Applied, TypeOK
<1>8. \A j \in Items: rows[j] \in Nat /\ rows'[j] = IF j = i THEN 0 ELSE rows[j]
  BY <1>7 DEF TypeOK
<1>9. Gap(rows', n - 1, q)
  <2>1. rows \in [Items -> Nat] /\ Dense(rows, n) /\ rows[i] > 0
    BY <1>1, <1>2, <1>3 DEF TypeOK, Dense
  <2> QED BY <1>1, <1>7, <2>1, RowOut
<1>10. Progress(tau)'
  <2>1. OrderKept'
    BY <1>2, <1>7, <1>8 DEF Progress, OrderKept
  <2>2. Entered' = Entered
    BY <1>3, <1>7, <1>8 DEF Entered
  <2>3. \A c \in Entered, j \in Items: rows[j] <= rows[c]
    BY <1>2 DEF Progress
  <2>4. ASSUME NEW c \in Entered, NEW j \in Items
        PROVE  rows'[j] <= rows'[c]
    <3>1. c \in Items /\ c # i /\ rows[j] <= rows[c]
      BY <1>3, <2>3 DEF Entered
    <3> QED BY <1>8, <3>1
  <2>5. (Entered \cap ended = {} /\ \A j, k \in Entered: j = k)
    BY <1>2 DEF Progress
  <2> QED BY <1>7, <2>1, <2>2, <2>4, <2>5 DEF Progress
<1>11. Len(tau) = Len(sigma) - 1 /\ tau \in Seq(Items)
       /\ \A k \in 1 .. (Len(sigma) - 1): tau[k] = sigma[k + 1]
  BY <1>1
<1>12. pending'[1] = Compact(q) /\ Len(pending') = 1 + 2 * Len(tau)
  <2>1. 1 \in 1 .. (Len(pending) - 1) /\ 1 + 1 = 2 /\ Len(pending) - 1 = 1 + 2 * Len(tau)
    BY <1>1, <1>3, <1>11
  <2> QED BY <1>3, <1>4, <1>7, <2>1, Rest DEF TypeOK
<1>13. ASSUME NEW k \in 1 .. Len(tau)
       PROVE  /\ pending'[1 + 2 * k - 1] = Set(tau[k], Anywhere, 0)
              /\ pending'[1 + 2 * k] = Compact(rows'[tau[k]])
              /\ committed'[tau[k]] > 0 /\ rows'[tau[k]] \in 1 .. (q - 1)
              /\ rows'[tau[k]] = rows[tau[k]]
  <2>1. k + 1 \in 1 .. Len(sigma) /\ tau[k] = sigma[k + 1] /\ tau[k] \in Items /\ 1 < k + 1
        /\ 1 \in 1 .. Len(sigma)
    BY <1>1, <1>11
  <2>2. /\ pending[0 + 2 * (k + 1) - 1] = Set(tau[k], Anywhere, 0)
        /\ pending[0 + 2 * (k + 1)] = Compact(rows[tau[k]])
        /\ committed[tau[k]] > 0 /\ rows[tau[k]] \in 1 .. (n + 1 - 1)
        /\ rows[tau[k]] < q
    <3>1. /\ pending[0 + 2 * (k + 1) - 1] = Set(sigma[k + 1], Anywhere, 0)
          /\ pending[0 + 2 * (k + 1)] = Compact(rows[sigma[k + 1]])
          /\ committed[sigma[k + 1]] > 0 /\ rows[sigma[k + 1]] \in 1 .. (n + 1 - 1)
          /\ rows[sigma[k + 1]] < rows[sigma[1]]
      <4>1. PICK l \in 1 .. Len(sigma): l = k + 1
        BY <2>1
      <4>2. /\ pending[0 + 2 * l - 1] = Set(sigma[l], Anywhere, 0)
            /\ pending[0 + 2 * l] = Compact(rows[sigma[l]])
            /\ committed[sigma[l]] > 0 /\ rows[sigma[l]] \in 1 .. (n + 1 - 1)
        BY <1>1, <1>2 DEF EndsAfter
      <4>3. rows[sigma[l]] < rows[sigma[1]]
        BY <1>2, <2>1, <4>1 DEF EndsAfter
      <4> QED BY <4>1, <4>2, <4>3
    <3> QED BY <2>1, <3>1
  <2>3. tau[k] # i /\ rows'[tau[k]] = rows[tau[k]]
    <3>1. tau[k] # i
      BY <1>1, <2>2
    <3> QED BY <1>8, <2>1, <3>1
  <2>4. /\ 1 + 2 * k - 1 \in 1 .. (Len(pending) - 1) /\ 1 + 2 * k - 1 + 1 = 0 + 2 * (k + 1) - 1
        /\ 1 + 2 * k \in 1 .. (Len(pending) - 1) /\ 1 + 2 * k + 1 = 0 + 2 * (k + 1)
    BY <1>1, <1>3, <1>11
  <2>5. pending'[1 + 2 * k - 1] = pending[1 + 2 * k - 1 + 1] /\ pending'[1 + 2 * k] = pending[1 + 2 * k + 1]
    BY <1>4, <1>7, <2>4, Rest DEF TypeOK
  <2>6. rows[tau[k]] \in 1 .. (q - 1)
    BY SMTT(30), <1>1, <2>2
  <2> QED BY <1>7, <2>2, <2>3, <2>4, <2>5, <2>6
<1>14. \A j, k \in 1 .. Len(tau): j < k => rows'[tau[k]] < rows'[tau[j]]
  <2> SUFFICES ASSUME NEW j \in 1 .. Len(tau), NEW k \in 1 .. Len(tau), j < k
               PROVE  rows[tau[k]] < rows[tau[j]]
    BY <1>13
  <2>1. /\ tau[k] = sigma[k + 1] /\ tau[j] = sigma[j + 1] /\ j + 1 < k + 1
        /\ k + 1 \in 1 .. Len(sigma) /\ j + 1 \in 1 .. Len(sigma)
    BY <1>1, <1>11
  <2> QED BY <1>2, <2>1 DEF EndsAfter
<1>15. EndsAfter(1, tau, q)'
  BY <1>12, <1>13, <1>14 DEF EndsAfter, Set, Compact, Anywhere, Bound
<1> QED BY <1>9, <1>10, <1>12, <1>15 DEF ToCompact, Compact
-----------------------------------------------------------------------------
\* A SELECT replaces the first statement by one UPDATE for each row.
Replaced(m, s, t) ==
  /\ Len(pending') = m + Len(pending) - 1 /\ pending' \in Seq(Statement)
  /\ \A k \in 1 .. m: pending'[k] = Set(s[k], {rows[s[k]]}, t[k])
  /\ \A k \in 1 .. (Len(pending) - 1): pending'[m + k] = pending[k + 1]
  /\ UNCHANGED <<committed, rows, ended, seen>>

LEMMA Selected ==
  ASSUME TypeOK, pending # <<>>, NEW m \in Nat, NEW s \in [1 .. m -> Items], NEW t \in [1 .. m -> Nat],
         pending' = [k \in 1 .. m |-> Set(s[k], {rows[s[k]]}, t[k])] \o Tail(pending),
         UNCHANGED <<committed, rows, ended, seen>>
  PROVE  Replaced(m, s, t)
<1> DEFINE moved == [k \in 1 .. m |-> Set(s[k], {rows[s[k]]}, t[k])]
           rest == Tail(pending)
<1>1. \A k \in 1 .. m: moved[k] \in Statement
  <2> SUFFICES ASSUME NEW k \in 1 .. m
               PROVE  Set(s[k], {rows[s[k]]}, t[k]) \in Statement
    OBVIOUS
  <2>1. s[k] \in Items /\ t[k] \in Nat /\ {rows[s[k]]} \in SUBSET Nat
    BY DEF TypeOK
  <2> QED BY <2>1, StatementsAre
<1>2. moved \in Seq(Statement) /\ Len(moved) = m
  <2>1. moved \in [1 .. m -> Statement]
    BY <1>1
  <2> HIDE DEF moved
  <2> QED BY <2>1, SequenceOf
<1>3. rest \in Seq(Statement) /\ Len(rest) = Len(pending) - 1 /\ Len(rest) \in Nat
      /\ \A k \in 1 .. (Len(pending) - 1): rest[k] = pending[k + 1]
  BY Rest DEF TypeOK
<1>4. \A k \in 1 .. m: moved[k] = Set(s[k], {rows[s[k]]}, t[k])
  OBVIOUS
<1> HIDE DEF moved, rest
<1>5. /\ moved \o rest \in Seq(Statement) /\ Len(moved \o rest) = Len(moved) + Len(rest)
      /\ \A k \in 1 .. Len(moved) + Len(rest):
           (moved \o rest)[k] = IF k <= Len(moved) THEN moved[k] ELSE rest[k - Len(moved)]
  BY <1>2, <1>3, ConcatProperties
<1>6. pending' = moved \o rest
  BY DEF moved, rest
<1>7. ASSUME NEW k \in 1 .. m
      PROVE  pending'[k] = moved[k]
  <2>1. k \in 1 .. Len(moved) + Len(rest) /\ k <= Len(moved)
    BY <1>2, <1>3
  <2> QED BY <1>5, <1>6, <2>1
<1>8. ASSUME NEW k \in 1 .. (Len(pending) - 1)
      PROVE  pending'[m + k] = pending[k + 1]
  <2>1. m + k \in 1 .. Len(moved) + Len(rest) /\ ~ m + k <= Len(moved) /\ m + k - Len(moved) = k
    BY <1>2, <1>3
  <2>2. pending'[m + k] = rest[m + k - Len(moved)]
    BY <1>5, <1>6, <2>1
  <2> QED BY <1>3, <2>1, <2>2
<1>9. Len(pending') = m + Len(pending) - 1 /\ pending' \in Seq(Statement)
  <2>1. Len(pending) \in Nat
    BY Rest DEF TypeOK
  <2>2. Len(moved \o rest) = m + Len(pending) - 1
    BY <1>2, <1>3, <1>5, <2>1
  <2> QED BY <1>5, <1>6, <2>2
<1> QED BY <1>4, <1>7, <1>8, <1>9 DEF Replaced

\* The items to end move back with the statements.
LEMMA EndsAfterSelect ==
  ASSUME TypeOK, pending # <<>>, NEW m \in Nat, NEW s, NEW t, Replaced(m, s, t),
         NEW a \in Nat \ {0}, NEW sigma \in Seq(Items), NEW top, EndsAfter(a, sigma, top),
         NEW b, b = m + a - 1
  PROVE  EndsAfter(b, sigma, top)'
<1>1. Len(pending) = a + 2 * Len(sigma) /\ Len(sigma) \in Nat
  BY DEF EndsAfter
<1>2. Len(pending') = b + 2 * Len(sigma)
  BY <1>1 DEF Replaced
<1>3. ASSUME NEW k \in 1 .. Len(sigma)
      PROVE  /\ pending'[b + 2 * k - 1] = Set(sigma[k], Anywhere, 0)
             /\ pending'[b + 2 * k] = Compact(rows'[sigma[k]])
             /\ committed'[sigma[k]] > 0 /\ rows'[sigma[k]] \in 1 .. (top - 1)
  <2>1. /\ a + 2 * k - 2 \in 1 .. (Len(pending) - 1) /\ a + 2 * k - 2 + 1 = a + 2 * k - 1
        /\ m + (a + 2 * k - 2) = b + 2 * k - 1
        /\ a + 2 * k - 1 \in 1 .. (Len(pending) - 1) /\ a + 2 * k - 1 + 1 = a + 2 * k
        /\ m + (a + 2 * k - 1) = b + 2 * k
    BY <1>1
  <2>2. /\ pending'[m + (a + 2 * k - 2)] = pending[a + 2 * k - 2 + 1]
        /\ pending'[m + (a + 2 * k - 1)] = pending[a + 2 * k - 1 + 1]
    BY <2>1 DEF Replaced
  <2>3. /\ pending[a + 2 * k - 1] = Set(sigma[k], Anywhere, 0)
        /\ pending[a + 2 * k] = Compact(rows[sigma[k]])
        /\ committed[sigma[k]] > 0 /\ rows[sigma[k]] \in 1 .. (top - 1)
    BY DEF EndsAfter
  <2>4. committed' = committed /\ rows' = rows
    BY DEF Replaced
  <2> QED BY <2>1, <2>2, <2>3, <2>4
<1>4. \A j, k \in 1 .. Len(sigma): j < k => rows'[sigma[k]] < rows'[sigma[j]]
  BY DEF EndsAfter, Replaced
<1> QED BY <1>2, <1>3, <1>4 DEF EndsAfter, Anywhere, Bound, Set, Compact

LEMMA ToCompactSelects ==
  ASSUME TypeOK, NEW n, NEW p, NEW sigma \in Seq(Items), ToCompact(n, p, sigma)
  PROVE  /\ EveryUpdateApplies /\ ~ Update
         /\ SelectRows => /\ Compacting(n, p, sigma)' /\ UNCHANGED <<open, rows, committed, ended, seen>>
                          /\ pending' \in Seq(Statement)
<1> DEFINE s == ByPosition({i \in Items: rows[i] > p}, rows)
           m == n + 1 - p
           t == [k \in 1 .. m |-> rows[s[k]] - 1]
<1>1. n \in Nat /\ p \in 1 .. (n + 1) /\ p \in Nat /\ m \in Nat
  BY DEF ToCompact, Gap
<1>2. pending # <<>> /\ pending[1] = Compact(p) /\ Len(pending) \in Nat
  <2>1. Len(pending) = 1 + 2 * Len(sigma) /\ Len(sigma) \in Nat
    BY DEF ToCompact, EndsAfter
  <2> QED BY <2>1 DEF ToCompact
<1>3. Compact(p).kind = "compact" /\ Compact(p).at = p
  BY <1>1, StatementsAre
<1>4. ~ Update /\ Head(pending) = Compact(p) /\ EveryUpdateApplies
  BY <1>2, <1>3, SelectIs DEF EveryUpdateApplies
<1> SUFFICES ASSUME SelectRows
             PROVE  /\ Compacting(n, p, sigma)' /\ UNCHANGED <<open, rows, committed, ended, seen>>
                    /\ pending' \in Seq(Statement)
  BY <1>4
<1>5. s \in [1 .. m -> Items] /\ \A k \in 1 .. m: rows[s[k]] = p + k
  BY ZenonT(40), RowsAbove DEF ToCompact, TypeOK
<1>6. /\ pending' = [k \in 1 .. Len(s) |-> Set(s[k], {rows[s[k]]}, rows[s[k]] - 1)] \o Tail(pending)
      /\ UNCHANGED <<open, rows, committed, ended, seen>>
  <2> HIDE DEF t, m
  <2> QED BY <1>3, <1>4 DEF SelectRows
<1> HIDE DEF s, m
<1>7. Len(s) = m
  BY <1>1, <1>5, SequenceOf
<1>8. t \in [1 .. m -> Nat] /\ \A k \in 1 .. m: t[k] = p + k - 1
  BY <1>1, <1>5
<1>9. Replaced(m, s, t)
  <2>1. pending' = [k \in 1 .. m |-> Set(s[k], {rows[s[k]]}, t[k])] \o Tail(pending)
    <3>1. \A k \in 1 .. m: t[k] = rows[s[k]] - 1
      OBVIOUS
    <3> QED BY <1>6, <1>7, <3>1
  <2> HIDE DEF t
  <2> QED BY <1>1, <1>2, <1>5, <1>6, <1>8, <2>1, Selected
<1> HIDE DEF t
<1>10. EndsAfter(m, sigma, p)'
  BY <1>1, <1>2, <1>9, EndsAfterSelect DEF ToCompact
<1>11. ASSUME NEW k \in 1 .. m, NEW i \in Items, rows'[i] = p + k
       PROVE  pending'[k] = Set(i, {p + k}, p + k - 1)
  <2>1. rows[i] = rows[s[k]] /\ rows[i] > 0 /\ s[k] \in Items /\ rows[i] = p + k
    BY <1>1, <1>5, <1>6, <1>11
  <2>2. s[k] = i
    BY <2>1 DEF ToCompact, Gap
  <2>3. pending'[k] = Set(s[k], {rows[s[k]]}, t[k])
    BY <1>9 DEF Replaced
  <2> QED BY <1>8, <2>1, <2>2, <2>3
<1>12. Gap(rows', n, p) /\ Progress(sigma)'
  BY <1>6 DEF ToCompact, Progress, Entered, Gone, OrderKept
<1> QED BY <1>6, <1>9, <1>10, <1>11, <1>12 DEF Compacting, Set, m, Replaced
-----------------------------------------------------------------------------
\* Room is made from the last position down, and the item takes the free one.
LEMMA SpacingMoves ==
  ASSUME TypeOK, NEW n, NEW p, NEW i, NEW at, NEW sigma \in Seq(Items),
         Spacing(n, p, i, at, sigma), p # at
  PROVE  /\ EveryUpdateApplies /\ ~ SelectRows
         /\ Update => Spacing(n, p - 1, i, at, sigma)' /\ UNCHANGED open
<1>1. n \in Nat /\ at \in Nat \ {0} /\ p \in 2 .. (n + 1) /\ p \in Nat /\ p > at /\ p - at \in Nat \ {0}
      /\ i \in Items
  BY DEF Spacing, Inserting, Gap
<1>2. PICK j \in Items: rows[j] = p - 1
  <2>1. p - 1 \in (1 .. (n + 1)) \ {p}
    BY <1>1
  <2> QED BY <2>1 DEF Spacing, Inserting, Gap
<1>3. pending[1] = Set(j, {p - 1}, p)
  <2>1. pending[1] = Set(j, {p - 1}, p - 1 + 1)
    <3>1. 1 \in 1 .. (p - at)
      BY <1>1
    <3> QED BY <3>1, <1>2 DEF Spacing
  <2>2. p - 1 + 1 = p
    BY <1>1
  <2> QED BY <2>1, <2>2
<1>4. pending # <<>> /\ Len(pending) = p - at + 1 + 2 * Len(sigma) /\ Len(sigma) \in Nat
  <2>1. Len(pending) = p - at + 1 + 2 * Len(sigma) /\ Len(sigma) \in Nat
    BY DEF Spacing, EndsAfter
  <2> QED BY <1>1, <2>1
<1>5. \A k \in Items: rows[k] # p
  BY DEF Spacing, Inserting, Gap
<1>6. EveryUpdateApplies /\ ~ SelectRows /\ (Update => Applied(j, p) /\ UNCHANGED open)
  <2>1. {p - 1} \in SUBSET Nat /\ rows[j] \in {p - 1}
    BY <1>1, <1>2
  <2> QED BY <1>1, <1>3, <1>4, <1>5, <2>1, UpdateIs DEF EveryUpdateApplies
<1> SUFFICES ASSUME Update, Applied(j, p)
             PROVE  Spacing(n, p - 1, i, at, sigma)'
  BY <1>6
<1>7. /\ rows' = [rows EXCEPT ![j] = p] /\ rows' \in [Items -> Nat] /\ pending' = Tail(pending)
      /\ committed' = committed /\ ended' = ended
  BY <1>1 DEF Applied, TypeOK
<1>8. \A k \in Items: /\ rows[k] \in Nat /\ rows'[k] = IF k = j THEN p ELSE rows[k]
                      /\ rows[k] # p /\ (rows[k] = p - 1 <=> k = j)
  <2>1. \A k \in Items: rows[k] = rows[j] => k = j
    BY <1>1, <1>2 DEF Spacing, Inserting, Gap
  <2> QED BY <1>2, <1>5, <1>7, <2>1 DEF TypeOK
<1>9. Gap(rows', n, p - 1)
  <2>1. rows \in [Items -> Nat] /\ Gap(rows, n, p) /\ p > 1
    BY <1>1 DEF TypeOK, Spacing, Inserting
  <2> QED BY <1>2, <1>7, <2>1, RowUp
<1>10. Inserting(n, p - 1, i, at, sigma)'
  <2>1. \A k \in Items: rows[k] > 0 <=> rows'[k] > 0
    BY <1>1, <1>2, <1>8
  <2>2. \A k, l \in Items: rows[k] > 0 /\ rows[l] > 0 => (rows[k] < rows[l] <=> rows'[k] < rows'[l])
    BY <1>1, <1>2, <1>8
  <2>3. OrderKept /\ Entered = {} /\ Gone = {} /\ rows[i] = 0 /\ i \in Items \ ended
        /\ (sigma # <<>> => at = n + 1)
    BY DEF Spacing, Inserting
  <2>4. OrderKept' /\ Entered' = {} /\ Gone' = {}
    BY <1>7, <2>1, <2>2, <2>3, ProgressStays
  <2>5. rows'[i] = 0
    BY <1>1, <1>2, <1>8, <2>3
  <2>6. at \in 1 .. (p - 1)
    BY <1>1
  <2> QED BY <1>7, <1>9, <2>3, <2>4, <2>5, <2>6 DEF Inserting
<1>11. EndsAfter(p - at + 1 - 1, sigma, at)'
  <2>1. EndsAfter(p - at + 1, sigma, at)
    BY DEF Spacing
  <2>2. \A k \in 1 .. Len(sigma): rows'[sigma[k]] = rows[sigma[k]]
    <3>1. \A k \in 1 .. Len(sigma): rows[sigma[k]] \in 1 .. (at - 1) /\ sigma[k] \in Items
      BY <2>1 DEF EndsAfter
    <3> QED BY <1>1, <1>8, <3>1
  <2>3. at \in Nat /\ at <= at /\ p - at + 1 \in Nat \ {0}
    BY <1>1
  <2> QED BY <1>4, <1>7, <2>1, <2>2, <2>3, EndsAfterHead
<1>12. ASSUME NEW k \in 1 .. (p - 1 - at), NEW l \in Items, rows'[l] = p - 1 - k
       PROVE  pending'[k] = Set(l, {p - 1 - k}, p - 1 - k + 1)
  <2>1. k + 1 \in 1 .. (p - at) /\ p - 1 - k = p - (k + 1) /\ k \in 1 .. (Len(pending) - 1)
    BY <1>1, <1>4
  <2>2. rows[l] = p - (k + 1)
    BY <1>1, <1>8, <1>12, <2>1
  <2>3. pending[k + 1] = Set(l, {p - (k + 1)}, p - (k + 1) + 1)
    BY <2>1, <2>2 DEF Spacing
  <2>4. pending'[k] = pending[k + 1]
    BY <1>4, <1>7, <2>1, Rest DEF TypeOK
  <2> QED BY <2>1, <2>3, <2>4
<1>13. pending'[p - 1 - at + 1] = Set(i, {0}, at)
  <2>1. p - 1 - at + 1 \in 1 .. (Len(pending) - 1) /\ p - 1 - at + 1 + 1 = p - at + 1
    BY <1>1, <1>4
  <2>2. pending'[p - 1 - at + 1] = pending[p - 1 - at + 1 + 1]
    BY <1>4, <1>7, <2>1, Rest DEF TypeOK
  <2> QED BY <2>1, <2>2 DEF Spacing
<1>14. EndsAfter(p - 1 - at + 1, sigma, at)'
  <2>1. p - at + 1 - 1 = p - 1 - at + 1
    BY <1>1
  <2> QED BY <1>11, <2>1
<1> QED BY <1>10, <1>12, <1>13, <1>14 DEF Spacing, Set

LEMMA SpacingInserts ==
  ASSUME TypeOK, NEW n, NEW i, NEW at, NEW sigma \in Seq(Items), Spacing(n, at, i, at, sigma),
         \A j \in ended: committed[j] = 0
  PROVE  /\ EveryUpdateApplies /\ ~ SelectRows
         /\ n \in Nat /\ i \in Items
         /\ Update => Compacting(n + 1, n + 2, sigma)' /\ UNCHANGED open
<1>1. n \in Nat /\ at \in Nat \ {0} /\ at \in 1 .. (n + 1) /\ i \in Items \ ended /\ rows[i] = 0
  BY DEF Spacing, Inserting, Gap
<1>2. Gap(rows, n, at) /\ OrderKept /\ Entered = {} /\ Gone = {} /\ (sigma # <<>> => at = n + 1)
  BY DEF Spacing, Inserting
<1>3. pending[1] = Set(i, {0}, at) /\ EndsAfter(1, sigma, at)
  <2>1. at - at + 1 = 1
    BY <1>1
  <2> QED BY <2>1 DEF Spacing
<1>4. pending # <<>> /\ Len(pending) = 1 + 2 * Len(sigma) /\ Len(sigma) \in Nat
  <2>1. Len(pending) = 1 + 2 * Len(sigma) /\ Len(sigma) \in Nat
    BY <1>3 DEF EndsAfter
  <2> QED BY <2>1
<1>5. EveryUpdateApplies /\ ~ SelectRows /\ (Update => Applied(i, at) /\ UNCHANGED open)
  <2>1. {0} \in SUBSET Nat /\ rows[i] \in {0} /\ \A j \in Items: rows[j] # at
    BY <1>1, <1>2 DEF Gap
  <2> QED BY <1>1, <1>3, <1>4, <2>1, UpdateIs DEF EveryUpdateApplies
<1> SUFFICES ASSUME Update, Applied(i, at)
             PROVE  Compacting(n + 1, n + 2, sigma)'
  BY <1>1, <1>5
<1>6. /\ rows' = [rows EXCEPT ![i] = at] /\ rows' \in [Items -> Nat] /\ pending' = Tail(pending)
      /\ committed' = committed /\ ended' = ended
  BY <1>1 DEF Applied, TypeOK
<1>7. \A k \in Items: /\ rows[k] \in Nat /\ rows'[k] = IF k = i THEN at ELSE rows[k]
                      /\ committed[k] \in Nat
  BY <1>6 DEF TypeOK
<1>8. Gap(rows', n + 1, n + 2)
  <2>1. rows \in [Items -> Nat]
    BY DEF TypeOK
  <2>2. Dense([rows EXCEPT ![i] = at], n + 1)
    BY <1>1, <1>2, <2>1, RowIn
  <2>3. n + 1 + 1 = n + 2
    BY <1>1
  <2> QED BY <1>6, <2>2, <2>3 DEF Dense
<1>9. committed[i] = 0
  BY <1>1, <1>2, <1>7 DEF Gone
<1>10. OrderKept' /\ Entered' = {i} /\ Gone' = {}
  <2>1. OrderKept'
    BY <1>2, <1>6, <1>7, <1>9 DEF OrderKept
  <2>2. Entered' = {i}
    BY <1>1, <1>2, <1>6, <1>7, <1>9 DEF Entered
  <2>3. Gone' = {}
    BY <1>1, <1>2, <1>6, <1>7, <1>9 DEF Gone
  <2> QED BY <2>1, <2>2, <2>3
<1>11. Progress(sigma)'
  <2>1. CASE sigma = <<>>
    BY <1>1, <1>6, <1>10, <2>1 DEF Progress
  <2>2. CASE sigma # <<>>
    <3>1. \A j \in Items: rows'[j] <= rows'[i]
      BY <1>1, <1>2, <1>7, <2>2 DEF Gap
    <3> QED BY <1>1, <1>6, <1>10, <3>1 DEF Progress
  <2> QED BY <2>1, <2>2
<1>12. EndsAfter(1 - 1, sigma, n + 2)'
  <2>1. \A k \in 1 .. Len(sigma): rows'[sigma[k]] = rows[sigma[k]]
    <3>1. \A k \in 1 .. Len(sigma): rows[sigma[k]] \in 1 .. (at - 1) /\ sigma[k] \in Items
      BY <1>3 DEF EndsAfter
    <3> QED BY <1>1, <1>7, <3>1
  <2>2. n + 2 \in Nat /\ at <= n + 2 /\ 1 \in Nat \ {0} /\ at \in Nat
    BY <1>1
  <2> QED BY <1>3, <1>4, <1>6, <2>1, <2>2, EndsAfterHead
<1>13. n + 1 + 1 - (n + 2) = 1 - 1 /\ 1 .. (n + 1 + 1 - (n + 2)) = {}
  BY <1>1
<1>14. EndsAfter(n + 1 + 1 - (n + 2), sigma, n + 2)'
  BY <1>12, <1>13
<1> QED BY <1>8, <1>11, <1>13, <1>14 DEF Compacting, Set

LEMMA ToSpaceSelects ==
  ASSUME TypeOK, NEW n, NEW i, NEW at, NEW sigma \in Seq(Items), ToSpace(n, i, at, sigma)
  PROVE  /\ EveryUpdateApplies /\ ~ Update
         /\ SelectRows => /\ Spacing(n, n + 1, i, at, sigma)' /\ UNCHANGED <<open, rows, committed, ended, seen>>
                          /\ pending' \in Seq(Statement)
<1> DEFINE up == ByPosition({j \in Live(rows): rows[j] >= at}, rows)
           m == n + 1 - at
           s == Reverse(up)
           t == [k \in 1 .. m |-> rows[s[k]] + 1]
<1>1. n \in Nat /\ at \in 1 .. (n + 1) /\ at \in Nat /\ m \in Nat /\ Gap(rows, n, n + 1) /\ i \in Items
  BY DEF ToSpace, Inserting, Gap
<1>2. pending # <<>> /\ pending[1] = Space(at) /\ Len(pending) = 2 + 2 * Len(sigma) /\ Len(sigma) \in Nat
  <2>1. Len(pending) = 2 + 2 * Len(sigma) /\ Len(sigma) \in Nat
    BY DEF ToSpace, EndsAfter
  <2> QED BY <2>1 DEF ToSpace
<1>3. Space(at).kind = "space" /\ Space(at).at = at
  BY <1>1, StatementsAre
<1>4. ~ Update /\ Head(pending) = Space(at) /\ EveryUpdateApplies
  BY <1>2, <1>3, SelectIs DEF EveryUpdateApplies
<1> SUFFICES ASSUME SelectRows
             PROVE  /\ Spacing(n, n + 1, i, at, sigma)' /\ UNCHANGED <<open, rows, committed, ended, seen>>
                    /\ pending' \in Seq(Statement)
  BY <1>4
<1>5. up \in [1 .. m -> Items] /\ \A k \in 1 .. m: rows[up[k]] = at - 1 + k
  <2>1. rows \in [Items -> Nat] /\ Dense(rows, n)
    BY <1>1 DEF TypeOK, Dense
  <2> QED BY <1>1, <2>1, RowsFrom
<1>6. /\ pending' = [k \in 1 .. Len(s) |-> Set(s[k], {rows[s[k]]}, rows[s[k]] + 1)] \o Tail(pending)
      /\ UNCHANGED <<open, rows, committed, ended, seen>>
  <2> HIDE DEF t, m
  <2> QED BY <1>3, <1>4 DEF SelectRows
<1> HIDE DEF up, m
<1>7. Len(s) = m /\ s \in [1 .. m -> Items] /\ \A k \in 1 .. m: rows[s[k]] = n + 1 - k
  <2>1. Len(up) = m
    BY <1>1, <1>5, SequenceOf
  <2>2. s = [k \in 1 .. m |-> up[m - k + 1]]
    BY <2>1 DEF Reverse
  <2>3. \A k \in 1 .. m: m - k + 1 \in 1 .. m /\ up[m - k + 1] \in Items
    BY <1>1, <1>5
  <2>4. s \in [1 .. m -> Items]
    <3> HIDE DEF s
    <3> QED BY <2>2, <2>3
  <2>5. \A k \in 1 .. m: rows[s[k]] = n + 1 - k
    <3> SUFFICES ASSUME NEW k \in 1 .. m
                 PROVE  rows[s[k]] = n + 1 - k
      OBVIOUS
    <3>1. s[k] = up[m - k + 1] /\ rows[up[m - k + 1]] = at - 1 + (m - k + 1)
      <4> HIDE DEF s
      <4> QED BY <1>5, <2>2, <2>3
    <3>2. at - 1 + (m - k + 1) = n + 1 - k
      BY <1>1 DEF m
    <3> QED BY <3>1, <3>2
  <2>6. Len(s) = m
    <3> HIDE DEF s
    <3> QED BY <1>1, <2>4, SequenceOf
  <2> QED BY <2>4, <2>5, <2>6
<1> HIDE DEF s
<1>8. t \in [1 .. m -> Nat] /\ \A k \in 1 .. m: t[k] = n + 1 - k + 1
  <2>1. \A k \in 1 .. m: n + 1 - k \in Nat
    BY <1>1 DEF m
  <2> QED BY SMTT(30), <1>1, <1>7, <2>1
<1>9. Replaced(m, s, t)
  <2>1. pending' = [k \in 1 .. m |-> Set(s[k], {rows[s[k]]}, t[k])] \o Tail(pending)
    <3>1. \A k \in 1 .. m: t[k] = rows[s[k]] + 1
      OBVIOUS
    <3> QED BY <1>6, <1>7, <3>1
  <2> HIDE DEF t
  <2> QED BY <1>1, <1>2, <1>6, <1>7, <1>8, <2>1, Selected
<1> HIDE DEF t
<1>10. EndsAfter(m + 1, sigma, at)'
  <2>1. m + 1 = m + 2 - 1 /\ 2 \in Nat \ {0}
    BY <1>1
  <2> QED BY <1>1, <1>2, <1>9, <2>1, EndsAfterSelect DEF ToSpace
<1>11. ASSUME NEW k \in 1 .. m, NEW j \in Items, rows'[j] = n + 1 - k
       PROVE  pending'[k] = Set(j, {n + 1 - k}, n + 1 - k + 1)
  <2>1. rows[j] = rows[s[k]] /\ rows[j] > 0 /\ s[k] \in Items /\ rows[j] = n + 1 - k
    BY <1>1, <1>6, <1>7, <1>11 DEF m
  <2>2. s[k] = j
    BY <1>1, <2>1 DEF Gap
  <2>3. pending'[k] = Set(s[k], {rows[s[k]]}, t[k])
    BY <1>9 DEF Replaced
  <2> QED BY <1>8, <2>1, <2>2, <2>3
<1>12. pending'[m + 1] = Set(i, {0}, at)
  <2>1. pending'[m + 1] = pending[1 + 1]
    BY <1>2, <1>9 DEF Replaced
  <2>2. 1 + 1 = 2
    OBVIOUS
  <2> QED BY <2>1, <2>2 DEF ToSpace
<1>13. Inserting(n, n + 1, i, at, sigma)'
  BY <1>6 DEF ToSpace, Inserting, Entered, Gone, OrderKept, Gap
<1>14. \A k \in 1 .. (n + 1 - at): \A j \in Items:
          rows'[j] = n + 1 - k => pending'[k] = Set(j, {n + 1 - k}, n + 1 - k + 1)
  BY <1>11 DEF m
<1>15. pending'[n + 1 - at + 1] = Set(i, {0}, at) /\ EndsAfter(n + 1 - at + 1, sigma, at)'
  BY <1>10, <1>12 DEF m
<1>16. Spacing(n, n + 1, i, at, sigma)'
  <2>1. PICK p \in Nat: p = n + 1
    BY <1>1
  <2>2. Inserting(n, p, i, at, sigma)' /\ EndsAfter(p - at + 1, sigma, at)'
    BY <1>1, <1>13, <1>15, <2>1
  <2>3. \A k \in 1 .. (p - at): \A j \in Items:
           rows'[j] = p - k => pending'[k] = Set(j, {p - k}, p - k + 1)
    BY <1>1, <1>14, <2>1
  <2>4. pending'[p - at + 1] = Set(i, {0}, at)
    BY <1>1, <1>15, <2>1
  <2>5. Spacing(n, p, i, at, sigma)'
    BY <2>2, <2>3, <2>4 DEF Spacing, Set
  <2> QED BY <2>1, <2>5
<1> QED BY <1>6, <1>9, <1>16 DEF Replaced
-----------------------------------------------------------------------------
\* Where a transaction starts.
Idle(n) == Dense(committed, n) /\ rows = committed /\ ~ open

LEMMA NothingYet ==
  ASSUME TypeOK, NEW n, Idle(n), UNCHANGED <<committed, rows, ended, seen>>, NEW sigma
  PROVE  /\ n \in Nat /\ rows' = committed /\ committed' = committed
         /\ Gap(rows', n, n + 1) /\ Progress(sigma)'
         /\ OrderKept' /\ Entered' = {} /\ Gone' = {}
<1>1. rows = committed /\ Gap(rows, n, n + 1) /\ n \in Nat
  BY DEF Idle, Dense, Gap
<1>2. Entered' = {} /\ Gone' = {} /\ OrderKept'
  BY <1>1 DEF Entered, Gone, OrderKept, TypeOK
<1>3. Progress(sigma)'
  BY <1>2 DEF Progress
<1> QED BY <1>1, <1>2, <1>3 DEF Gap

LEMMA EndBegins ==
  ASSUME TypeOK, NEW n, Idle(n), NEW i \in Items, End(i)
  PROVE  Compacting(n, n + 1, <<i>>)' /\ pending' \in Seq(Statement) /\ <<i>> \in Seq(Items) /\ n \in Nat
<1>1. /\ pending' = <<Set(i, Anywhere, 0), Compact(committed[i])>>
      /\ UNCHANGED <<committed, rows, ended, seen>> /\ committed[i] > 0
  BY DEF End, Begin, Ending
<1>2. /\ n \in Nat /\ rows' = committed /\ committed' = committed
      /\ Gap(rows', n, n + 1) /\ Progress(<<i>>)'
  BY <1>1, NothingYet
<1>3. committed[i] \in 1 .. n
  BY <1>1, <1>2 DEF Gap
<1>4. Set(i, Anywhere, 0) \in Statement /\ Compact(committed[i]) \in Statement
  BY <1>3, StatementsAre
<1>5. EndsAfter(0, <<i>>, n + 1)'
  <2> DEFINE sigma == <<i>>
  <2>1. Len(sigma) = 1 /\ sigma[1] = i
    OBVIOUS
  <2> HIDE DEF sigma
  <2>2. Len(pending') = 0 + 2 * Len(sigma)
    BY <1>1, <2>1
  <2>3. ASSUME NEW k \in 1 .. Len(sigma)
        PROVE  /\ pending'[0 + 2 * k - 1] = Set(sigma[k], Anywhere, 0)
               /\ pending'[0 + 2 * k] = Compact(rows'[sigma[k]])
               /\ committed'[sigma[k]] > 0 /\ rows'[sigma[k]] \in 1 .. (n + 1 - 1)
    <3>1. k = 1 /\ 0 + 2 * k - 1 = 1 /\ 0 + 2 * k = 2 /\ sigma[k] = i
      BY <2>1
    <3>2. n + 1 - 1 = n
      BY <1>2
    <3>3. pending'[1] = Set(i, Anywhere, 0) /\ pending'[2] = Compact(committed[i])
      BY <1>1
    <3> QED BY <1>1, <1>2, <1>3, <3>1, <3>2, <3>3
  <2>4. \A j, k \in 1 .. Len(sigma): j < k => rows'[sigma[k]] < rows'[sigma[j]]
    BY <2>1
  <2>5. EndsAfter(0, sigma, n + 1)'
    BY <1>2, <2>1, <2>2, <2>3, <2>4 DEF EndsAfter, Anywhere, Bound, Set, Compact
  <2> QED BY <2>5 DEF sigma
<1>6. n + 1 - (n + 1) = 0 /\ 1 .. 0 = {}
  BY <1>2
<1>7. EndsAfter(n + 1 - (n + 1), <<i>>, n + 1)'
  BY <1>5, <1>6
<1> QED BY <1>1, <1>2, <1>4, <1>6, <1>7 DEF Compacting, Set

LEMMA ProposeBegins ==
  ASSUME TypeOK, NEW n, Idle(n), NEW i \in Items, NEW at \in Nat \ {0}, Propose(i, at)
  PROVE  /\ ToSpace(n, i, at, <<>>)' /\ pending' \in Seq(Statement)
         /\ at \in 1 .. (n + 1) /\ n \in Nat
<1>1. /\ pending' = <<Space(at), Set(i, {0}, at)>> /\ UNCHANGED <<committed, rows, ended, seen>>
      /\ committed[i] = 0 /\ i \notin ended /\ at <= LiveCount(committed) + 1
  BY DEF Propose, Begin
<1>2. /\ n \in Nat /\ rows' = committed /\ committed' = committed
      /\ Gap(rows', n, n + 1) /\ OrderKept' /\ Entered' = {} /\ Gone' = {}
  BY <1>1, NothingYet
<1>3. at \in 1 .. (n + 1)
  <2>1. LiveCount(committed) = n
    BY LastPosition DEF Idle, TypeOK
  <2> QED BY <1>1, <1>2, <2>1
<1>4. Space(at) \in Statement /\ Set(i, {0}, at) \in Statement
  BY StatementsAre
<1>5. Inserting(n, n + 1, i, at, <<>>)'
  BY <1>1, <1>2, <1>3 DEF Inserting
<1>6. EndsAfter(2, <<>>, at)'
  BY <1>1 DEF EndsAfter
<1>7. ToSpace(n, i, at, <<>>)'
  BY <1>1, <1>5, <1>6 DEF ToSpace, Space, Set
<1> QED BY <1>1, <1>2, <1>3, <1>4, <1>7

\* The statements that end the items of sigma.
LEMMA EndingsAre ==
  ASSUME TypeOK, NEW m \in Nat, NEW sigma \in [1 .. m -> Items]
  PROVE  LET flat == FlattenSeq([k \in 1 .. m |-> Ending(sigma[k])]) IN
         /\ flat \in Seq(Statement) /\ Len(flat) = 2 * m
         /\ \A k \in 1 .. m: /\ flat[2 * k - 1] = Set(sigma[k], Anywhere, 0)
                             /\ flat[2 * k] = Compact(committed[sigma[k]])
<1> DEFINE first == [k \in 1 .. m |-> Set(sigma[k], Anywhere, 0)]
           second == [k \in 1 .. m |-> Compact(committed[sigma[k]])]
<1>1. first \in [1 .. m -> Statement] /\ second \in [1 .. m -> Statement]
  <2>1. ASSUME NEW k \in 1 .. m
        PROVE  Set(sigma[k], Anywhere, 0) \in Statement /\ Compact(committed[sigma[k]]) \in Statement
    <3>1. sigma[k] \in Items /\ committed[sigma[k]] \in Nat /\ Anywhere \in SUBSET Nat /\ 0 \in Nat
      BY StatementsAre DEF TypeOK
    <3> QED BY <3>1, StatementsAre
  <2> QED BY <2>1
<1>2. [k \in 1 .. m |-> Ending(sigma[k])] = Pairs(m, first, second)
  BY DEF Ending, Pairs
<1>3. \A k \in 1 .. m: first[k] = Set(sigma[k], Anywhere, 0) /\ second[k] = Compact(committed[sigma[k]])
  OBVIOUS
<1> HIDE DEF first, second
<1> DEFINE flat == FlattenSeq(Pairs(m, first, second))
<1>4. Interleaved(flat, Statement, m, first, second)
  BY <1>1, FlattenedPairs
<1> HIDE DEF flat
<1>5. /\ flat \in Seq(Statement) /\ Len(flat) = 2 * m
      /\ \A k \in 1 .. m: /\ flat[2 * k - 1] = Set(sigma[k], Anywhere, 0)
                          /\ flat[2 * k] = Compact(committed[sigma[k]])
  BY <1>3, <1>4 DEF Interleaved
<1>6. flat = FlattenSeq([k \in 1 .. m |-> Ending(sigma[k])])
  BY <1>2 DEF flat
<1> QED BY <1>5, <1>6

\* The sources, from the last to the first.
LEMMA SourcesAre ==
  ASSUME TypeOK, NEW n, Dense(committed, n), NEW sources, sources \subseteq Live(committed)
  PROVE  LET m == Cardinality(sources)
             sigma == Reverse(ByPosition(sources, committed))
         IN /\ m \in Nat /\ sigma \in [1 .. m -> sources] /\ sigma \in [1 .. m -> Items]
            /\ \A j, k \in 1 .. m: j < k => committed[sigma[k]] < committed[sigma[j]]
<1> DEFINE m == Cardinality(sources)
           up == ByPosition(sources, committed)
           sigma == Reverse(up)
<1>1. sources \subseteq Items /\ IsFiniteSet(sources)
  <2>1. sources \subseteq Items
    BY DEF Live
  <2> QED BY <2>1, QueueAssumption, FS_Subset
<1>2. \A i \in sources: committed[i] \in Nat
  BY <1>1 DEF TypeOK
<1>3. \A i, j \in sources: committed[i] = committed[j] => i = j
  BY <1>1 DEF Live, Dense, Gap
<1>4. m \in Nat /\ Sorts(up, m, sources, committed)
  BY <1>1, <1>2, <1>3, Sorted
<1>5. /\ up \in [1 .. m -> sources]
      /\ \A j, k \in 1 .. m: j < k => committed[up[j]] < committed[up[k]]
  BY <1>4 DEF Sorts
<1> HIDE DEF up, m
<1>6. sigma = [k \in 1 .. m |-> up[m - k + 1]]
  <2>1. Len(up) = m
    BY <1>4, <1>5, SequenceOf
  <2> QED BY <2>1 DEF Reverse
<1>7. \A k \in 1 .. m: m - k + 1 \in 1 .. m
  BY <1>4
<1> HIDE DEF sigma
<1>8. sigma \in [1 .. m -> sources] /\ sigma \in [1 .. m -> Items]
  BY <1>1, <1>5, <1>6, <1>7
<1>9. ASSUME NEW j \in 1 .. m, NEW k \in 1 .. m, j < k
      PROVE  committed[sigma[k]] < committed[sigma[j]]
  <2>1. m - k + 1 < m - j + 1
    BY <1>4, <1>9
  <2>2. sigma[k] = up[m - k + 1] /\ sigma[j] = up[m - j + 1]
    BY <1>6
  <2> QED BY <1>5, <1>7, <2>1, <2>2
<1> QED BY <1>4, <1>8, <1>9 DEF m, up, sigma

LEMMA ConsolidateBegins ==
  ASSUME TypeOK, NEW n, Idle(n), NEW campaign \in Items, NEW sources \in SUBSET Items,
         Consolidate(campaign, sources), NEW sigma, sigma = Reverse(ByPosition(sources, committed))
  PROVE  /\ n \in Nat /\ sigma \in Seq(Items) /\ pending' \in Seq(Statement)
         /\ Compacting(n, n + 1, sigma)' \/ ToSpace(n, campaign, n + 1, sigma)'
<1> DEFINE m == Cardinality(sources)
           flat == FlattenSeq([k \in 1 .. m |-> Ending(sigma[k])])
<1>1. /\ sources # {} /\ sources \subseteq Live(committed) /\ campaign \notin ended
      /\ UNCHANGED <<committed, rows, ended, seen>>
  BY DEF Consolidate, Begin
<1>2. /\ n \in Nat /\ rows' = committed /\ committed' = committed /\ ended' = ended
      /\ Gap(rows', n, n + 1) /\ Progress(sigma)' /\ OrderKept' /\ Entered' = {} /\ Gone' = {}
  BY <1>1, NothingYet
<1>3. /\ m \in Nat /\ sigma \in [1 .. m -> sources] /\ sigma \in [1 .. m -> Items]
      /\ \A j, k \in 1 .. m: j < k => committed[sigma[k]] < committed[sigma[j]]
  BY <1>1, SourcesAre DEF Idle
<1>4. /\ flat \in Seq(Statement) /\ Len(flat) = 2 * m
      /\ \A k \in 1 .. m: /\ flat[2 * k - 1] = Set(sigma[k], Anywhere, 0)
                          /\ flat[2 * k] = Compact(committed[sigma[k]])
  BY <1>3, EndingsAre
<1>5. pending' = (IF committed[campaign] = 0
                  THEN <<Space(n + 1), Set(campaign, {0}, n + 1)>> ELSE <<>>) \o flat
  <2>1. LiveCount(committed) = n
    BY LastPosition DEF Idle, TypeOK
  <2>2. flat = FlattenSeq([k \in 1 .. Cardinality(sources) |->
                Ending(Reverse(ByPosition(sources, committed))[k])])
    OBVIOUS
  <2> HIDE DEF flat
  <2> QED BY <2>1, <2>2 DEF Consolidate, Begin
<1> HIDE DEF flat
<1>6. sigma \in Seq(Items) /\ Len(sigma) = m
  BY <1>3, SequenceOf
<1>7. \A k \in 1 .. m: committed[sigma[k]] > 0 /\ committed[sigma[k]] \in 1 .. n
  BY <1>1, <1>2, <1>3 DEF Live, Gap
<1>8. ASSUME NEW a \in Nat, pending' \in Seq(Statement), Len(pending') = a + 2 * m,
             \A l \in 1 .. 2 * m: pending'[a + l] = flat[l]
      PROVE  EndsAfter(a, sigma, n + 1)'
  <2>1. ASSUME NEW k \in 1 .. Len(sigma)
        PROVE  /\ pending'[a + 2 * k - 1] = Set(sigma[k], Anywhere, 0)
               /\ pending'[a + 2 * k] = Compact(rows'[sigma[k]])
               /\ committed'[sigma[k]] > 0 /\ rows'[sigma[k]] \in 1 .. (n + 1 - 1)
    <3>1. /\ 2 * k - 1 \in 1 .. 2 * m /\ 2 * k \in 1 .. 2 * m /\ a + (2 * k - 1) = a + 2 * k - 1
          /\ k \in 1 .. m /\ n + 1 - 1 = n
      BY <1>2, <1>3, <1>6, <1>8
    <3>2. pending'[a + (2 * k - 1)] = flat[2 * k - 1] /\ pending'[a + 2 * k] = flat[2 * k]
      BY <1>8, <3>1
    <3> QED BY <1>2, <1>4, <1>7, <3>1, <3>2
  <2>2. \A j, k \in 1 .. Len(sigma): j < k => rows'[sigma[k]] < rows'[sigma[j]]
    BY <1>2, <1>3, <1>6
  <2>3. Len(pending') = a + 2 * Len(sigma)
    BY <1>6, <1>8
  <2>4. n \in Nat /\ Len(sigma) \in Nat
    BY <1>2, <1>6
  <2> QED BY <2>1, <2>2, <2>3, <2>4 DEF EndsAfter, Anywhere, Bound, Set, Compact
<1>9. CASE committed[campaign] = 0
  <2> DEFINE start == <<Space(n + 1), Set(campaign, {0}, n + 1)>>
  <2>1. start \in Seq(Statement) /\ Len(start) = 2
        /\ start[1] = Space(n + 1) /\ start[2] = Set(campaign, {0}, n + 1)
    <3>1. Space(n + 1) \in Statement /\ Set(campaign, {0}, n + 1) \in Statement
      BY <1>2, StatementsAre
    <3> QED BY <3>1
  <2>2. pending' = start \o flat
    BY <1>5, <1>9
  <2> HIDE DEF start
  <2>3. /\ pending' \in Seq(Statement) /\ Len(pending') = 2 + 2 * m
        /\ \A k \in 1 .. (2 + 2 * m):
             pending'[k] = IF k <= 2 THEN start[k] ELSE flat[k - 2]
    <3>1. /\ start \o flat \in Seq(Statement) /\ Len(start \o flat) = Len(start) + Len(flat)
          /\ \A k \in 1 .. Len(start) + Len(flat):
               (start \o flat)[k] = IF k <= Len(start) THEN start[k] ELSE flat[k - Len(start)]
      BY <1>4, <2>1, ConcatProperties
    <3> QED BY <1>4, <2>1, <2>2, <3>1
  <2>4. pending'[1] = Space(n + 1) /\ pending'[2] = Set(campaign, {0}, n + 1)
    <3>1. 1 \in 1 .. (2 + 2 * m) /\ 2 \in 1 .. (2 + 2 * m)
      BY <1>3
    <3> QED BY <2>1, <2>3, <3>1
  <2>5. \A l \in 1 .. 2 * m: pending'[2 + l] = flat[l]
    <3> SUFFICES ASSUME NEW l \in 1 .. 2 * m
                 PROVE  pending'[2 + l] = flat[l]
      OBVIOUS
    <3>1. 2 + l \in 1 .. (2 + 2 * m) /\ ~ 2 + l <= 2 /\ 2 + l - 2 = l
      BY <1>3
    <3> QED BY <2>3, <3>1
  <2>6. EndsAfter(2, sigma, n + 1)'
    BY <1>8, <2>3, <2>5
  <2>7. Inserting(n, n + 1, campaign, n + 1, sigma)'
    BY <1>1, <1>2, <1>9 DEF Inserting
  <2>8. ToSpace(n, campaign, n + 1, sigma)'
    BY <2>4, <2>6, <2>7 DEF ToSpace, Space, Set
  <2> QED BY <1>2, <1>6, <2>3, <2>8
<1>10. CASE committed[campaign] # 0
  <2>1. pending' = flat
    BY <1>4, <1>5, <1>10
  <2>2. \A l \in 1 .. 2 * m: pending'[0 + l] = flat[l]
    BY <1>3, <2>1
  <2>3. EndsAfter(0, sigma, n + 1)'
    BY <1>3, <1>4, <1>8, <2>1, <2>2
  <2>4. n + 1 - (n + 1) = 0 /\ 1 .. 0 = {}
    BY <1>2
  <2>5. EndsAfter(n + 1 - (n + 1), sigma, n + 1)'
    BY <2>3, <2>4
  <2>6. Compacting(n, n + 1, sigma)'
    BY <1>2, <2>4, <2>5 DEF Compacting, Set
  <2> QED BY <1>2, <1>4, <1>6, <2>1, <2>6
<1> QED BY <1>9, <1>10
-----------------------------------------------------------------------------
\* A request that has the live items in another order.
Requests(n, requested) ==
  /\ n \in Nat /\ requested \in [1 .. n -> Items]
  /\ \A i \in Items: committed[i] > 0 <=> \E k \in 1 .. n: requested[k] = i
  /\ Dense(committed, n)

\* moved has the m places where the order changes.
Rearranges(n, requested, moved, m) ==
  /\ n \in Nat /\ m \in Nat
  /\ \A k \in 1 .. n: requested[k] \in Items /\ committed[requested[k]] > 0
  /\ \A j, k \in 1 .. n: requested[j] = requested[k] => j = k
  /\ \A i \in Items: /\ committed[i] \in 0 .. n
                     /\ committed[i] > 0 => \E k \in 1 .. n: requested[k] = i
  /\ moved \in [1 .. m -> 1 .. n]
  /\ \A j, k \in 1 .. m: moved[j] = moved[k] => j = k
  /\ \A q \in 1 .. n: (\A k \in 1 .. m: moved[k] # q) => committed[requested[q]] = q

LEMMA RearrangementOf ==
  ASSUME TypeOK, NEW n, NEW requested, Requests(n, requested),
         NEW moved, moved = Moved(InOrder(committed), requested), NEW m, m = Len(moved)
  PROVE  Rearranges(n, requested, moved, m)
<1> DEFINE before == InOrder(committed)
           live == Live(committed)
<1>1. /\ n \in Nat /\ Cardinality(live) = n /\ requested \in [1 .. n -> Items]
      /\ before \in [1 .. n -> Items] /\ \A k \in 1 .. n: committed[before[k]] = k
  <2>1. committed \in [Items -> Nat] /\ Dense(committed, n)
    BY DEF TypeOK, Requests
  <2> QED BY <2>1, OrderOf DEF Requests
<1>2. requested \in [1 .. n -> live] /\ requested \in Surjection(1 .. n, live)
  <2>1. \A k \in 1 .. n: requested[k] \in live
    BY <1>1 DEF Requests, Live
  <2>2. \A i \in live: \E k \in 1 .. n: requested[k] = i
    BY DEF Requests, Live
  <2>3. requested \in [1 .. n -> live]
    BY <1>1, <2>1
  <2> HIDE DEF live
  <2> QED BY <2>2, <2>3 DEF Surjection
<1>3. requested \in Injection(1 .. n, live)
  <2>1. IsFiniteSet(1 .. n) /\ Cardinality(1 .. n) = n
    BY <1>1, FS_Interval
  <2>2. IsFiniteSet(live)
    BY QueueAssumption, FS_Subset DEF Live
  <2> HIDE DEF live
  <2> QED BY <1>1, <1>2, <2>1, <2>2, FS_SurjSameCardinalityImpliesInj
<1>4. \A j, k \in 1 .. n: requested[j] = requested[k] => j = k
  BY <1>3 DEF Injection, IsInjective
<1> DEFINE changed == {k \in 1 .. n: before[k] # requested[k]}
           place == [k \in changed |-> k]
<1>5. moved = ByPosition(changed, place)
  <2>1. Len(requested) = n
    BY <1>1, SequenceOf
  <2>2. {k \in 1 .. Len(requested): before[k] # requested[k]} = changed
    BY <2>1
  <2> HIDE DEF changed
  <2> QED BY <2>2 DEF Moved
<1>6. IsFiniteSet(changed)
  <2>1. IsFiniteSet(1 .. n)
    BY <1>1, FS_Interval
  <2>2. changed \in SUBSET (1 .. n)
    OBVIOUS
  <2> HIDE DEF changed
  <2> QED BY <2>1, <2>2, FS_Subset
<1>7. Cardinality(changed) \in Nat /\ Sorts(moved, Cardinality(changed), changed, place)
  <2>1. \A k \in changed: place[k] \in Nat
    BY <1>1
  <2>2. \A j, k \in changed: place[j] = place[k] => j = k
    OBVIOUS
  <2> HIDE DEF changed, place
  <2> QED BY <1>5, <1>6, <2>1, <2>2, Sorted
<1> DEFINE c == Cardinality(changed)
<1>8. /\ c \in Nat /\ moved \in [1 .. c -> changed]
      /\ \A j, k \in 1 .. c: j < k => moved[j] < moved[k]
      /\ \A q \in changed: \E k \in 1 .. c: moved[k] = q
  <2>1. \A k \in 1 .. c: moved[k] \in changed /\ place[moved[k]] = moved[k]
    BY <1>7 DEF Sorts
  <2> HIDE DEF c, changed, place
  <2> QED BY <1>7, <2>1 DEF Sorts, c
<1>9. changed \subseteq 1 .. n
      /\ \A q \in (1 .. n) \ changed: committed[requested[q]] = q
  BY <1>1
<1> HIDE DEF c, changed, live, before
<1>10. m = c
  BY <1>8, SequenceOf
<1>11. moved \in [1 .. m -> 1 .. n]
  BY <1>8, <1>9, <1>10
<1>12. \A j, k \in 1 .. m: moved[j] = moved[k] => j = k
  <2> SUFFICES ASSUME NEW j \in 1 .. m, NEW k \in 1 .. m, j < k \/ k < j
               PROVE  moved[j] # moved[k]
    BY <1>8, <1>10
  <2>1. moved[j] \in 1 .. n /\ moved[k] \in 1 .. n
    BY <1>11
  <2> QED BY <1>1, <1>8, <1>10, <2>1
<1>13. \A q \in 1 .. n: (\A k \in 1 .. m: moved[k] # q) => committed[requested[q]] = q
  BY <1>8, <1>9, <1>10
<1>14. \A k \in 1 .. n: requested[k] \in Items /\ committed[requested[k]] > 0
  BY <1>1 DEF Requests
<1>15. \A i \in Items: /\ committed[i] \in 0 .. n
                       /\ committed[i] > 0 => \E k \in 1 .. n: requested[k] = i
  BY <1>1 DEF Requests, Dense, Gap
<1> QED BY <1>1, <1>4, <1>8, <1>10, <1>11, <1>12, <1>13, <1>14, <1>15 DEF Rearranges

\* First every moved item goes above the live range, then each to its place.
MovesOf(moves, n, requested, moved, m) ==
  /\ moves \in Seq(Statement) /\ Len(moves) = 2 * m
  /\ \A k \in 1 .. m: /\ moves[k] = Set(requested[moved[k]], Anywhere, n + moved[k])
                      /\ moves[m + k] = Set(requested[moved[k]], {n + moved[k]}, moved[k])

LEMMA MovesAre ==
  ASSUME TypeOK, NEW n, NEW requested, Requests(n, requested),
         NEW moved, moved = Moved(InOrder(committed), requested), NEW m, m = Len(moved),
         NEW moves, moves = Moves(InOrder(committed), requested)
  PROVE  MovesOf(moves, n, requested, moved, m)
<1> DEFINE first == [k \in 1 .. m |-> Set(requested[moved[k]], Anywhere, n + moved[k])]
           second == [k \in 1 .. m |-> Set(requested[moved[k]], {n + moved[k]}, moved[k])]
<1>1. Rearranges(n, requested, moved, m)
  BY RearrangementOf
<1>2. Len(InOrder(committed)) = n
  <2>1. committed \in [Items -> Nat] /\ Dense(committed, n)
    BY DEF TypeOK, Requests
  <2> QED BY <2>1, OrderOf
<1>3. moves = first \o second
  BY <1>2 DEF Moves
<1>4. \A k \in 1 .. m: first[k] \in Statement /\ second[k] \in Statement
  <2> SUFFICES ASSUME NEW k \in 1 .. m
               PROVE  first[k] \in Statement /\ second[k] \in Statement
    OBVIOUS
  <2>1. moved[k] \in 1 .. n /\ requested[moved[k]] \in Items /\ n \in Nat
    BY <1>1 DEF Rearranges
  <2>2. n + moved[k] \in Nat /\ moved[k] \in Nat /\ {n + moved[k]} \in SUBSET Nat
        /\ Anywhere \in SUBSET Nat
    BY <2>1, StatementsAre
  <2> QED BY <2>1, <2>2, StatementsAre
<1>5. /\ \A k \in 1 .. m: first[k] = Set(requested[moved[k]], Anywhere, n + moved[k])
      /\ \A k \in 1 .. m: second[k] = Set(requested[moved[k]], {n + moved[k]}, moved[k])
  OBVIOUS
<1>6. first \in [1 .. m -> Statement] /\ second \in [1 .. m -> Statement] /\ m \in Nat
  BY <1>1, <1>4 DEF Rearranges
<1> HIDE DEF first, second
<1>7. first \in Seq(Statement) /\ second \in Seq(Statement) /\ Len(first) = m /\ Len(second) = m
  BY <1>6, SequenceOf
<1>8. /\ first \o second \in Seq(Statement) /\ Len(first \o second) = Len(first) + Len(second)
      /\ \A k \in 1 .. Len(first) + Len(second):
           (first \o second)[k] = IF k <= Len(first) THEN first[k] ELSE second[k - Len(first)]
  BY <1>7, ConcatProperties
<1>9. ASSUME NEW k \in 1 .. m
      PROVE  moves[k] = first[k] /\ moves[m + k] = second[k]
  <2>1. /\ k \in 1 .. Len(first) + Len(second) /\ m + k \in 1 .. Len(first) + Len(second)
        /\ k <= Len(first) /\ ~ m + k <= Len(first) /\ m + k - Len(first) = k
    BY <1>6, <1>7
  <2>2. (first \o second)[k] = first[k]
    BY <1>8, <2>1
  <2>3. (first \o second)[m + k] = second[m + k - Len(first)]
    BY <1>8, <2>1
  <2> QED BY <1>3, <2>1, <2>2, <2>3
<1>10. moves \in Seq(Statement) /\ Len(moves) = 2 * m
  BY <1>3, <1>6, <1>7, <1>8
<1> QED BY <1>5, <1>9, <1>10 DEF MovesOf
-----------------------------------------------------------------------------
\* How far t UPDATEs have brought the rows.
Reordered(n, requested, moved, m, t) ==
  /\ \A k \in 1 .. m:
       rows[requested[moved[k]]] = IF t < k THEN committed[requested[moved[k]]]
                                   ELSE IF t < m + k THEN n + moved[k] ELSE moved[k]
  /\ \A i \in Items: (\A k \in 1 .. m: i # requested[moved[k]]) => rows[i] = committed[i]

StillToMove(moves, m, t) ==
  /\ t \in 0 .. 2 * m /\ Len(pending) = 2 * m - t
  /\ \A k \in 1 .. (2 * m - t): pending[k] = moves[t + k]

LEMMA ReorderingIs ==
  ASSUME NEW n, NEW requested, NEW t,
         NEW moved, moved = Moved(InOrder(committed), requested), NEW m, m = Len(moved),
         NEW moves, moves = Moves(InOrder(committed), requested), n \in Nat
  PROVE  Reordering(n, requested, t) <=>
           /\ Requests(n, requested) /\ StillToMove(moves, m, t) /\ Reordered(n, requested, moved, m, t)
           /\ \E a \in Agents: seen[a] = InOrder(committed)
<1> DEFINE before == InOrder(committed)
<1>1. moved = Moved(before, requested) /\ moves = Moves(before, requested)
  OBVIOUS
<1> HIDE DEF before
<1> QED BY <1>1 DEF Reordering, Requests, StillToMove, Reordered, before

LEMMA ReorderBegins ==
  ASSUME TypeOK, NEW n, Idle(n), NEW a \in Agents, NEW requested \in Orders, Reorder(a, requested)
  PROVE  Reordering(n, requested, 0)' /\ pending' \in Seq(Statement) /\ n \in Nat
         /\ requested \in [1 .. n -> Items]
<1> DEFINE before == InOrder(committed)
           moved == Moved(before, requested)
           m == Len(moved)
           moves == Moves(before, requested)
<1>1. /\ n \in Nat /\ before \in [1 .. n -> Items] /\ Len(before) = n
      /\ \A k \in 1 .. n: committed[before[k]] = k
      /\ \A i \in Items: committed[i] > 0 => committed[i] \in 1 .. n /\ before[committed[i]] = i
  <2>1. committed \in [Items -> Nat] /\ Dense(committed, n)
    BY DEF TypeOK, Idle
  <2>2. n \in Nat
    BY <2>1 DEF Dense, Gap
  <2> QED BY <2>1, <2>2, OrderOf
<1>2. /\ before = seen[a] /\ Len(requested) = Len(before) /\ ToSet(requested) = ToSet(before)
      /\ pending' = moves /\ UNCHANGED <<committed, rows, ended, seen>>
  BY DEF Reorder, DecideOrder, Begin
<1> HIDE DEF before
<1>3. requested \in [1 .. n -> Items]
  <2>1. PICK l \in 0 .. Cardinality(Items): requested \in [1 .. l -> Items]
    BY DEF Orders
  <2>2. l \in Nat
    BY QueueAssumption, FS_CardinalityType
  <2>3. Len(requested) = l
    BY <2>1, <2>2, SequenceOf
  <2> QED BY <1>1, <1>2, <2>1, <2>3
<1>4. \A i \in Items: committed[i] > 0 <=> \E k \in 1 .. n: requested[k] = i
  <2>1. DOMAIN before = 1 .. n /\ DOMAIN requested = 1 .. n
    BY <1>1, <1>3
  <2>2. \A i \in Items: i \in ToSet(before) <=> \E k \in 1 .. n: before[k] = i
    BY <2>1 DEF ToSet
  <2>3. \A i \in Items: i \in ToSet(requested) <=> \E k \in 1 .. n: requested[k] = i
    BY <2>1 DEF ToSet
  <2>4. \A i \in Items: committed[i] > 0 <=> \E k \in 1 .. n: before[k] = i
    BY <1>1
  <2> QED BY <1>2, <2>2, <2>3, <2>4
<1>5. Requests(n, requested)
  BY <1>1, <1>3, <1>4 DEF Requests, Idle
<1>6. Rearranges(n, requested, moved, m) /\ MovesOf(moves, n, requested, moved, m)
  <2> HIDE DEF moved, m, moves
  <2>1. moved = Moved(InOrder(committed), requested) /\ m = Len(moved) /\ moves = Moves(InOrder(committed), requested)
    BY DEF moved, m, moves, before
  <2> QED BY <1>5, <2>1, RearrangementOf, MovesAre
<1>7. before' = before /\ moved' = moved /\ moves' = moves /\ m' = m
  <2>1. before' = before
    <3>1. committed' = committed
      BY <1>2
    <3>2. Live(committed)' = Live(committed)
      BY <3>1 DEF Live
    <3>3. ByPosition(Live(committed), committed)' = ByPosition(Live(committed), committed)
      BY <3>1, <3>2 DEF ByPosition
    <3> QED BY <3>3 DEF before, InOrder
  <2>2. moved' = moved
    BY <2>1 DEF Moved, ByPosition
  <2>3. moves' = moves
    BY <2>1 DEF Moves, Moved, ByPosition, Set, Anywhere, Bound
  <2> HIDE DEF moved, moves
  <2> QED BY <2>1, <2>2, <2>3
<1> HIDE DEF moved, m, moves
<1>8. Requests(n, requested)'
  BY <1>2, <1>5 DEF Requests, Dense, Gap
<1>9. StillToMove(moves, m, 0)'
  <2>1. m \in Nat /\ Len(moves) = 2 * m
    BY <1>6 DEF MovesOf, Rearranges
  <2>2. 0 \in 0 .. 2 * m /\ Len(pending') = 2 * m - 0
        /\ \A k \in 1 .. (2 * m - 0): pending'[k] = moves[0 + k]
    BY <1>2, <2>1
  <2> QED BY <1>7, <2>2 DEF StillToMove
<1>10. Reordered(n, requested, moved, m, 0)'
  <2>1. \A k \in 1 .. m: 0 < k
    BY <1>6 DEF Rearranges
  <2>2. rows' = committed /\ committed' = committed
    BY <1>2 DEF Idle
  <2> QED BY <1>7, <2>1, <2>2 DEF Reordered
<1>11. \E b \in Agents: seen'[b] = before
  BY <1>2
<1>12. Reordering(n, requested, 0)'
  BY <1>1, <1>7, <1>8, <1>9, <1>10, <1>11
     DEF Reordering, Requests, StillToMove, Reordered, moved, m, moves, before
<1> QED BY <1>1, <1>2, <1>3, <1>6, <1>12 DEF MovesOf

\* The row that an UPDATE writes is where it expects it, and nobody holds its new position.
MovesNext(n, requested, moved, m, t, moves) ==
  \E k \in 1 .. m, from \in SUBSET Nat, to \in Nat:
    /\ moves[t + 1] = Set(requested[moved[k]], from, to)
    /\ rows[requested[moved[k]]] \in from
    /\ \A j \in Items: rows[j] # to
    /\ \/ t = k - 1 /\ to = n + moved[k]
       \/ t = m + k - 1 /\ to = moved[k]

LEMMA NextMove ==
  ASSUME TypeOK, NEW n, NEW requested, NEW moved, NEW m, Rearranges(n, requested, moved, m),
         NEW t \in 0 .. (2 * m - 1), Reordered(n, requested, moved, m, t),
         NEW moves, MovesOf(moves, n, requested, moved, m), n <= Cardinality(Items)
  PROVE  MovesNext(n, requested, moved, m, t, moves)
<1>1. /\ m \in Nat /\ n \in Nat /\ t \in Nat
      /\ \A k \in 1 .. m: moved[k] \in 1 .. n
  BY DEF Rearranges
<1>2. \A k \in 1 .. m: requested[moved[k]] \in Items /\ committed[requested[moved[k]]] \in 1 .. n
  BY <1>1 DEF Rearranges
<1>3. CASE t < m
  <2> DEFINE k == t + 1
             x == requested[moved[k]]
  <2>1. k \in 1 .. m /\ moved[k] \in 1 .. n /\ x \in Items /\ committed[x] \in 1 .. n
    BY <1>1, <1>2, <1>3
  <2>2. rows[x] = committed[x]
    BY <1>1, <2>1 DEF Reordered
  <2>3. rows[x] \in Anywhere
    <3> DEFINE size == Cardinality(Items)
    <3>1. size \in Nat /\ n <= size
      BY QueueAssumption, FS_CardinalityType
    <3> HIDE DEF size, x
    <3>2. committed[x] \in 1 .. 2 * size
      BY <1>1, <2>1, <3>1
    <3> QED BY <2>2, <3>2 DEF Anywhere, Bound, size
  <2>4. \A j \in Items: rows[j] # n + moved[k]
    <3> SUFFICES ASSUME NEW j \in Items
                 PROVE  rows[j] # n + moved[k]
      OBVIOUS
    <3>1. CASE \A l \in 1 .. m: j # requested[moved[l]]
      <4>1. rows[j] = committed[j] /\ committed[j] \in 0 .. n
        BY <3>1 DEF Reordered, Rearranges
      <4> QED BY <1>1, <2>1, <4>1
    <3>2. CASE \E l \in 1 .. m: j = requested[moved[l]]
      <4>1. PICK l \in 1 .. m: j = requested[moved[l]]
        BY <3>2
      <4>2. CASE t < l
        <5>1. rows[j] = committed[j] /\ committed[j] \in 1 .. n
          BY <1>2, <4>1, <4>2 DEF Reordered
        <5> QED BY <1>1, <2>1, <5>1
      <4>3. CASE ~ t < l
        <5>1. l # k /\ t < m + l
          BY <1>1, <1>3, <4>3
        <5>2. rows[j] = n + moved[l]
          BY <4>1, <4>3, <5>1 DEF Reordered
        <5>3. moved[l] # moved[k]
          BY <2>1, <5>1 DEF Rearranges
        <5> QED BY <1>1, <2>1, <5>2, <5>3
      <4> QED BY <4>2, <4>3
    <3> QED BY <3>1, <3>2
  <2>5. moves[t + 1] = Set(x, Anywhere, n + moved[k])
    BY <2>1 DEF MovesOf
  <2>6. Anywhere \in SUBSET Nat /\ n + moved[k] \in Nat /\ t = k - 1
    BY <1>1, <2>1, StatementsAre
  <2> HIDE DEF k
  <2> QED BY <2>1, <2>3, <2>4, <2>5, <2>6 DEF MovesNext
<1>4. CASE ~ t < m
  <2> DEFINE k == t + 1 - m
             x == requested[moved[k]]
  <2>1. k \in 1 .. m /\ moved[k] \in 1 .. n /\ x \in Items /\ ~ t < k /\ t < m + k /\ m + k = t + 1
    BY <1>1, <1>2, <1>4
  <2>2. rows[x] = n + moved[k]
    BY <2>1 DEF Reordered
  <2>3. \A j \in Items: rows[j] # moved[k]
    <3> SUFFICES ASSUME NEW j \in Items, rows[j] = moved[k]
                 PROVE  FALSE
      OBVIOUS
    <3>1. CASE \A l \in 1 .. m: j # requested[moved[l]]
      <4>1. rows[j] = committed[j] /\ committed[j] > 0
        BY <1>1, <2>1, <3>1 DEF Reordered
      <4>2. PICK q \in 1 .. n: requested[q] = j
        BY <4>1 DEF Rearranges
      <4>3. \A l \in 1 .. m: moved[l] # q
        BY <3>1, <4>2
      <4>4. committed[j] = q
        BY <4>2, <4>3 DEF Rearranges
      <4> QED BY <2>1, <4>1, <4>3, <4>4
    <3>2. CASE \E l \in 1 .. m: j = requested[moved[l]]
      <4>1. PICK l \in 1 .. m: j = requested[moved[l]]
        BY <3>2
      <4>2. ~ t < l
        BY <1>1, <1>4
      <4>3. rows[j] = IF t < m + l THEN n + moved[l] ELSE moved[l]
        BY <4>1, <4>2 DEF Reordered
      <4>4. moved[l] \in 1 .. n
        BY <1>1
      <4>5. CASE t < m + l
        <5>1. rows[j] = n + moved[l] /\ n + moved[l] > n
          BY <1>1, <4>3, <4>4, <4>5
        <5>2. moved[k] <= n
          BY <1>1, <2>1
        <5> QED BY <1>1, <2>1, <4>4, <5>1, <5>2
      <4>6. CASE ~ t < m + l
        <5>1. moved[l] = moved[k] /\ l # k
          BY <1>1, <2>1, <4>3, <4>6
        <5> QED BY <2>1, <5>1 DEF Rearranges
      <4> QED BY <4>5, <4>6
    <3> QED BY <3>1, <3>2
  <2>4. moves[t + 1] = Set(x, {n + moved[k]}, moved[k])
    <3>1. moves[m + k] = Set(x, {n + moved[k]}, moved[k])
      BY <2>1 DEF MovesOf
    <3> QED BY <2>1, <3>1
  <2>5. {n + moved[k]} \in SUBSET Nat /\ moved[k] \in Nat /\ t = m + k - 1
    BY <1>1, <2>1
  <2> HIDE DEF k
  <2> QED BY <2>1, <2>2, <2>3, <2>4, <2>5 DEF MovesNext
<1> QED BY <1>3, <1>4

LEMMA ReorderingMoves ==
  ASSUME TypeOK, NEW n \in Nat, NEW requested, NEW t, Reordering(n, requested, t), pending # <<>>
  PROVE  /\ EveryUpdateApplies /\ ~ SelectRows /\ t + 1 \in Nat
         /\ Update => Reordering(n, requested, t + 1)' /\ UNCHANGED open
<1> DEFINE before == InOrder(committed)
           moved == Moved(before, requested)
           m == Len(moved)
           moves == Moves(before, requested)
<1>1. /\ Requests(n, requested) /\ StillToMove(moves, m, t) /\ Reordered(n, requested, moved, m, t)
      /\ \E a \in Agents: seen[a] = before
  BY ReorderingIs
<1>2. Rearranges(n, requested, moved, m) /\ MovesOf(moves, n, requested, moved, m)
  BY <1>1, RearrangementOf, MovesAre
<1> HIDE DEF moved, m, moves
<1>3. m \in Nat /\ t \in 0 .. (2 * m - 1) /\ t \in Nat /\ Len(pending) = 2 * m - t
  <2>1. m \in Nat /\ t \in 0 .. 2 * m /\ Len(pending) = 2 * m - t
    BY <1>1, <1>2 DEF StillToMove, Rearranges
  <2>2. Len(pending) # 0
    BY Rest DEF TypeOK
  <2> QED BY <2>1, <2>2
<1>4. n <= Cardinality(Items)
  <2>1. committed \in [Items -> Nat] /\ Gap(committed, n, n + 1)
    BY <1>1 DEF TypeOK, Requests, Dense
  <2> QED BY <2>1, Fits
<1>5. PICK k \in 1 .. m, from \in SUBSET Nat, to \in Nat:
           /\ moves[t + 1] = Set(requested[moved[k]], from, to)
           /\ rows[requested[moved[k]]] \in from
           /\ \A j \in Items: rows[j] # to
           /\ \/ t = k - 1 /\ to = n + moved[k]
              \/ t = m + k - 1 /\ to = moved[k]
  <2>1. MovesNext(n, requested, moved, m, t, moves)
    BY <1>1, <1>2, <1>3, <1>4, NextMove
  <2> QED BY <2>1 DEF MovesNext
<1> DEFINE x == requested[moved[k]]
<1>6. x \in Items /\ pending[1] = Set(x, from, to)
  <2>1. moved[k] \in 1 .. n /\ x \in Items
    BY <1>2 DEF Rearranges
  <2>2. pending[1] = moves[t + 1]
    <3>1. 1 \in 1 .. (2 * m - t)
      BY <1>3
    <3> QED BY <1>1, <3>1 DEF StillToMove
  <2> QED BY <1>5, <2>1, <2>2
<1>7. EveryUpdateApplies /\ ~ SelectRows /\ (Update => Applied(x, to) /\ UNCHANGED open)
  <2>1. rows[x] \in from /\ \A j \in Items: rows[j] # to
    BY <1>5
  <2> HIDE DEF x
  <2> QED BY <1>6, <2>1, UpdateIs DEF EveryUpdateApplies
<1> SUFFICES ASSUME Update, Applied(x, to)
             PROVE  Reordering(n, requested, t + 1)'
  BY <1>3, <1>7
<1>8. /\ rows' = [rows EXCEPT ![x] = to] /\ pending' = Tail(pending)
      /\ UNCHANGED <<committed, ended, seen>>
  BY DEF Applied
<1>9. before' = before /\ moved' = moved /\ moves' = moves /\ m' = m
  <2>1. before' = before
    <3>1. committed' = committed
      BY <1>8
    <3>2. Live(committed)' = Live(committed)
      BY <3>1 DEF Live
    <3>3. ByPosition(Live(committed), committed)' = ByPosition(Live(committed), committed)
      BY <3>1, <3>2 DEF ByPosition
    <3> QED BY <3>3 DEF InOrder
  <2> HIDE DEF before
  <2>2. moved' = moved
    BY <2>1 DEF moved, Moved, ByPosition
  <2>3. moves' = moves
    BY <2>1 DEF moves, Moves, Moved, ByPosition, Set, Anywhere, Bound
  <2> QED BY <2>1, <2>2, <2>3 DEF m
<1>10. Requests(n, requested)'
  BY <1>1, <1>8 DEF Requests, Dense, Gap
<1>11. StillToMove(moves, m, t + 1)'
  <2>1. t + 1 \in 0 .. 2 * m /\ Len(pending') = 2 * m - (t + 1)
    <3>1. Len(Tail(pending)) = Len(pending) - 1
      BY Rest DEF TypeOK
    <3> QED BY <1>3, <1>8, <3>1
  <2>2. ASSUME NEW l \in 1 .. (2 * m - (t + 1))
        PROVE  pending'[l] = moves[t + 1 + l]
    <3>1. l \in 1 .. (Len(pending) - 1) /\ l + 1 \in 1 .. (2 * m - t) /\ t + (l + 1) = t + 1 + l
      BY <1>3
    <3>2. pending'[l] = pending[l + 1]
      BY <1>8, <3>1, Rest DEF TypeOK
    <3>3. pending[l + 1] = moves[t + (l + 1)]
      BY <1>1, <3>1 DEF StillToMove
    <3> QED BY <3>1, <3>2, <3>3
  <2> QED BY <1>9, <2>1, <2>2 DEF StillToMove
<1>12. \A j \in Items: rows'[j] = IF j = x THEN to ELSE rows[j]
  BY <1>8 DEF TypeOK
<1>13. \A l \in 1 .. m: requested[moved[l]] \in Items /\ (requested[moved[l]] = x <=> l = k)
  <2> SUFFICES ASSUME NEW l \in 1 .. m
               PROVE  requested[moved[l]] \in Items /\ (requested[moved[l]] = x <=> l = k)
    OBVIOUS
  <2>1. moved[l] \in 1 .. n /\ moved[k] \in 1 .. n
    BY <1>2 DEF Rearranges
  <2>2. requested[moved[l]] = requested[moved[k]] => moved[l] = moved[k]
    BY <1>2, <2>1 DEF Rearranges
  <2>3. moved[l] = moved[k] => l = k
    BY <1>2 DEF Rearranges
  <2> QED BY <1>2, <2>1, <2>2, <2>3 DEF Rearranges
<1>14. ASSUME NEW l \in 1 .. m
       PROVE  rows'[requested[moved[l]]] = IF t + 1 < l THEN committed[requested[moved[l]]]
                                           ELSE IF t + 1 < m + l THEN n + moved[l] ELSE moved[l]
  <2>1. CASE l = k
    <3>1. rows'[requested[moved[l]]] = to
      BY <1>6, <1>12, <2>1
    <3>2. CASE t = k - 1 /\ to = n + moved[k]
      <4>1. ~ t + 1 < l /\ t + 1 < m + l
        BY <1>3, <2>1, <3>2
      <4> QED BY <2>1, <3>1, <3>2, <4>1
    <3>3. CASE t = m + k - 1 /\ to = moved[k]
      <4>1. ~ t + 1 < l /\ ~ t + 1 < m + l
        BY <1>3, <2>1, <3>3
      <4> QED BY <2>1, <3>1, <3>3, <4>1
    <3> QED BY <1>5, <3>2, <3>3
  <2>2. CASE l # k
    <3>1. rows'[requested[moved[l]]] = rows[requested[moved[l]]]
      BY <1>12, <1>13, <2>2
    <3>2. rows[requested[moved[l]]] = IF t < l THEN committed[requested[moved[l]]]
                                      ELSE IF t < m + l THEN n + moved[l] ELSE moved[l]
      BY <1>1 DEF Reordered
    <3>3. (t < l <=> t + 1 < l) /\ (t < m + l <=> t + 1 < m + l)
      <4>1. CASE t = k - 1
        <5>1. t + 1 = k /\ k < m + l /\ t < m + l
          BY <1>3, <4>1
        <5> QED BY <1>3, <2>2, <5>1
      <4>2. CASE t = m + k - 1
        <5>1. t + 1 = m + k /\ ~ t < l /\ ~ t + 1 < l
          BY <1>3, <4>2
        <5> QED BY <1>3, <2>2, <5>1
      <4> QED BY <1>5, <4>1, <4>2
    <3> QED BY <3>1, <3>2, <3>3
  <2> QED BY <2>1, <2>2
<1>15. Reordered(n, requested, moved, m, t + 1)'
  <2>1. \A i \in Items: (\A l \in 1 .. m: i # requested[moved[l]]) => rows'[i] = committed[i]
    BY <1>1, <1>12 DEF Reordered
  <2> QED BY <1>8, <1>9, <1>14, <2>1 DEF Reordered
<1>16. \E a \in Agents: seen'[a] = before
  BY <1>1, <1>8
<1> QED BY <1>9, <1>10, <1>11, <1>15, <1>16
           DEF Reordering, Requests, StillToMove, Reordered, moved, m, moves

\* When all are done every item is where the request has it.
LEMMA ReorderingEnds ==
  ASSUME TypeOK, NEW n \in Nat, NEW requested, NEW t, Reordering(n, requested, t), pending = <<>>
  PROVE  /\ Dense(rows, n) /\ \A i \in Items: committed[i] > 0 <=> rows[i] > 0
         /\ \E a \in Agents: seen[a] = InOrder(committed)
<1> DEFINE before == InOrder(committed)
           moved == Moved(before, requested)
           m == Len(moved)
           moves == Moves(before, requested)
<1>1. /\ Requests(n, requested) /\ StillToMove(moves, m, t) /\ Reordered(n, requested, moved, m, t)
      /\ \E a \in Agents: seen[a] = before
  BY ReorderingIs
<1>2. Rearranges(n, requested, moved, m)
  BY <1>1, RearrangementOf
<1> HIDE DEF moved, m, moves
<1>3. m \in Nat /\ t = 2 * m
  <2>1. m \in Nat /\ t \in 0 .. 2 * m /\ Len(pending) = 2 * m - t
    BY <1>1, <1>2 DEF StillToMove, Rearranges
  <2> QED BY <2>1
<1>4. ASSUME NEW q \in 1 .. n
      PROVE  requested[q] \in Items /\ rows[requested[q]] = q
  <2>1. requested[q] \in Items
    BY <1>2 DEF Rearranges
  <2>2. CASE \E k \in 1 .. m: moved[k] = q
    <3>1. PICK k \in 1 .. m: moved[k] = q
      BY <2>2
    <3>2. ~ t < k /\ ~ t < m + k
      BY <1>3
    <3> QED BY <1>1, <2>1, <3>1, <3>2 DEF Reordered
  <2>3. CASE \A k \in 1 .. m: moved[k] # q
    <3>1. committed[requested[q]] = q
      BY <1>2, <2>3 DEF Rearranges
    <3>2. \A k \in 1 .. m: requested[q] # requested[moved[k]]
      <4>1. \A k \in 1 .. m: moved[k] \in 1 .. n
        BY <1>2 DEF Rearranges
      <4> QED BY <1>2, <2>3, <4>1 DEF Rearranges
    <3> QED BY <1>1, <2>1, <3>1, <3>2 DEF Reordered
  <2> QED BY <2>1, <2>2, <2>3
<1>5. ASSUME NEW i \in Items, committed[i] = 0
      PROVE  rows[i] = 0
  <2>1. \A k \in 1 .. m: moved[k] \in 1 .. n
    BY <1>2 DEF Rearranges
  <2>2. \A k \in 1 .. m: i # requested[moved[k]]
    BY <1>2, <1>5, <2>1 DEF Rearranges
  <2> QED BY <1>1, <1>5, <2>2 DEF Reordered
<1>6. \A i \in Items: committed[i] \in Nat /\ (committed[i] > 0 => \E q \in 1 .. n: requested[q] = i)
  BY <1>2 DEF Rearranges
<1>7. \A i \in Items: committed[i] > 0 => rows[i] \in 1 .. n /\ requested[rows[i]] = i
  BY <1>4, <1>6
<1>8. \A i \in Items: rows[i] \in 0 .. n /\ (committed[i] > 0 <=> rows[i] > 0)
                      /\ (rows[i] > 0 => requested[rows[i]] = i)
  BY <1>5, <1>6, <1>7
<1>9. Gap(rows, n, n + 1)
  BY <1>4, <1>8 DEF Gap
<1> QED BY <1>1, <1>8, <1>9 DEF Dense
-----------------------------------------------------------------------------
\* What a transaction has achieved when it has no statement left.
Finished ==
  /\ \E n \in Nat: Dense(rows, n)
  /\ \/ Progress(<<>>)
     \/ /\ \A i \in Items: committed[i] > 0 <=> rows[i] > 0
        /\ \E a \in Agents: seen[a] = InOrder(committed)

Works ==
  /\ EveryUpdateApplies
  /\ Update => Writing' /\ UNCHANGED open
  /\ SelectRows => Writing' /\ UNCHANGED <<open, rows, committed, ended, seen>> /\ pending' \in Seq(Statement)
  /\ pending = <<>> => Finished

LEMMA CompactingWorks ==
  ASSUME TypeOK, NEW n \in Nat, NEW p \in 1 .. (n + 1), NEW sigma \in Seq(Items), Compacting(n, p, sigma)
  PROVE  Works
<1>1. CASE p # n + 1
  <2>1. EveryUpdateApplies /\ ~ SelectRows /\ (Update => Compacting(n, p + 1, sigma)' /\ UNCHANGED open)
    BY <1>1, CompactingMoves
  <2>2. p + 1 \in 1 .. (n + 1)
    BY <1>1
  <2>3. pending # <<>>
    <3>1. Len(pending) = n + 1 - p + 2 * Len(sigma) /\ Len(sigma) \in Nat
      BY DEF Compacting, EndsAfter
    <3>2. Len(pending) # 0
      BY <1>1, <3>1
    <3> QED BY <3>2
  <2> QED BY <2>1, <2>2, <2>3 DEF Works, Writing
<1>2. CASE p = n + 1 /\ sigma # <<>>
  <2> DEFINE q == rows[sigma[1]]
             tau == Tail(sigma)
  <2>1. PICK c, rest: c = q /\ rest = tau
    OBVIOUS
  <2>2. /\ EveryUpdateApplies /\ ~ SelectRows
        /\ n \in Nat \ {0} /\ c \in 1 .. n /\ rest \in Seq(Items)
        /\ Update => ToCompact(n - 1, c, rest)' /\ UNCHANGED open
    BY <1>2, <2>1, CompactingEnds
  <2>3. n - 1 \in Nat /\ c \in 1 .. (n - 1 + 1)
    BY <2>2
  <2>4. pending # <<>>
    <3>1. Len(pending) = n + 1 - p + 2 * Len(sigma) /\ Len(sigma) \in Nat \ {0}
      BY <1>2 DEF Compacting, EndsAfter
    <3>2. Len(pending) # 0
      BY <1>2, <3>1
    <3> QED BY <3>2
  <2> QED BY <2>2, <2>3, <2>4 DEF Works, Writing
<1>3. CASE p = n + 1 /\ sigma = <<>>
  <2>1. pending = <<>>
    <3>1. Len(pending) = n + 1 - p + 2 * Len(sigma) /\ Len(sigma) = 0
      BY <1>3 DEF Compacting, EndsAfter
    <3>2. Len(pending) = 0
      BY <1>3, <3>1
    <3> QED BY <3>2 DEF TypeOK
  <2>2. Finished
    BY <1>3 DEF Compacting, Dense, Finished
  <2> QED BY <2>1, <2>2 DEF Works, EveryUpdateApplies, Update, SelectRows
<1> QED BY <1>1, <1>2, <1>3

LEMMA ToCompactWorks ==
  ASSUME TypeOK, NEW n \in Nat, NEW p \in 1 .. (n + 1), NEW sigma \in Seq(Items), ToCompact(n, p, sigma)
  PROVE  Works
<1>1. /\ EveryUpdateApplies /\ ~ Update
      /\ SelectRows => /\ Compacting(n, p, sigma)' /\ UNCHANGED <<open, rows, committed, ended, seen>>
                       /\ pending' \in Seq(Statement)
  BY ToCompactSelects
<1>2. pending # <<>>
  <2>1. Len(pending) = 1 + 2 * Len(sigma) /\ Len(sigma) \in Nat
    BY DEF ToCompact, EndsAfter
  <2> QED BY <2>1
<1> QED BY <1>1, <1>2 DEF Works, Writing

LEMMA SpacingWorks ==
  ASSUME TypeOK, \A j \in ended: committed[j] = 0, NEW n \in Nat, NEW p \in 1 .. (n + 1),
         NEW i \in Items, NEW at \in 1 .. p, NEW sigma \in Seq(Items), Spacing(n, p, i, at, sigma)
  PROVE  Works
<1>1. pending # <<>>
  <2>1. Len(pending) = p - at + 1 + 2 * Len(sigma) /\ Len(sigma) \in Nat
    BY DEF Spacing, EndsAfter
  <2>2. Len(pending) # 0
    BY <2>1
  <2> QED BY <2>2
<1>2. CASE p # at
  <2>1. EveryUpdateApplies /\ ~ SelectRows /\ (Update => Spacing(n, p - 1, i, at, sigma)' /\ UNCHANGED open)
    BY <1>2, SpacingMoves
  <2>2. p - 1 \in 1 .. (n + 1) /\ at \in 1 .. (p - 1)
    BY <1>2
  <2> QED BY <1>1, <2>1, <2>2 DEF Works, Writing
<1>3. CASE p = at
  <2>1. EveryUpdateApplies /\ ~ SelectRows /\ (Update => Compacting(n + 1, n + 2, sigma)' /\ UNCHANGED open)
    BY <1>3, SpacingInserts
  <2>2. n + 1 \in Nat /\ n + 2 \in 1 .. (n + 1 + 1)
    OBVIOUS
  <2> QED BY <1>1, <2>1, <2>2 DEF Works, Writing
<1> QED BY <1>2, <1>3

LEMMA ToSpaceWorks ==
  ASSUME TypeOK, NEW n \in Nat, NEW i \in Items, NEW at \in 1 .. (n + 1), NEW sigma \in Seq(Items),
         ToSpace(n, i, at, sigma)
  PROVE  Works
<1>1. /\ EveryUpdateApplies /\ ~ Update
      /\ SelectRows => /\ Spacing(n, n + 1, i, at, sigma)' /\ UNCHANGED <<open, rows, committed, ended, seen>>
                       /\ pending' \in Seq(Statement)
  BY ToSpaceSelects
<1>2. pending # <<>>
  <2>1. Len(pending) = 2 + 2 * Len(sigma) /\ Len(sigma) \in Nat
    BY DEF ToSpace, EndsAfter
  <2> QED BY <2>1
<1>3. n + 1 \in 1 .. (n + 1)
  OBVIOUS
<1> QED BY <1>1, <1>2, <1>3 DEF Works, Writing

LEMMA ReorderingWorks ==
  ASSUME TypeOK, NEW n \in Nat, NEW t \in Nat, NEW requested \in [1 .. n -> Items],
         Reordering(n, requested, t)
  PROVE  Works
<1>1. CASE pending # <<>>
  <2>1. /\ EveryUpdateApplies /\ ~ SelectRows /\ t + 1 \in Nat
        /\ Update => Reordering(n, requested, t + 1)' /\ UNCHANGED open
    BY <1>1, ReorderingMoves
  <2> QED BY <1>1, <2>1 DEF Works, Writing
<1>2. CASE pending = <<>>
  <2>1. Finished
    BY <1>2, ReorderingEnds DEF Finished
  <2> QED BY <1>2, <2>1 DEF Works, EveryUpdateApplies, Update, SelectRows
<1> QED BY <1>1, <1>2

LEMMA WritingWorks ==
  ASSUME TypeOK, \A j \in ended: committed[j] = 0, Writing
  PROVE  Works
<1>1. ASSUME NEW n \in Nat, NEW p \in 1 .. (n + 1), NEW sigma \in Seq(Items),
             Compacting(n, p, sigma) \/ ToCompact(n, p, sigma)
      PROVE  Works
  BY <1>1, CompactingWorks, ToCompactWorks
<1>2. ASSUME NEW n \in Nat, NEW p \in 1 .. (n + 1), NEW i \in Items, NEW at \in 1 .. p,
             NEW sigma \in Seq(Items), Spacing(n, p, i, at, sigma) \/ ToSpace(n, i, at, sigma)
      PROVE  Works
  <2>1. at \in 1 .. (n + 1)
    OBVIOUS
  <2> QED BY <1>2, <2>1, SpacingWorks, ToSpaceWorks
<1>3. ASSUME NEW n \in Nat, NEW t \in Nat, NEW requested \in [1 .. n -> Items], Reordering(n, requested, t)
      PROVE  Works
  BY <1>3, ReorderingWorks
<1> HIDE DEF Works
<1> QED BY <1>1, <1>2, <1>3 DEF Writing
-----------------------------------------------------------------------------
LEMMA InitInv == Init => Inv
<1> SUFFICES ASSUME Init
             PROVE  Inv
  OBVIOUS
<1>1. TypeOK
  <2>1. <<>> \in Seq(Statement) /\ <<>> \in Seq(Items)
    OBVIOUS
  <2> QED BY <2>1 DEF Init, TypeOK
<1>2. Dense(committed, 0)
  BY DEF Init, Dense, Gap
<1> QED BY <1>1, <1>2 DEF Init, Inv

\* Beginning a transaction.
LEMMA BeginInv ==
  ASSUME Inv, ~ open, open' = TRUE, UNCHANGED <<committed, rows, ended, seen>>,
         pending' \in Seq(Statement), Writing'
  PROVE  Inv'
<1>1. TypeOK'
  BY DEF Inv, TypeOK, Statement
<1>2. \E n \in Nat: Dense(committed', n)
  BY DEF Inv
<1>3. \A i \in ended': committed'[i] = 0
  BY DEF Inv
<1> QED BY <1>1, <1>2, <1>3 DEF Inv, Dense, Gap

LEMMA UpdateInv ==
  ASSUME Inv, Update
  PROVE  Inv'
<1>1. open /\ pending # <<>> /\ TypeOK /\ Writing
  BY DEF Inv, Update
<1>2. Applies(Head(pending)) /\ Writing' /\ UNCHANGED open
  BY <1>1, WritingWorks DEF Works, EveryUpdateApplies, Update, Inv
<1>3. /\ rows' = [rows EXCEPT ![Head(pending).item] = Head(pending).to] /\ pending' = Tail(pending)
      /\ UNCHANGED <<committed, ended, seen>> /\ Head(pending).kind = "set"
  BY <1>2 DEF Update
<1>4. Head(pending).to \in Nat
  BY <1>1, <1>3, Rest DEF TypeOK, Statement
<1>5. rows' \in [Items -> Nat] /\ pending' \in Seq(Statement)
  BY <1>1, <1>3, <1>4, Rest DEF TypeOK
<1>6. TypeOK'
  BY <1>1, <1>2, <1>3, <1>5 DEF TypeOK, Statement
<1> QED BY <1>1, <1>2, <1>3, <1>6 DEF Inv, Dense, Gap

LEMMA SelectRowsInv ==
  ASSUME Inv, SelectRows
  PROVE  Inv'
<1>1. open /\ pending # <<>> /\ TypeOK /\ Writing
  BY DEF Inv, SelectRows
<1>2. Writing' /\ UNCHANGED <<open, rows, committed, ended, seen>> /\ pending' \in Seq(Statement)
  BY <1>1, WritingWorks DEF Works, Inv
<1>3. TypeOK'
  BY <1>1, <1>2 DEF TypeOK, Statement
<1> QED BY <1>1, <1>2, <1>3 DEF Inv, Dense, Gap

LEMMA FinishedAt ==
  ASSUME Inv, open, pending = <<>>
  PROVE  /\ TypeOK /\ Finished
         /\ \A i \in ended: committed[i] = 0 /\ rows[i] = 0
<1>1. TypeOK /\ Finished /\ \A i \in ended: committed[i] = 0
  BY WritingWorks DEF Inv, Works
<1>2. ASSUME NEW i \in ended
      PROVE  rows[i] = 0
  <2>1. i \in Items /\ committed[i] = 0 /\ rows[i] \in Nat
    BY <1>1 DEF TypeOK
  <2>2. CASE Progress(<<>>)
    BY <2>1, <2>2 DEF Progress, Entered
  <2>3. CASE \A j \in Items: committed[j] > 0 <=> rows[j] > 0
    BY <2>1, <2>3
  <2> QED BY <1>1, <2>2, <2>3 DEF Finished
<1> QED BY <1>1, <1>2

LEMMA CommitInv ==
  ASSUME Inv, CommitTransaction
  PROVE  Inv'
<1>1. /\ open /\ pending = <<>> /\ committed' = rows /\ rows' = rows /\ open' = FALSE
      /\ ended' = ended \cup {i \in Items: committed[i] > 0 /\ rows[i] = 0}
      /\ UNCHANGED <<pending, seen>>
  BY DEF CommitTransaction
<1>2. /\ TypeOK /\ Finished
      /\ \A i \in ended: committed[i] = 0 /\ rows[i] = 0
  BY <1>1, FinishedAt
<1>3. TypeOK'
  BY <1>1, <1>2 DEF TypeOK, Statement
<1>4. \E n \in Nat: Dense(committed', n)
  BY <1>1, <1>2 DEF Finished
<1>5. \A i \in ended': committed'[i] = 0
  BY <1>1, <1>2
<1> QED BY <1>1, <1>3, <1>4, <1>5 DEF Inv, Dense, Gap

\* A read of the order disturbs no transaction.
LEMMA WritingStays ==
  ASSUME TypeOK, UNCHANGED <<committed, rows, pending, ended>>,
         \A b \in Agents: seen'[b] = seen[b] \/ seen'[b] = InOrder(committed)
  PROVE  Writing => Writing'
<1>0. UNCHANGED <<committed, rows, pending, ended>>
  OBVIOUS
<1>1. \A k \in Nat: \A p \in 1 .. (k + 1): \A sigma \in Seq(Items):
        /\ Compacting(k, p, sigma) => Compacting(k, p, sigma)'
        /\ ToCompact(k, p, sigma) => ToCompact(k, p, sigma)'
  BY <1>0 DEF Compacting, ToCompact, Gap, Progress, EndsAfter, OrderKept, Entered, Gone, Set, Compact,
              Anywhere, Bound
<1>2. ASSUME NEW k \in Nat, NEW p \in 1 .. (k + 1), NEW i \in Items, NEW at \in 1 .. p,
             NEW sigma \in Seq(Items)
      PROVE  /\ Spacing(k, p, i, at, sigma) => Spacing(k, p, i, at, sigma)'
             /\ ToSpace(k, i, at, sigma) => ToSpace(k, i, at, sigma)'
  <2>1. \A a \in Nat: EndsAfter(a, sigma, at) => EndsAfter(a, sigma, at)'
    BY <1>0 DEF EndsAfter, Set, Compact, Anywhere, Bound
  <2>2. \A q \in 1 .. (k + 1): Inserting(k, q, i, at, sigma) => Inserting(k, q, i, at, sigma)'
    BY <1>0 DEF Inserting, Gap, OrderKept, Entered, Gone
  <2>3. p - at + 1 \in Nat /\ k + 1 \in 1 .. (k + 1) /\ 2 \in Nat
    OBVIOUS
  <2> QED BY <1>0, <2>1, <2>2, <2>3 DEF Spacing, ToSpace, Set, Space
<1>3. ASSUME NEW k \in Nat, NEW t \in Nat, NEW requested \in [1 .. k -> Items],
             Reordering(k, requested, t)
      PROVE  Reordering(k, requested, t)'
  <2> DEFINE before == InOrder(committed)
             moved == Moved(before, requested)
             m == Len(moved)
             moves == Moves(before, requested)
  <2>1. before' = before /\ moved' = moved /\ moves' = moves /\ m' = m
    <3>1. before' = before
      BY <1>0 DEF InOrder, Live, ByPosition
    <3> HIDE DEF before
    <3>2. moved' = moved
      BY <3>1 DEF Moved, ByPosition
    <3>3. moves' = moves
      BY <3>1 DEF Moves, Moved, ByPosition, Set, Anywhere, Bound
    <3> HIDE DEF moved, moves
    <3> QED BY <3>1, <3>2, <3>3
  <2>2. /\ Requests(k, requested) /\ StillToMove(moves, m, t) /\ Reordered(k, requested, moved, m, t)
        /\ \E b \in Agents: seen[b] = before
    BY <1>3, ReorderingIs
  <2> HIDE DEF before, moved, m, moves
  <2>3. Requests(k, requested)' /\ StillToMove(moves, m, t)' /\ Reordered(k, requested, moved, m, t)'
    BY <1>0, <2>1, <2>2 DEF Requests, StillToMove, Reordered, Dense, Gap
  <2>4. \E b \in Agents: seen'[b] = before
    <3>1. PICK b \in Agents: seen[b] = before
      BY <2>2
    <3>2. seen'[b] = before
      BY <3>1 DEF before
    <3> QED BY <3>2
  <2> QED BY <2>1, <2>3, <2>4 DEF Reordering, Requests, StillToMove, Reordered, before, moved, m, moves
<1>4. ASSUME NEW n \in Nat, NEW p \in 1 .. (n + 1), NEW sigma \in Seq(Items),
             Compacting(n, p, sigma) \/ ToCompact(n, p, sigma)
      PROVE  Writing'
  <2>1. (Compacting(n, p, sigma) \/ ToCompact(n, p, sigma))'
    BY <1>1, <1>4
  <2> QED BY <2>1 DEF Writing
<1>5. ASSUME NEW n \in Nat, NEW p \in 1 .. (n + 1), NEW i \in Items, NEW at \in 1 .. p,
             NEW sigma \in Seq(Items), Spacing(n, p, i, at, sigma) \/ ToSpace(n, i, at, sigma)
      PROVE  Writing'
  <2>1. (Spacing(n, p, i, at, sigma) \/ ToSpace(n, i, at, sigma))'
    BY <1>2, <1>5
  <2> QED BY <2>1 DEF Writing
<1>6. ASSUME NEW n \in Nat, NEW t \in Nat, NEW requested \in [1 .. n -> Items],
             Reordering(n, requested, t)
      PROVE  Writing'
  <2>1. Reordering(n, requested, t)'
    BY <1>3, <1>6
  <2> QED BY <2>1 DEF Writing
<1> QED BY <1>4, <1>5, <1>6 DEF Writing

LEMMA ReadInv ==
  ASSUME Inv, NEW a \in Agents, Read(a)
  PROVE  Inv'
<1>1. /\ seen' = [seen EXCEPT ![a] = InOrder(committed)]
      /\ UNCHANGED <<committed, rows, open, pending, ended>> /\ TypeOK
  BY DEF Read, Inv
<1>2. PICK n \in Nat: Dense(committed, n)
  BY DEF Inv
<1>3. InOrder(committed) \in Seq(Items)
  BY <1>1, <1>2, OrderOf DEF TypeOK
<1>4. TypeOK'
  BY <1>1, <1>3 DEF TypeOK, Statement
<1>5. Writing => Writing'
  <2>1. \A b \in Agents: seen'[b] = seen[b] \/ seen'[b] = InOrder(committed)
    BY <1>1 DEF TypeOK
  <2> QED BY <1>1, <2>1, WritingStays
<1> QED BY <1>1, <1>4, <1>5 DEF Inv, Dense, Gap

LEMMA StepInv == Inv /\ [Next]_vars => Inv'
<1> SUFFICES ASSUME Inv, [Next]_vars
             PROVE  Inv'
  OBVIOUS
<1> USE DEF Next
<1>0. TypeOK
  BY DEF Inv
<1>1. ~ open => \E n \in Nat: Idle(n)
  BY DEF Inv, Idle
<1>2. ASSUME NEW a \in Agents, Read(a)
      PROVE  Inv'
  BY <1>2, ReadInv
<1>3. ASSUME NEW a \in Agents, NEW requested \in Orders, Reorder(a, requested)
      PROVE  Inv'
  <2>1. ~ open /\ open' = TRUE /\ UNCHANGED <<committed, rows, ended, seen>>
    BY <1>3 DEF Reorder, Begin
  <2>2. PICK n \in Nat: Idle(n)
    BY <1>1, <2>1
  <2>3. Reordering(n, requested, 0)' /\ pending' \in Seq(Statement) /\ requested \in [1 .. n -> Items]
    BY <1>0, <1>3, <2>2, ReorderBegins
  <2>4. Writing'
    BY <2>3 DEF Writing
  <2> QED BY <2>1, <2>3, <2>4, BeginInv
<1>4. ASSUME NEW i \in Items, NEW at \in 1 .. Cardinality(Items), Propose(i, at)
      PROVE  Inv'
  <2>1. ~ open /\ open' = TRUE /\ UNCHANGED <<committed, rows, ended, seen>>
    BY <1>4 DEF Propose, Begin
  <2>2. PICK n \in Nat: Idle(n)
    BY <1>1, <2>1
  <2>3. at \in Nat \ {0}
    OBVIOUS
  <2>4. ToSpace(n, i, at, <<>>)' /\ pending' \in Seq(Statement) /\ at \in 1 .. (n + 1)
    BY <1>0, <1>4, <2>2, <2>3, ProposeBegins
  <2>5. Writing'
    <3>1. n + 1 \in 1 .. (n + 1) /\ <<>> \in Seq(Items)
      OBVIOUS
    <3> QED BY <2>4, <3>1 DEF Writing
  <2> QED BY <2>1, <2>4, <2>5, BeginInv
<1>5. ASSUME NEW i \in Items, End(i)
      PROVE  Inv'
  <2>1. ~ open /\ open' = TRUE /\ UNCHANGED <<committed, rows, ended, seen>>
    BY <1>5 DEF End, Begin
  <2>2. PICK n \in Nat: Idle(n)
    BY <1>1, <2>1
  <2>3. Compacting(n, n + 1, <<i>>)' /\ pending' \in Seq(Statement) /\ <<i>> \in Seq(Items)
    BY <1>0, <1>5, <2>2, EndBegins
  <2>4. Writing'
    <3>1. n + 1 \in 1 .. (n + 1)
      OBVIOUS
    <3> QED BY <2>3, <3>1 DEF Writing
  <2> QED BY <2>1, <2>3, <2>4, BeginInv
<1>6. ASSUME NEW campaign \in Items, NEW sources \in SUBSET Items, Consolidate(campaign, sources)
      PROVE  Inv'
  <2>1. ~ open /\ open' = TRUE /\ UNCHANGED <<committed, rows, ended, seen>>
    BY <1>6 DEF Consolidate, Begin
  <2>2. PICK n \in Nat: Idle(n)
    BY <1>1, <2>1
  <2>3. PICK sigma: sigma = Reverse(ByPosition(sources, committed))
    OBVIOUS
  <2>4. /\ sigma \in Seq(Items) /\ pending' \in Seq(Statement)
        /\ Compacting(n, n + 1, sigma)' \/ ToSpace(n, campaign, n + 1, sigma)'
    BY <1>0, <1>6, <2>2, <2>3, ConsolidateBegins
  <2>5. Writing'
    <3>1. n + 1 \in 1 .. (n + 1)
      OBVIOUS
    <3> QED BY <2>4, <3>1 DEF Writing
  <2> QED BY <2>1, <2>4, <2>5, BeginInv
<1>7. ASSUME Rollback
      PROVE  Inv'
  <2>1. TypeOK'
    <3>1. <<>> \in Seq(Statement)
      OBVIOUS
    <3> QED BY <1>0, <1>7, <3>1 DEF Rollback, TypeOK, Statement
  <2> QED BY <1>7, <2>1 DEF Rollback, Inv, Dense, Gap
<1>8. ASSUME UNCHANGED vars
      PROVE  Inv'
  <2>1. TypeOK'
    BY <1>0, <1>8 DEF vars, TypeOK, Statement
  <2>2. Writing => Writing'
    BY <1>0, <1>8, WritingStays DEF vars
  <2> QED BY <1>8, <2>1, <2>2 DEF vars, Inv, Dense, Gap
<1> QED BY <1>2, <1>3, <1>4, <1>5, <1>6, <1>7, <1>8, UpdateInv, SelectRowsInv, CommitInv

LEMMA InvHolds == Spec => []Inv
<1> QED BY InitInv, StepInv, PTL DEF Spec
-----------------------------------------------------------------------------
\* No UPDATE of an operation decided under the write lock misses its row or meets UNIQUE,
\* however many items there are and whichever of them an operation moves (persistence.py:897).
THEOREM UpdatesApply == Spec => []EveryUpdateApplies
<1>1. Inv => EveryUpdateApplies
  <2> SUFFICES ASSUME Inv
               PROVE  EveryUpdateApplies
    OBVIOUS
  <2>1. CASE open
    BY <2>1, WritingWorks DEF Inv, Works
  <2>2. CASE ~ open
    BY <2>2 DEF Inv, EveryUpdateApplies
  <2> QED BY <2>1, <2>2
<1> QED BY <1>1, InvHolds, PTL

\* The committed positions are always 1, 2, ... without a gap, so that the last position is the
\* number of live items, and no ended item has one (persistence.py:1199).
THEOREM NoGaps == Spec => []PositionsDense
<1>1. Inv => PositionsDense
  <2> SUFFICES ASSUME Inv
               PROVE  PositionsDense
    OBVIOUS
  <2>1. PICK n \in Nat: Dense(committed, n)
    BY DEF Inv
  <2>2. Cardinality(Live(committed)) = n
    BY <2>1, OrderOf DEF Inv, TypeOK
  <2>3. {committed[i]: i \in Live(committed)} = 1 .. n
    BY <2>1 DEF Dense, Gap, Live
  <2>4. \A i \in Live(committed): i \notin ended
    BY DEF Inv, Live
  <2> QED BY <2>2, <2>3, <2>4 DEF PositionsDense
<1> QED BY <1>1, InvHolds, PTL
-----------------------------------------------------------------------------
\* The same items in the same order are the same sequence.
LEMMA SortsBoth ==
  ASSUME NEW S, NEW positions, NEW others, NEW m \in Nat, NEW s, Sorts(s, m, S, positions),
         \A i \in S: others[i] \in Nat,
         \A i, j \in S: positions[i] < positions[j] => others[i] < others[j]
  PROVE  Sorts(s, m, S, others)
BY DEF Sorts

LEMMA SortsLive ==
  ASSUME NEW r \in [Items -> Nat], NEW n \in Nat, Dense(r, n)
  PROVE  Sorts(InOrder(r), n, Live(r), r) /\ ToSet(InOrder(r)) = Live(r)
<1> DEFINE s == InOrder(r)
<1>1. /\ s \in [1 .. n -> Items] /\ \A k \in 1 .. n: r[s[k]] = k
      /\ \A i \in Items: r[i] > 0 => r[i] \in 1 .. n /\ s[r[i]] = i
  BY OrderOf
<1> HIDE DEF s
<1>2. s \in [1 .. n -> Live(r)]
  BY <1>1 DEF Live
<1>3. \A i \in Live(r): r[i] \in 1 .. n /\ s[r[i]] = i
  BY <1>1 DEF Live
<1>4. Sorts(s, n, Live(r), r)
  <2>1. \A k \in 1 .. n: r[s[k]] \in Nat
    BY <1>1
  <2>2. \A j, k \in 1 .. n: j < k => r[s[j]] < r[s[k]]
    BY <1>1
  <2>3. \A i \in Live(r): \E k \in 1 .. n: s[k] = i
    BY <1>3
  <2> QED BY <1>2, <2>1, <2>2, <2>3 DEF Sorts
<1>5. ToSet(s) = Live(r)
  <2>1. DOMAIN s = 1 .. n
    BY <1>2
  <2> QED BY <1>2, <1>3, <2>1 DEF ToSet
<1> QED BY <1>4, <1>5 DEF s

Inserted(s, n, p, e) ==
  [k \in 1 .. (n + 1) |-> IF k < p THEN s[k] ELSE IF k = p THEN e ELSE s[k - 1]]

LEMMA InsertedSequence ==
  ASSUME NEW S, NEW n \in Nat, NEW s \in [1 .. n -> S], NEW p \in 1 .. (n + 1), NEW e \in S
  PROVE  InsertAt(s, p, e) = Inserted(s, n, p, e)
<1> DEFINE before == SubSeq(s, 1, p - 1)
           start == before \o <<e>>
           after == SubSeq(s, p, Len(s))
           t == [k \in 1 .. (n + 1) |-> IF k < p THEN s[k] ELSE IF k = p THEN e ELSE s[k - 1]]
<1>1. s \in Seq(S) /\ Len(s) = n
  BY SequenceOf
<1>2. before \in Seq(S) /\ Len(before) = p - 1 /\ \A k \in 1 .. (p - 1): before[k] = s[k]
  <2>1. \A k \in 1 .. (p - 1): s[k] \in S
    OBVIOUS
  <2>2. /\ before \in Seq(S) /\ Len(before) = IF 1 <= p - 1 THEN p - 1 - 1 + 1 ELSE 0
        /\ \A k \in 1 .. (p - 1 - 1 + 1): before[k] = s[1 + k - 1]
    BY <2>1, SubSeqProperties
  <2> HIDE DEF before
  <2>3. \A k \in 1 .. (p - 1): k \in 1 .. (p - 1 - 1 + 1) /\ 1 + k - 1 = k
    OBVIOUS
  <2> QED BY <2>2, <2>3
<1>3. /\ after \in Seq(S) /\ Len(after) = n - p + 1
      /\ \A k \in 1 .. (n - p + 1): after[k] = s[p + k - 1]
  <2>1. \A k \in p .. n: s[k] \in S
    OBVIOUS
  <2>2. /\ SubSeq(s, p, n) \in Seq(S) /\ Len(SubSeq(s, p, n)) = IF p <= n THEN n - p + 1 ELSE 0
        /\ \A k \in 1 .. (n - p + 1): SubSeq(s, p, n)[k] = s[p + k - 1]
    BY <2>1, SubSeqProperties
  <2>3. after = SubSeq(s, p, n)
    BY <1>1
  <2> HIDE DEF after
  <2> QED BY <2>2, <2>3
<1> HIDE DEF before, after
<1>4. /\ start \in Seq(S) /\ Len(start) = p
      /\ \A k \in 1 .. p: start[k] = IF k < p THEN s[k] ELSE e
  <2>1. <<e>> \in Seq(S) /\ Len(<<e>>) = 1 /\ <<e>>[1] = e
    OBVIOUS
  <2> DEFINE one == <<e>>
  <2> HIDE DEF one
  <2>2. one \in Seq(S) /\ Len(one) = 1 /\ one[1] = e
    BY <2>1 DEF one
  <2>3. /\ before \o one \in Seq(S) /\ Len(before \o one) = Len(before) + Len(one)
        /\ \A k \in 1 .. Len(before) + Len(one):
             (before \o one)[k] = IF k <= Len(before) THEN before[k] ELSE one[k - Len(before)]
    BY <1>2, <2>2, ConcatProperties
  <2>4. Len(before) + Len(one) = p
    BY <1>2, <2>2
  <2>5. ASSUME NEW k \in 1 .. p
        PROVE  (before \o one)[k] = IF k < p THEN s[k] ELSE e
    <3>1. CASE k < p
      <4>1. k <= Len(before) /\ k \in 1 .. (p - 1)
        BY <1>2, <3>1
      <4> QED BY <1>2, <2>3, <2>4, <3>1, <4>1
    <3>2. CASE k = p
      <4>1. ~ k <= Len(before) /\ k - Len(before) = 1 /\ ~ k < p
        BY <1>2, <3>2
      <4> QED BY <2>2, <2>3, <2>4, <4>1
    <3>3. k < p \/ k = p
      OBVIOUS
    <3> QED BY <3>1, <3>2, <3>3
  <2> QED BY <2>3, <2>4, <2>5 DEF one
<1> HIDE DEF start
<1>5. /\ start \o after \in Seq(S) /\ Len(start \o after) = Len(start) + Len(after)
      /\ \A k \in 1 .. Len(start) + Len(after):
           (start \o after)[k] = IF k <= Len(start) THEN start[k] ELSE after[k - Len(start)]
  BY <1>3, <1>4, ConcatProperties
<1>6. Len(start) + Len(after) = n + 1
  BY <1>3, <1>4
<1>7. ASSUME NEW k \in 1 .. (n + 1)
      PROVE  (start \o after)[k] = t[k]
  <2>1. CASE k <= p
    <3>1. k \in 1 .. p /\ (start \o after)[k] = start[k]
      BY <1>4, <1>5, <1>6, <2>1
    <3>2. ~ k < p => k = p
      BY <2>1
    <3> QED BY <1>4, <3>1, <3>2
  <2>2. CASE ~ k <= p
    <3>1. k - p \in 1 .. (n - p + 1) /\ p + (k - p) - 1 = k - 1 /\ ~ k < p /\ k # p
      BY <2>2
    <3>2. (start \o after)[k] = after[k - p]
      BY <1>4, <1>5, <1>6, <2>2
    <3> QED BY <1>3, <3>1, <3>2
  <2> QED BY <2>1, <2>2
<1>8. t \in Seq(S) /\ Len(t) = n + 1
  <2>1. t \in [1 .. (n + 1) -> S]
    OBVIOUS
  <2> HIDE DEF t
  <2> QED BY <2>1, SequenceOf
<1> HIDE DEF t
<1>9. start \o after = t
  <2> DEFINE joined == start \o after
  <2>1. joined \in Seq(S) /\ Len(joined) = n + 1 /\ \A k \in 1 .. (n + 1): joined[k] = t[k]
    BY <1>5, <1>6, <1>7
  <2> HIDE DEF joined
  <2>2. joined = t
    BY <1>8, <2>1, SeqEqual
  <2> QED BY <2>2 DEF joined
<1> QED BY <1>9 DEF start, before, after, InsertAt, t, Inserted

\* What is committed of a transaction that inserts one item, or ends some.
Inserts(r1, r2, c) ==
  /\ r1[c] = 0 /\ r2[c] > 0
  /\ \A i \in Items: i # c => (r1[i] > 0 <=> r2[i] > 0)
  /\ \A i, j \in Items: r1[i] > 0 /\ r1[j] > 0 => (r1[i] < r1[j] <=> r2[i] < r2[j])

LEMMA InsertedAt ==
  ASSUME NEW r1 \in [Items -> Nat], NEW n1 \in Nat, Dense(r1, n1),
         NEW r2 \in [Items -> Nat], NEW n2 \in Nat, Dense(r2, n2),
         NEW c \in Items, Inserts(r1, r2, c)
  PROVE  /\ r2[c] \in 1 .. (Len(InOrder(r1)) + 1)
         /\ InOrder(r2) = InsertAt(InOrder(r1), r2[c], c)
<1> DEFINE s1 == InOrder(r1)
           s2 == InOrder(r2)
           p == r2[c]
           s == [k \in 1 .. (n2 - 1) |-> IF k < p THEN s2[k] ELSE s2[k + 1]]
<1>1. /\ s1 \in [1 .. n1 -> Items] /\ Len(s1) = n1
      /\ \A i \in Items: r1[i] > 0 => r1[i] \in 1 .. n1 /\ s1[r1[i]] = i
  BY OrderOf
<1>2. /\ s2 \in [1 .. n2 -> Items] /\ \A k \in 1 .. n2: r2[s2[k]] = k
      /\ \A i \in Items: r2[i] > 0 => r2[i] \in 1 .. n2 /\ s2[r2[i]] = i
  BY OrderOf
<1> HIDE DEF s1, s2
<1>3. p \in 1 .. n2 /\ s2[p] = c /\ n2 - 1 \in Nat
  BY <1>2 DEF Inserts
<1>4. ASSUME NEW k \in 1 .. (n2 - 1)
      PROVE  /\ s[k] \in Items /\ s[k] # c /\ r2[s[k]] = IF k < p THEN k ELSE k + 1
             /\ r1[s[k]] > 0
  <2>1. k \in 1 .. n2 /\ k + 1 \in 1 .. n2
    BY <1>3
  <2>2. s[k] \in Items /\ r2[s[k]] = IF k < p THEN k ELSE k + 1
    BY <1>2, <2>1
  <2> HIDE DEF s
  <2>3. s[k] # c
    BY <1>3, <2>1, <2>2
  <2>4. r2[s[k]] > 0
    BY <2>1, <2>2
  <2> QED BY <2>2, <2>3, <2>4 DEF Inserts
<1>5. Sorts(s, n2 - 1, Live(r1), r1)
  <2>1. s \in [1 .. (n2 - 1) -> Live(r1)]
    BY <1>4 DEF Live
  <2>2. \A i \in Live(r1): \E k \in 1 .. (n2 - 1): s[k] = i
    <3> SUFFICES ASSUME NEW i \in Live(r1)
                 PROVE  \E k \in 1 .. (n2 - 1): s[k] = i
      OBVIOUS
    <3>1. i \in Items /\ i # c /\ r2[i] > 0
      BY DEF Live, Inserts
    <3>2. r2[i] \in 1 .. n2 /\ s2[r2[i]] = i /\ r2[i] # p
      BY <1>2, <1>3, <3>1
    <3>3. CASE r2[i] < p
      <4>1. r2[i] \in 1 .. (n2 - 1)
        BY <1>3, <3>2, <3>3
      <4> QED BY <3>2, <3>3, <4>1
    <3>4. CASE r2[i] > p
      <4>1. r2[i] - 1 \in 1 .. (n2 - 1) /\ ~ r2[i] - 1 < p /\ r2[i] - 1 + 1 = r2[i]
        BY <1>3, <3>2, <3>4
      <4> QED BY <3>2, <4>1
    <3> QED BY <1>3, <3>2, <3>3, <3>4
  <2> HIDE DEF s
  <2>3. \A k \in 1 .. (n2 - 1): r1[s[k]] \in Nat
    BY <1>4
  <2>4. \A j, k \in 1 .. (n2 - 1): j < k => r1[s[j]] < r1[s[k]]
    <3> SUFFICES ASSUME NEW j \in 1 .. (n2 - 1), NEW k \in 1 .. (n2 - 1), j < k
                 PROVE  r1[s[j]] < r1[s[k]]
      OBVIOUS
    <3>1. r2[s[j]] < r2[s[k]]
      BY <1>3, <1>4
    <3> QED BY <1>4, <3>1 DEF Inserts
  <2> QED BY <2>1, <2>2, <2>3, <2>4 DEF Sorts
<1> HIDE DEF s
<1>6. s1 = s /\ n1 = n2 - 1
  <2>1. Cardinality(Live(r1)) = n2 - 1 /\ ByPosition(Live(r1), r1) = s
    BY <1>3, <1>5, SortedIs
  <2>2. Cardinality(Live(r1)) = n1
    BY OrderOf
  <2> QED BY <2>1, <2>2 DEF s1, InOrder
<1>7. s2 = InsertAt(s1, p, c)
  <2>1. InsertAt(s1, p, c) = [k \in 1 .. n2 |-> IF k < p THEN s1[k] ELSE IF k = p THEN c ELSE s1[k - 1]]
    <3>1. n1 + 1 = n2 /\ p \in 1 .. (n1 + 1)
      BY <1>3, <1>6
    <3>2. InsertAt(s1, p, c) = Inserted(s1, n1, p, c)
      BY <1>1, <3>1, InsertedSequence
    <3> QED BY <3>1, <3>2 DEF Inserted
  <2>2. ASSUME NEW k \in 1 .. n2
        PROVE  s2[k] = IF k < p THEN s1[k] ELSE IF k = p THEN c ELSE s1[k - 1]
    <3>1. CASE k < p
      <4>1. k \in 1 .. (n2 - 1)
        BY <1>3, <3>1
      <4> QED BY <1>6, <3>1, <4>1 DEF s
    <3>2. CASE k = p
      BY <1>3, <3>2
    <3>3. CASE k > p
      <4>1. k - 1 \in 1 .. (n2 - 1) /\ ~ k - 1 < p /\ k - 1 + 1 = k /\ ~ k < p /\ k # p
        BY <1>3, <3>3
      <4> QED BY <1>6, <4>1 DEF s
    <3> QED BY <1>3, <3>1, <3>2, <3>3
  <2> QED BY <1>2, <2>1, <2>2
<1>8. p \in 1 .. (Len(s1) + 1)
  BY <1>1, <1>3, <1>6
<1> QED BY <1>7, <1>8 DEF s1, s2

\* LiveOrder has the operators of the community modules under names of its own.
LEMMA SameOperators ==
  ASSUME NEW s, NEW k, NEW e
  PROVE  /\ Abstract!ToSet(s) = ToSet(s)
         /\ Abstract!SetToSeqs(s) = SetToSeqs(s)
         /\ Abstract!InsertAt(s, k, e) = InsertAt(s, k, e)
<1>1. Abstract!ToSet(s) = ToSet(s)
  BY DEF ToSet, Abstract!ToSet
<1>2. Abstract!SetToSeqs(s) = SetToSeqs(s)
  <2>1. Abstract!Cardinality(s) = Cardinality(s)
    BY DEF Cardinality, Abstract!Cardinality
  <2> QED BY <2>1 DEF SetToSeqs, Abstract!SetToSeqs
<1>3. Abstract!InsertAt(s, k, e) = InsertAt(s, k, e)
  BY DEF InsertAt, Abstract!InsertAt
<1> QED BY <1>1, <1>2, <1>3

\* The sequences that LiveOrder chooses the order without S from, and what it asks of them.
Kept(S) == Live(committed) \ S
Orderly(rest) == \A m, k \in 1 .. Len(rest): m < k => Abstract!Precedes(rest[m], rest[k])

LEMMA PrecedesIs ==
  ASSUME TypeOK, NEW n \in Nat, Dense(committed, n), NEW i \in Live(committed), NEW j \in Live(committed)
  PROVE  Abstract!Precedes(i, j) <=> committed[i] < committed[j]
<1> DEFINE s == InOrder(committed)
<1>1. /\ s \in [1 .. n -> Items] /\ Len(s) = n /\ \A k \in 1 .. n: committed[s[k]] = k
      /\ \A l \in Items: committed[l] > 0 => committed[l] \in 1 .. n /\ s[committed[l]] = l
  BY OrderOf DEF TypeOK
<1>2. Abstract!Precedes(i, j) <=> \E m, k \in 1 .. Len(s): m < k /\ s[m] = i /\ s[k] = j
  BY DEF Abstract!Precedes
<1> HIDE DEF s
<1> QED BY <1>1, <1>2 DEF Live

LEMMA WithoutIs ==
  ASSUME TypeOK, NEW n \in Nat, Dense(committed, n), NEW S
  PROVE  /\ Cardinality(Kept(S)) \in Nat
         /\ Sorts(Abstract!Without(S), Cardinality(Kept(S)), Kept(S), committed)
<1> DEFINE keep == Kept(S)
           c == Cardinality(keep)
           r == ByPosition(keep, committed)
<1>1. ToSet(InOrder(committed)) \ S = keep
  BY SortsLive DEF TypeOK, Kept
<1>2. keep \subseteq Live(committed) /\ keep \subseteq Items
  BY DEF Kept, Live
<1> HIDE DEF keep
<1>3. IsFiniteSet(keep)
  BY <1>2, QueueAssumption, FS_Subset
<1>4. c \in Nat /\ Sorts(r, c, keep, committed)
  <2>1. \A i \in keep: committed[i] \in Nat
    BY <1>2 DEF TypeOK
  <2>2. \A i, j \in keep: committed[i] = committed[j] => i = j
    BY <1>2 DEF Live, Dense, Gap
  <2> QED BY <1>3, <2>1, <2>2, Sorted
<1> HIDE DEF r, c
<1>5. \A i, j \in keep: Abstract!Precedes(i, j) <=> committed[i] < committed[j]
  BY <1>2, PrecedesIs
<1>6. r \in SetToSeqs(keep) /\ Orderly(r)
  <2>1. /\ r \in [1 .. c -> keep] /\ Len(r) = c
        /\ \A j, k \in 1 .. c: j < k => committed[r[j]] < committed[r[k]]
    <3>1. r \in [1 .. c -> keep]
      BY <1>4 DEF Sorts
    <3>2. Len(r) = c
      BY <1>4, <3>1, SequenceOf
    <3> QED BY <1>4, <3>1, <3>2 DEF Sorts
  <2>2. \A j, k \in 1 .. c: j # k => r[j] # r[k]
    <3> SUFFICES ASSUME NEW j \in 1 .. c, NEW k \in 1 .. c, j < k \/ k < j
                 PROVE  r[j] # r[k]
      BY <1>4
    <3>1. r[j] \in keep /\ r[k] \in keep /\ committed[r[j]] \in Nat /\ committed[r[k]] \in Nat
      BY <1>2, <2>1 DEF TypeOK
    <3> QED BY <2>1, <3>1
  <2>3. r \in SetToSeqs(keep)
    BY <2>1, <2>2 DEF SetToSeqs, c
  <2>4. Orderly(r)
    BY <1>5, <2>1 DEF Orderly
  <2> QED BY <2>3, <2>4
<1>7. ASSUME NEW rest \in SetToSeqs(keep), Orderly(rest)
      PROVE  rest = r
  <2>1. rest \in [1 .. c -> keep] /\ \A j, k \in 1 .. c: j # k => rest[j] # rest[k]
    BY DEF SetToSeqs, c
  <2>2. Len(rest) = c
    BY <1>4, <2>1, SequenceOf
  <2>3. \A j, k \in 1 .. c: j < k => committed[rest[j]] < committed[rest[k]]
    <3> SUFFICES ASSUME NEW j \in 1 .. c, NEW k \in 1 .. c, j < k
                 PROVE  committed[rest[j]] < committed[rest[k]]
      OBVIOUS
    <3>1. Abstract!Precedes(rest[j], rest[k]) /\ rest[j] \in keep /\ rest[k] \in keep
      BY <1>7, <2>1, <2>2 DEF Orderly
    <3> QED BY <1>5, <3>1
  <2>4. rest \in Surjection(1 .. c, keep)
    <3>1. rest \in Injection(1 .. c, keep)
      BY <2>1 DEF Injection, IsInjective
    <3>2. IsFiniteSet(1 .. c) /\ Cardinality(1 .. c) = c /\ Cardinality(keep) = c
      BY <1>4, FS_Interval DEF c
    <3> QED BY <1>3, <3>1, <3>2, FS_Injection
  <2>5. \A i \in keep: \E k \in 1 .. c: rest[k] = i
    BY <2>4 DEF Surjection
  <2>6. \A k \in 1 .. c: committed[rest[k]] \in Nat
    BY <1>2, <2>1 DEF TypeOK
  <2>7. Sorts(rest, c, keep, committed)
    BY <2>1, <2>3, <2>5, <2>6 DEF Sorts
  <2>8. ByPosition(keep, committed) = rest
    BY <1>4, <2>7, SortedIs
  <2> QED BY <2>8 DEF r
<1>8. Abstract!Without(S) = CHOOSE rest \in SetToSeqs(keep): Orderly(rest)
  <2>1. Abstract!SetToSeqs(Abstract!ToSet(InOrder(committed)) \ S) = SetToSeqs(keep)
    BY <1>1, SameOperators
  <2> QED BY <2>1 DEF Abstract!Without, Orderly
<1>9. (CHOOSE rest \in SetToSeqs(keep): Orderly(rest)) = r
  BY <1>6, <1>7
<1> QED BY <1>4, <1>8, <1>9 DEF keep, c

LEMMA SortsAppend ==
  ASSUME NEW S, NEW positions, NEW m \in Nat, NEW s, Sorts(s, m, S, positions),
         NEW c, positions[c] \in Nat, \A i \in S: positions[i] < positions[c]
  PROVE  Sorts(Append(s, c), m + 1, S \cup {c}, positions)
<1> DEFINE T == S \cup {c}
           t == Append(s, c)
<1>1. s \in [1 .. m -> S] /\ \A k \in 1 .. m: positions[s[k]] \in Nat
  BY DEF Sorts
<1>2. s \in Seq(T) /\ Len(s) = m
  <2>1. s \in [1 .. m -> T]
    BY <1>1
  <2> HIDE DEF T
  <2> QED BY <2>1, SequenceOf
<1>3. c \in T /\ S \subseteq T /\ \A i \in T: i \in S \/ i = c
  OBVIOUS
<1> HIDE DEF T
<1>4. /\ t \in Seq(T) /\ Len(t) = m + 1
      /\ \A k \in 1 .. m: t[k] = s[k]
      /\ t[m + 1] = c
  BY <1>2, <1>3
<1> HIDE DEF t
<1>5. t \in [1 .. (m + 1) -> T]
  BY <1>4
<1>6. \A k \in 1 .. (m + 1): k \in 1 .. m \/ k = m + 1
  OBVIOUS
<1>7. \A k \in 1 .. (m + 1): positions[t[k]] \in Nat
  BY <1>1, <1>4, <1>6
<1>8. ASSUME NEW j \in 1 .. (m + 1), NEW k \in 1 .. (m + 1), j < k
      PROVE  positions[t[j]] < positions[t[k]]
  <2>1. j \in 1 .. m /\ t[j] = s[j] /\ s[j] \in S
    BY <1>1, <1>4, <1>8
  <2>2. CASE k = m + 1
    BY <1>4, <2>1, <2>2
  <2>3. CASE k \in 1 .. m
    BY <1>4, <1>8, <2>1, <2>3 DEF Sorts
  <2> QED BY <1>6, <2>2, <2>3
<1>9. ASSUME NEW i \in T
      PROVE  \E k \in 1 .. (m + 1): t[k] = i
  <2>1. CASE i = c
    <3>1. m + 1 \in 1 .. (m + 1)
      OBVIOUS
    <3> QED BY <1>4, <2>1, <3>1
  <2>2. CASE i \in S
    <3>1. PICK k \in 1 .. m: s[k] = i
      BY <2>2 DEF Sorts
    <3>2. k \in 1 .. (m + 1) /\ t[k] = i
      BY <1>4, <3>1
    <3> QED BY <3>2
  <2> QED BY <1>3, <2>1, <2>2
<1>10. Sorts(t, m + 1, T, positions)
  BY <1>5, <1>7, <1>8, <1>9 DEF Sorts
<1> QED BY <1>10 DEF t, T

LEMMA ReorderCommits ==
  ASSUME Inv, CommitTransaction, \A i \in Items: committed[i] > 0 <=> rows[i] > 0,
         NEW a \in Agents, seen[a] = InOrder(committed)
  PROVE  Abstract!Rearrange(a)
<1>1. /\ committed' = rows /\ ended' = ended \cup {i \in Items: committed[i] > 0 /\ rows[i] = 0}
      /\ seen' = seen /\ TypeOK /\ Finished
  BY FinishedAt DEF CommitTransaction
<1>2. ended' = ended
  BY <1>1 DEF TypeOK
<1>3. PICK n1 \in Nat: Dense(committed, n1)
  BY DEF Inv
<1>4. PICK n2 \in Nat: Dense(rows, n2)
  BY <1>1 DEF Finished
<1>5. Live(rows) = Live(committed)
  BY DEF Live
<1>6. Len(InOrder(rows)) = Len(InOrder(committed))
  <2>1. Cardinality(Live(committed)) = n1 /\ Len(InOrder(committed)) = n1
    BY <1>1, <1>3, OrderOf DEF TypeOK
  <2>2. Cardinality(Live(rows)) = n2 /\ Len(InOrder(rows)) = n2
    BY <1>1, <1>4, OrderOf DEF TypeOK
  <2> QED BY <1>5, <2>1, <2>2
<1>7. Abstract!ToSet(InOrder(rows)) = Abstract!ToSet(InOrder(committed))
  <2>1. ToSet(InOrder(rows)) = Live(rows) /\ ToSet(InOrder(committed)) = Live(committed)
    BY <1>1, <1>3, <1>4, SortsLive DEF TypeOK
  <2> QED BY <1>5, <2>1, SameOperators
<1>8. InOrder(committed)' = InOrder(rows)
  BY <1>1 DEF InOrder, Live, ByPosition
<1>9. Abstract!ToSet(InOrder(committed))' = Abstract!ToSet(InOrder(rows))
  BY <1>8 DEF Abstract!ToSet
<1> QED BY <1>1, <1>2, <1>6, <1>7, <1>8, <1>9 DEF Abstract!Rearrange

LEMMA ProgressCommits ==
  ASSUME Inv, CommitTransaction, Progress(<<>>)
  PROVE  [Abstract!Next]_Abstract!vars
<1> DEFINE s1 == InOrder(committed)
           s2 == InOrder(rows)
<1>1. /\ committed' = rows /\ ended' = ended \cup Gone
      /\ seen' = seen /\ TypeOK /\ Finished
  BY FinishedAt DEF CommitTransaction, Gone
<1>2. PICK n1 \in Nat: Dense(committed, n1)
  BY DEF Inv
<1>3. PICK n2 \in Nat: Dense(rows, n2)
  BY <1>1 DEF Finished
<1>4. /\ committed \in [Items -> Nat] /\ rows \in [Items -> Nat]
      /\ \A i \in ended: committed[i] = 0 /\ i \in Items
  BY <1>1 DEF TypeOK, Inv
<1>5. /\ Sorts(s1, n1, Live(committed), committed) /\ ToSet(s1) = Live(committed)
      /\ Sorts(s2, n2, Live(rows), rows)
  BY <1>2, <1>3, <1>4, SortsLive
<1>6. s1' = s2
  BY <1>1 DEF InOrder, Live, ByPosition
<1>7. OrderKept /\ Entered \cap ended = {} /\ \A i, j \in Entered: i = j
  BY DEF Progress
<1>8. Live(rows) = Kept(Gone) \cup Entered /\ Entered \cap Live(committed) = {} /\ Entered \subseteq Items
  BY <1>4 DEF Live, Kept, Gone, Entered
<1> HIDE DEF s1, s2
<1>9. CASE Gone = {} /\ Entered = {}
  <2>1. Live(rows) = Live(committed)
    BY <1>8, <1>9 DEF Kept
  <2>2. \A i, j \in Live(committed): committed[i] < committed[j] => rows[i] < rows[j]
    BY <1>7, <2>1 DEF OrderKept, Live
  <2>3. \A i \in Live(committed): rows[i] \in Nat
    BY <1>4 DEF Live
  <2>4. Sorts(s1, n1, Live(rows), rows)
    BY <1>5, <2>1, <2>2, <2>3, SortsBoth
  <2>5. s2 = s1
    BY <2>4, SortedIs DEF s2, InOrder
  <2>6. s1' = s1 /\ ended' = ended /\ seen' = seen
    BY <1>1, <1>6, <1>9, <2>5
  <2> QED BY <2>6 DEF Abstract!vars, s1
<1>10. CASE Gone = {} /\ Entered # {}
  <2>1. PICK c \in Entered: TRUE
    BY <1>10
  <2>2. c \in Items /\ c \notin Live(committed) /\ c \notin ended /\ \A i \in Items: i \in Entered => i = c
    BY <1>7, <1>8, <2>1
  <2>3. Inserts(committed, rows, c)
    <3>1. committed[c] = 0 /\ rows[c] > 0
      BY <2>1 DEF Entered
    <3>2. \A i \in Items: i # c => (committed[i] > 0 <=> rows[i] > 0)
      BY <1>4, <1>10, <2>2 DEF Entered, Gone
    <3>3. \A i, j \in Items: committed[i] > 0 /\ committed[j] > 0 =>
             (committed[i] < committed[j] <=> rows[i] < rows[j])
      <4>1. \A i \in Items: committed[i] > 0 => rows[i] > 0
        BY <1>4, <1>10 DEF Gone
      <4> QED BY <1>7, <4>1 DEF OrderKept
    <3> QED BY <3>1, <3>2, <3>3 DEF Inserts
  <2>4. rows[c] \in 1 .. (Len(s1) + 1) /\ s2 = InsertAt(s1, rows[c], c)
    BY <1>2, <1>3, <1>4, <2>2, <2>3, InsertedAt DEF s1, s2
  <2>5. PICK p \in 1 .. (Len(s1) + 1): s1' = Abstract!InsertAt(s1, p, c)
    BY <1>6, <2>4, SameOperators
  <2>6. c \notin Abstract!ToSet(s1) \cup ended
    BY <1>5, <2>2, SameOperators
  <2>7. ended' = ended /\ seen' = seen
    BY <1>1, <1>10
  <2>8. Abstract!Insert(c)
    BY <2>5, <2>6, <2>7 DEF Abstract!Insert, s1
  <2> QED BY <2>2, <2>8 DEF Abstract!Next
<1>11. CASE Gone # {}
  <2> DEFINE w == Abstract!Without(Gone)
             m == Cardinality(Kept(Gone))
  <2>1. m \in Nat /\ Sorts(w, m, Kept(Gone), committed)
    BY <1>1, <1>2, WithoutIs
  <2> HIDE DEF w, m
  <2>2. Sorts(w, m, Kept(Gone), rows)
    <3>1. \A i \in Kept(Gone): rows[i] \in Nat /\ rows[i] > 0 /\ committed[i] > 0 /\ i \in Items
      BY <1>4 DEF Kept, Gone, Live
    <3>2. \A i, j \in Kept(Gone): committed[i] < committed[j] => rows[i] < rows[j]
      BY <1>7, <3>1 DEF OrderKept
    <3> QED BY <2>1, <3>1, <3>2, SortsBoth
  <2>3. Gone \subseteq Abstract!ToSet(s1) /\ Gone \subseteq Items
    BY <1>5, SameOperators DEF Gone, Live
  <2>4. s2 = w \/ \E c \in Items \ (Abstract!ToSet(s1) \cup ended): s2 = Append(w, c)
    <3>1. CASE Entered = {}
      <4>1. Sorts(w, m, Live(rows), rows)
        BY <1>8, <2>2, <3>1
      <4> QED BY <2>1, <4>1, SortedIs DEF s2, InOrder
    <3>2. CASE Entered # {}
      <4>1. PICK c \in Entered: TRUE
        BY <3>2
      <4>2. c \in Items \ (Live(committed) \cup ended) /\ Entered = {c}
        BY <1>7, <1>8, <4>1
      <4>3. \A i \in Kept(Gone): rows[i] < rows[c]
        <5> SUFFICES ASSUME NEW i \in Kept(Gone)
                     PROVE  rows[i] < rows[c]
          OBVIOUS
        <5>1. i \in Items /\ i # c /\ rows[i] > 0
          BY <1>4, <4>2 DEF Kept, Live, Gone
        <5>2. rows[i] <= rows[c]
          BY <1>11, <4>1, <5>1 DEF Progress
        <5>3. rows[i] # rows[c]
          BY <1>3, <4>2, <5>1 DEF Dense, Gap
        <5> QED BY <1>4, <4>2, <5>1, <5>2, <5>3
      <4>4. Sorts(Append(w, c), m + 1, Kept(Gone) \cup {c}, rows)
        BY <1>4, <2>1, <2>2, <4>2, <4>3, SortsAppend
      <4>5. Sorts(Append(w, c), m + 1, Live(rows), rows) /\ m + 1 \in Nat
        BY <1>8, <2>1, <4>2, <4>4
      <4>6. s2 = Append(w, c)
        BY <4>5, SortedIs DEF s2, InOrder
      <4>7. c \in Items \ (Abstract!ToSet(s1) \cup ended)
        BY <1>5, <4>2, SameOperators
      <4> QED BY <4>6, <4>7
    <3> QED BY <3>1, <3>2
  <2>5. s1' = w \/ \E c \in Items \ (Abstract!ToSet(s1) \cup ended): s1' = Append(w, c)
    BY <1>6, <2>4
  <2>6. Abstract!End(Gone)
    BY <1>1, <1>11, <2>3, <2>5 DEF Abstract!End, w, s1
  <2> QED BY <2>3, <2>6 DEF Abstract!Next
<1> QED BY <1>9, <1>10, <1>11

LEMMA StepImplements ==
  ASSUME Inv, [Next]_vars
  PROVE  [Abstract!Next]_Abstract!vars
<1>1. ASSUME UNCHANGED <<committed, ended, seen>>
      PROVE  UNCHANGED Abstract!vars
  BY <1>1 DEF Abstract!vars, InOrder, Live, ByPosition
<1>2. ASSUME NEW a \in Agents, Read(a)
      PROVE  Abstract!Next
  <2>1. /\ seen' = [seen EXCEPT ![a] = InOrder(committed)] /\ committed' = committed /\ ended' = ended
    BY <1>2 DEF Read
  <2>2. InOrder(committed)' = InOrder(committed)
    BY <2>1 DEF InOrder, Live, ByPosition
  <2>3. Abstract!Read(a)
    BY <2>1, <2>2 DEF Abstract!Read
  <2> QED BY <2>3 DEF Abstract!Next
<1>3. ASSUME NEW a \in Agents, NEW requested \in Orders, Reorder(a, requested)
      PROVE  UNCHANGED Abstract!vars
  BY <1>1, <1>3 DEF Reorder, Begin
<1>4. ASSUME NEW i \in Items, NEW at \in 1 .. Cardinality(Items), Propose(i, at)
      PROVE  UNCHANGED Abstract!vars
  BY <1>1, <1>4 DEF Propose, Begin
<1>5. ASSUME NEW i \in Items, End(i)
      PROVE  UNCHANGED Abstract!vars
  BY <1>1, <1>5 DEF End, Begin
<1>6. ASSUME NEW campaign \in Items, NEW sources \in SUBSET Items, Consolidate(campaign, sources)
      PROVE  UNCHANGED Abstract!vars
  BY <1>1, <1>6 DEF Consolidate, Begin
<1>7. ASSUME SelectRows \/ Update \/ Rollback \/ UNCHANGED vars
      PROVE  UNCHANGED Abstract!vars
  BY <1>1, <1>7 DEF SelectRows, Update, Rollback, vars
<1>8. ASSUME CommitTransaction
      PROVE  [Abstract!Next]_Abstract!vars
  <2>1. Finished
    BY <1>8, FinishedAt DEF CommitTransaction
  <2>2. CASE Progress(<<>>)
    BY <1>8, <2>2, ProgressCommits
  <2>3. CASE /\ \A i \in Items: committed[i] > 0 <=> rows[i] > 0
             /\ \E a \in Agents: seen[a] = InOrder(committed)
    <3>1. PICK a \in Agents: seen[a] = InOrder(committed)
      BY <2>3
    <3>2. Abstract!Rearrange(a)
      BY <1>8, <2>3, <3>1, ReorderCommits
    <3> QED BY <3>2 DEF Abstract!Next
  <2> QED BY <2>1, <2>2, <2>3 DEF Finished
<1> QED BY <1>2, <1>3, <1>4, <1>5, <1>6, <1>7, <1>8 DEF Next

\* The queue column is the priority order of LiveOrder for any items and agents: a new item is
\* inserted, ended items leave together and never return, the others keep their order, and only
\* a reader of the whole current order rearranges it (service.py:948).
THEOREM QueueIsTheOrder == Spec => ImplementsLiveOrder
<1>1. Init => Abstract!Init
  <2> SUFFICES ASSUME Init
               PROVE  Abstract!Init
    OBVIOUS
  <2>1. committed \in [Items -> Nat] /\ Dense(committed, 0)
    BY DEF Init, Dense, Gap
  <2>2. InOrder(committed) \in Seq(Items) /\ Len(InOrder(committed)) = 0
    BY <2>1, OrderOf
  <2>3. InOrder(committed) = <<>>
    BY <2>2
  <2> QED BY <2>3 DEF Init, Abstract!Init
<1>2. Inv /\ [Next]_vars => [Abstract!Next]_Abstract!vars
  BY StepImplements
<1> QED BY <1>1, <1>2, InvHolds, PTL DEF Spec, ImplementsLiveOrder, Abstract!Spec
=============================================================================
