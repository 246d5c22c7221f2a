---------------------------- MODULE EventsProofs ----------------------------
(***************************************************************************)
(* Proofs about Events, for any set of peers, identities and channels.     *)
(***************************************************************************)
EXTENDS Events, FiniteSetTheorems, SequenceTheorems, WellFoundedInduction, TLAPS

-----------------------------------------------------------------------------
\* Counting positions.

\* The principle of the least number, for the inductions below.
LEMMA Smallest ==
  ASSUME NEW S \in SUBSET Nat, S # {}
  PROVE  \E m \in S : \A k \in S : m <= k
<1> DEFINE below == {0..m : m \in S}
<1>1. IsWellFoundedOn(StrictSubsetOrdering(Nat), FiniteSubsetsOf(Nat))
  BY FS_StrictSubsetOrderingWellFounded
<1>2. below \subseteq FiniteSubsetsOf(Nat) /\ below # {}
  <2>1. \A m \in S : 0..m \in SUBSET Nat /\ IsFiniteSet(0..m)
    BY FS_Interval
  <2> QED
    BY <2>1 DEF FiniteSubsetsOf
<1>3. PICK x \in below : \A y \in below : <<y, x>> \notin StrictSubsetOrdering(Nat)
  BY <1>1, <1>2, WFMin
<1>4. PICK m \in S : x = 0..m
  OBVIOUS
<1>5. ASSUME NEW k \in S, k < m
      PROVE  FALSE
  <2>1. 0..k \subseteq 0..m /\ 0..k # 0..m
    <3>1. m \in 0..m /\ m \notin 0..k
      BY <1>5
    <3> QED
      BY <1>5, <3>1
  <2>2. 0..k \in SUBSET Nat /\ 0..m \in SUBSET Nat
    OBVIOUS
  <2>3. <<0..k, 0..m>> \in StrictSubsetOrdering(Nat)
    BY <2>1, <2>2 DEF StrictSubsetOrdering
  <2>4. 0..k \in below
    OBVIOUS
  <2> QED
    BY <1>3, <1>4, <2>3, <2>4
<1> QED
  BY <1>5

\* A part of the positions of a list is finite, and so is what UpTo counts of it.
LEMMA PositionsFinite ==
  ASSUME NEW n \in Nat, NEW S \in SUBSET (1..n)
  PROVE  IsFiniteSet(S) /\ Cardinality(S) \in Nat /\ Cardinality(S) <= n
<1>1. IsFiniteSet(1..n) /\ Cardinality(1..n) = n
  BY FS_Interval
<1> QED
  BY <1>1, FS_Subset, FS_CardinalityType

LEMMA UpToBounded ==
  ASSUME NEW n \in Nat, NEW S \in SUBSET (1..n), NEW i \in Int
  PROVE  UpTo(S, i) \in Nat /\ UpTo(S, i) <= Cardinality(S)
<1>1. {k \in S : k <= i} \in SUBSET S /\ IsFiniteSet(S)
  BY PositionsFinite
<1> QED
  BY <1>1, FS_Subset, FS_CardinalityType DEF UpTo

\* UpTo grows with the position.
LEMMA UpToMonotone ==
  ASSUME NEW n \in Nat, NEW S \in SUBSET (1..n), NEW i \in Int, NEW j \in Int, i <= j
  PROVE  UpTo(S, i) <= UpTo(S, j)
<1> DEFINE T == {k \in S : k <= j}
<1>1. IsFiniteSet(T)
  <2>1. IsFiniteSet(S) /\ T \in SUBSET S
    BY PositionsFinite
  <2> QED
    BY <2>1, FS_Subset
<1>2. {k \in S : k <= i} \in SUBSET T
  <2>1. \A k \in S : k <= i => k <= j
    OBVIOUS
  <2> QED
    BY <2>1
<1> QED
  BY <1>1, <1>2, FS_Subset DEF UpTo

\* What a broadcast leaves of a list: elements of it, in their order and none of them
\* twice.
LEMMA RemainingKeeps ==
  ASSUME NEW S, NEW list \in Seq(S), NEW closed \in SUBSET (DOMAIN list)
  PROVE  LET rest == Remaining(list, closed)
         IN  /\ rest \in Seq(S)
             /\ ToSet(rest) \subseteq ToSet(list)
             /\ (\A i, j \in DOMAIN list : list[i] = list[j] => i = j)
                => \A i, j \in DOMAIN rest : rest[i] = rest[j] => i = j
<1> DEFINE n == Len(list)
           removed == Removed(list, closed)
           m == n - Cardinality(removed)
           rest == [i \in 1..m |-> list[i + UpTo(removed, i)]]
<1>1. n \in Nat /\ DOMAIN list = 1..n /\ removed \in SUBSET (1..n)
  BY DEF Removed
<1> HIDE DEF removed
<1>2. Cardinality(removed) \in Nat /\ m \in Nat
  BY <1>1, PositionsFinite
<1>3. ASSUME NEW i \in 1..m
      PROVE  UpTo(removed, i) \in Nat /\ i + UpTo(removed, i) \in 1..n
  <2>1. UpTo(removed, i) \in Nat /\ UpTo(removed, i) <= Cardinality(removed)
    <3>1. i \in Int
      OBVIOUS
    <3> QED
      BY <1>1, <3>1, UpToBounded
  <2> QED
    BY <1>1, <1>2, <2>1
<1>4. rest \in Seq(S) /\ DOMAIN rest = 1..m
  <2>1. rest \in [1..m -> S]
    BY <1>1, <1>3
  <2> QED
    BY <1>2, <2>1, IsASeq
<1>5. \A i \in DOMAIN rest : \E k \in DOMAIN list : rest[i] = list[k]
  BY <1>1, <1>3
<1>6. ASSUME \A i, j \in DOMAIN list : list[i] = list[j] => i = j,
             NEW i \in DOMAIN rest, NEW j \in DOMAIN rest, rest[i] = rest[j]
      PROVE  i = j
  <2>1. i + UpTo(removed, i) = j + UpTo(removed, j)
    BY <1>1, <1>3, <1>6
  <2>2. /\ i \in Int /\ j \in Int
        /\ UpTo(removed, i) \in Nat /\ UpTo(removed, j) \in Nat
    BY <1>2, <1>3
  <2>3. /\ i <= j => UpTo(removed, i) <= UpTo(removed, j)
        /\ j <= i => UpTo(removed, j) <= UpTo(removed, i)
    BY <1>1, <2>2, UpToMonotone
  <2> QED
    BY <2>1, <2>2, <2>3
<1>7. ToSet(rest) \subseteq ToSet(list)
  BY <1>5 DEF ToSet
<1>8. Remaining(list, closed) = rest
  BY DEF Remaining, removed
<1> QED
  BY <1>4, <1>6, <1>7, <1>8

\* At most one receiver on a list is gone: the broadcast does not panic, and only that
\* receiver's channel leaves the list.
LEMMA OneClosedLeaves ==
  ASSUME NEW S, NEW list \in Seq(S), NEW closed \in SUBSET (DOMAIN list),
         \A j, k \in closed : j = k
  PROVE  /\ ~Panics(list, closed)
         /\ \A i \in DOMAIN list \ closed : list[i] \in ToSet(Remaining(list, closed))
<1> DEFINE n == Len(list)
           removed == Removed(list, closed)
           m == n - Cardinality(removed)
           rest == [i \in 1..m |-> list[i + UpTo(removed, i)]]
<1>1. n \in Nat /\ DOMAIN list = 1..n
  OBVIOUS
<1>2. removed = closed
  <2>1. ASSUME NEW k \in closed PROVE UpTo(closed, k - 1) = 0
    <3>1. {j \in closed : j <= k - 1} = {}
      BY <1>1
    <3> QED
      BY <3>1, FS_EmptySet DEF UpTo
  <2> QED
    BY <1>1, <2>1 DEF Removed
<1> HIDE DEF removed
<1>3. ASSUME NEW i \in DOMAIN list \ closed
      PROVE  \E j \in 1..m : rest[j] = list[i]
  <2>1. CASE closed = {}
    <3>1. m = n /\ UpTo(removed, i) = 0
      BY <1>1, <1>2, <2>1, FS_EmptySet DEF UpTo
    <3> QED
      BY <1>1, <3>1
  <2>2. CASE closed # {}
    <3>1. PICK k \in closed : closed = {k}
      BY <2>2
    <3>2. m = n - 1 /\ k \in 1..n
      BY <1>1, <1>2, <3>1, FS_Singleton
    <3>3. ASSUME NEW j \in Int
          PROVE  UpTo(removed, j) = IF k <= j THEN 1 ELSE 0
      <4>1. {l \in removed : l <= j} = IF k <= j THEN {k} ELSE {}
        BY <1>2, <3>1
      <4> QED
        BY <4>1, FS_Singleton, FS_EmptySet DEF UpTo
    <3>4. i # k /\ i \in 1..n
      BY <1>1, <3>1
    <3>5. CASE i < k
      <4>1. i \in 1..m /\ UpTo(removed, i) = 0
        BY <3>2, <3>3, <3>4, <3>5
      <4> QED
        BY <4>1, <3>4
    <3>6. CASE i > k
      <4>1. i - 1 \in 1..m /\ UpTo(removed, i - 1) = 1
        BY <1>1, <3>2, <3>3, <3>4, <3>6
      <4>2. rest[i - 1] = list[i]
        BY <4>1, <3>4
      <4> QED
        BY <4>1, <4>2
    <3> QED
      BY <1>1, <3>2, <3>4, <3>5, <3>6
  <2> QED
    BY <2>1, <2>2
<1>4. Remaining(list, closed) = rest
  BY DEF Remaining, removed
<1>5. \A i \in DOMAIN list \ closed : list[i] \in ToSet(rest)
  BY <1>3 DEF ToSet
<1> QED
  BY <1>2, <1>4, <1>5 DEF Panics, removed

-----------------------------------------------------------------------------
\* The loop over the closed positions.

\* The first j closed positions, and a list after their removal.
Leading(closed, j) == {closed[l] : l \in 1..j}
AfterRemovals(list, closed, j) ==
  [i \in 1..(Len(list) - j) |-> list[i + UpTo(Leading(closed, j), i)]]

\* There are j of the first j elements of an increasing sequence of positions.
LEMMA LeadingCounted ==
  ASSUME NEW n \in Nat, NEW closed \in Seq(1..n),
         \A k, l \in DOMAIN closed : k < l => closed[k] < closed[l],
         NEW j \in 0..Len(closed)
  PROVE  /\ Leading(closed, j) \in SUBSET (1..n)
         /\ IsFiniteSet(Leading(closed, j)) /\ Cardinality(Leading(closed, j)) = j
         /\ j <= n
<1> DEFINE Bad == {b \in 0..Len(closed) : ~(/\ IsFiniteSet(Leading(closed, b))
                                            /\ Cardinality(Leading(closed, b)) = b)}
<1>1. Bad = {}
  <2>1. SUFFICES ASSUME Bad # {} PROVE FALSE
    OBVIOUS
  <2>2. PICK b \in Bad : \A k \in Bad : b <= k
    <3>1. Bad \in SUBSET Nat
      OBVIOUS
    <3> QED
      BY <2>1, <3>1, Smallest
  <2>3. b # 0
    <3>1. Leading(closed, 0) = {}
      BY DEF Leading
    <3> QED
      BY <3>1, FS_EmptySet
  <2>4. b \in 1..Len(closed) /\ b - 1 \in 0..Len(closed) /\ b - 1 \notin Bad
    <3>1. b \in 0..Len(closed)
      OBVIOUS
    <3> HIDE DEF Bad
    <3>2. b - 1 \notin Bad
      BY <2>2, <3>1
    <3> QED
      BY <2>3, <3>1, <3>2
  <2>5. IsFiniteSet(Leading(closed, b - 1)) /\ Cardinality(Leading(closed, b - 1)) = b - 1
    BY <2>4
  <2>6. Leading(closed, b) = Leading(closed, b - 1) \cup {closed[b]}
    <3>1. 1..b = (1..(b - 1)) \cup {b}
      BY <2>4
    <3> QED
      BY <3>1 DEF Leading
  <2>7. closed[b] \notin Leading(closed, b - 1)
    <3>1. \A l \in 1..(b - 1) : closed[l] < closed[b] /\ closed[l] \in Int /\ closed[b] \in Int
      BY <2>4
    <3> QED
      BY <3>1 DEF Leading
  <2>8. IsFiniteSet(Leading(closed, b)) /\ Cardinality(Leading(closed, b)) = b
    <3>1. \A T, x : IsFiniteSet(T) /\ x \notin T
                   => IsFiniteSet(T \cup {x}) /\ Cardinality(T \cup {x}) = Cardinality(T) + 1
      BY FS_AddElement
    <3>2. Cardinality(Leading(closed, b)) = (b - 1) + 1 /\ IsFiniteSet(Leading(closed, b))
      BY <2>5, <2>6, <2>7, <3>1
    <3> QED
      BY <2>4, <3>2
  <2> QED
    BY <2>8
<1>2. Leading(closed, j) \in SUBSET (1..n)
  BY DEF Leading
<1>3. IsFiniteSet(Leading(closed, j)) /\ Cardinality(Leading(closed, j)) = j
  BY <1>1
<1> QED
  BY <1>2, <1>3, PositionsFinite

\* What UpTo counts of them.
LEMMA LeadingUpTo ==
  ASSUME NEW n \in Nat, NEW closed \in Seq(1..n),
         \A k, l \in DOMAIN closed : k < l => closed[k] < closed[l],
         NEW j \in 1..Len(closed), NEW i \in Int
  PROVE  /\ i < closed[j] => UpTo(Leading(closed, j), i) = UpTo(Leading(closed, j - 1), i)
         /\ i >= closed[j] => /\ UpTo(Leading(closed, j), i) = j
                              /\ UpTo(Leading(closed, j - 1), i) = j - 1
<1>1. closed[j] \in Int /\ \A l \in 1..j : closed[l] \in Int /\ closed[l] <= closed[j]
  OBVIOUS
<1>2. Leading(closed, j) = Leading(closed, j - 1) \cup {closed[j]}
  <2>1. 1..j = (1..(j - 1)) \cup {j}
    OBVIOUS
  <2> QED
    BY <2>1 DEF Leading
<1>3. \A k \in Leading(closed, j) : k \in Int /\ k <= closed[j]
  BY <1>1 DEF Leading
<1>4. CASE i < closed[j]
  <2>1. {k \in Leading(closed, j) : k <= i} = {k \in Leading(closed, j - 1) : k <= i}
    BY <1>1, <1>2, <1>4
  <2>2. UpTo(Leading(closed, j), i) = UpTo(Leading(closed, j - 1), i)
    BY <2>1 DEF UpTo
  <2> QED
    BY <1>1, <1>4, <2>2
<1>5. CASE i >= closed[j]
  <2>1. \A k \in Leading(closed, j) : k <= i
    BY <1>1, <1>3, <1>5
  <2>2. {k \in Leading(closed, j) : k <= i} = Leading(closed, j)
        /\ {k \in Leading(closed, j - 1) : k <= i} = Leading(closed, j - 1)
    BY <1>2, <2>1
  <2>3. Cardinality(Leading(closed, j)) = j /\ Cardinality(Leading(closed, j - 1)) = j - 1
    <3>1. j \in 0..Len(closed) /\ j - 1 \in 0..Len(closed)
      OBVIOUS
    <3> QED
      BY <3>1, LeadingCounted
  <2>4. UpTo(Leading(closed, j), i) = j /\ UpTo(Leading(closed, j - 1), i) = j - 1
    BY <2>2, <2>3 DEF UpTo
  <2> QED
    BY <1>1, <1>5, <2>4
<1> QED
  BY <1>1, <1>4, <1>5

\* A list after removals is a list, shorter by their number.
LEMMA AfterRemovalsType ==
  ASSUME NEW S, NEW list \in Seq(S), NEW closed \in Seq(1..Len(list)),
         \A k, l \in DOMAIN closed : k < l => closed[k] < closed[l],
         NEW j \in 0..Len(closed)
  PROVE  /\ AfterRemovals(list, closed, j) \in Seq(S)
         /\ Len(AfterRemovals(list, closed, j)) = Len(list) - j
<1>1. /\ Leading(closed, j) \in SUBSET (1..Len(list))
      /\ Cardinality(Leading(closed, j)) = j /\ j <= Len(list)
  BY LeadingCounted
<1>2. ASSUME NEW i \in 1..(Len(list) - j)
      PROVE  list[i + UpTo(Leading(closed, j), i)] \in S
  <2>1. UpTo(Leading(closed, j), i) \in Nat /\ UpTo(Leading(closed, j), i) <= j
    <3>1. i \in Int /\ Len(list) \in Nat
      OBVIOUS
    <3> QED
      BY <1>1, <3>1, UpToBounded
  <2> QED
    BY <1>1, <2>1
<1>3. AfterRemovals(list, closed, j) \in [1..(Len(list) - j) -> S]
  BY <1>2 DEF AfterRemovals
<1>4. Len(list) - j \in Nat
  BY <1>1
<1>5. AfterRemovals(list, closed, j) \in Seq(S)
  <2> DEFINE d == Len(list) - j
  <2>1. d \in Nat /\ AfterRemovals(list, closed, j) \in [1..d -> S]
    BY <1>3, <1>4
  <2> HIDE DEF d
  <2> QED
    BY <2>1
<1>6. DOMAIN AfterRemovals(list, closed, j) = 1..(Len(list) - j)
  BY DEF AfterRemovals
<1> QED
  BY <1>4, <1>5, <1>6, LenProperties

\* RemoveAt on an element of the list.
LEMMA RemoveAtElement ==
  ASSUME NEW S, NEW s \in Seq(S), NEW c \in 1..Len(s)
  PROVE  RemoveAt(s, c) = [i \in 1..(Len(s) - 1) |-> IF i < c THEN s[i] ELSE s[i + 1]]
<1> DEFINE front == SubSeq(s, 1, c - 1)
           back == SubSeq(s, c + 1, Len(s))
           cut == [i \in 1..(Len(s) - 1) |-> IF i < c THEN s[i] ELSE s[i + 1]]
<1>1. front \in Seq(S) /\ Len(front) = c - 1 /\ \A i \in 1..(c - 1) : front[i] = s[i]
  OBVIOUS
<1>2. back \in Seq(S) /\ Len(back) = Len(s) - c
      /\ \A i \in 1..(Len(s) - c) : back[i] = s[i + c]
  OBVIOUS
<1> HIDE DEF front, back
<1>3. front \o back \in Seq(S) /\ Len(front \o back) = Len(s) - 1
  BY <1>1, <1>2
<1>4. \A i \in 1..(Len(s) - 1) : (front \o back)[i] = cut[i]
  BY <1>1, <1>2
<1>5. cut \in Seq(S) /\ Len(cut) = Len(s) - 1
  <2>1. cut \in [1..(Len(s) - 1) -> S]
    OBVIOUS
  <2> QED
    BY <2>1
<1>6. front \o back = cut
  BY <1>3, <1>4, <1>5, SeqEqual
<1> QED
  BY <1>6 DEF RemoveAt, front, back

\* One round of the loop.
LEMMA RemovalStep ==
  ASSUME NEW S, NEW list \in Seq(S), NEW closed \in Seq(1..Len(list)),
         \A k, l \in DOMAIN closed : k < l => closed[k] < closed[l],
         NEW j \in 1..Len(closed), closed[j] <= Len(list) - (j - 1)
  PROVE  RemoveAt(AfterRemovals(list, closed, j - 1), closed[j]) = AfterRemovals(list, closed, j)
<1> DEFINE before == AfterRemovals(list, closed, j - 1)
           n == Len(list)
           c == closed[j]
<1>1. before \in Seq(S) /\ Len(before) = n - (j - 1)
  <2>1. j - 1 \in 0..Len(closed)
    OBVIOUS
  <2> QED
    BY <2>1, AfterRemovalsType
<1>2. n \in Nat /\ c \in 1..n /\ c <= Len(before) /\ c \in 1..Len(before)
  BY <1>1
<1>3. RemoveAt(before, c)
        = [i \in 1..(Len(before) - 1) |-> IF i < c THEN before[i] ELSE before[i + 1]]
  BY <1>1, <1>2, RemoveAtElement
<1>4. Len(before) - 1 = n - j
  BY <1>1, <1>2
<1>5. ASSUME NEW i \in 1..(n - j)
      PROVE  (IF i < c THEN before[i] ELSE before[i + 1])
               = list[i + UpTo(Leading(closed, j), i)]
  <2>1. i \in 1..(n - (j - 1)) /\ i + 1 \in 1..(n - (j - 1)) /\ i \in Int /\ i + 1 \in Int
    BY <1>2
  <2>2. /\ before[i] = list[i + UpTo(Leading(closed, j - 1), i)]
        /\ before[i + 1] = list[(i + 1) + UpTo(Leading(closed, j - 1), i + 1)]
    BY <2>1 DEF AfterRemovals
  <2>3. /\ i < c => UpTo(Leading(closed, j), i) = UpTo(Leading(closed, j - 1), i)
        /\ i >= c => UpTo(Leading(closed, j), i) = j
        /\ i + 1 >= c => UpTo(Leading(closed, j - 1), i + 1) = j - 1
    BY <1>2, <2>1, LeadingUpTo
  <2> HIDE DEF before, n, c
  <2>4. CASE i < c
    BY <2>2, <2>3, <2>4
  <2>5. CASE i >= c
    <3>1. i + 1 >= c /\ ~(i < c) /\ (i + 1) + (j - 1) = i + j
      BY <1>2, <2>1, <2>5
    <3> QED
      BY <2>2, <2>3, <2>5, <3>1
  <2> QED
    BY <1>2, <2>1, <2>4, <2>5
<1> HIDE DEF before, c
<1>6. RemoveAt(before, c) = AfterRemovals(list, closed, j)
  BY <1>3, <1>4, <1>5 DEF AfterRemovals
<1> QED
  BY <1>6 DEF before, c

\* broadcast_to_channels: closed_channels is the ascending list of closed positions, and
\* channels[j] the list after j rounds of its second loop, of which m are made before the
\* loop ends or panics.  What it leaves is Remaining, and it panics if Panics says so.
THEOREM RemovalLoop ==
  ASSUME NEW S, NEW list \in Seq(S), NEW closed_channels \in Seq(1..Len(list)),
         \A k, l \in DOMAIN closed_channels :
           k < l => closed_channels[k] < closed_channels[l],
         NEW m \in 0..Len(closed_channels),
         NEW channels, channels[0] = list,
         \A j \in 1..m : /\ closed_channels[j] <= Len(channels[j - 1])
                         /\ channels[j] = RemoveAt(channels[j - 1], closed_channels[j]),
         m < Len(closed_channels) => closed_channels[m + 1] > Len(channels[m])
  PROVE  /\ channels[m] = Remaining(list, ToSet(closed_channels))
         /\ Panics(list, ToSet(closed_channels)) <=> m < Len(closed_channels)
<1> DEFINE n == Len(list)
           last == Len(closed_channels)
           closed == ToSet(closed_channels)
           Round(j) == channels[j] = AfterRemovals(list, closed_channels, j)
           Bad == {j \in 0..m : ~Round(j)}
<1>1. n \in Nat /\ last \in Nat /\ \A l \in 1..last : closed_channels[l] \in 1..n
  OBVIOUS
<1>2. ASSUME NEW j \in 0..m, Round(j)
      PROVE  Len(channels[j]) = n - j
  <2>1. j \in 0..last
    BY <1>1
  <2> QED
    BY <1>2, <2>1, AfterRemovalsType
<1>3. Bad = {}
  <2>1. SUFFICES ASSUME Bad # {} PROVE FALSE
    OBVIOUS
  <2>2. PICK b \in Bad : \A k \in Bad : b <= k
    <3>1. Bad \in SUBSET Nat
      OBVIOUS
    <3> QED
      BY <2>1, <3>1, Smallest
  <2>3. b # 0
    <3>1. \A i \in 1..n : UpTo(Leading(closed_channels, 0), i) = 0
      <4>1. Leading(closed_channels, 0) = {}
        BY DEF Leading
      <4> QED
        BY <4>1, FS_EmptySet DEF UpTo
    <3>2. AfterRemovals(list, closed_channels, 0) = [i \in 1..n |-> list[i]]
      BY <1>1, <3>1 DEF AfterRemovals
    <3> QED
      BY <3>2
  <2>4. b \in 1..m /\ b - 1 \in 0..m /\ b - 1 \notin Bad
    <3>1. b \in 0..m
      OBVIOUS
    <3> HIDE DEF Bad
    <3>2. b - 1 \notin Bad
      BY <2>2, <3>1
    <3> QED
      BY <2>3, <3>1, <3>2
  <2>5. Round(b - 1)
    BY <2>4
  <2>6. closed_channels[b] <= n - (b - 1)
        /\ channels[b] = RemoveAt(channels[b - 1], closed_channels[b])
    <3>1. Len(channels[b - 1]) = n - (b - 1)
      BY <1>2, <2>4, <2>5
    <3> QED
      BY <2>4, <3>1
  <2>7. b \in 1..last
    BY <1>1, <2>4
  <2>8. Round(b)
    BY <2>5, <2>6, <2>7, RemovalStep
  <2> QED
    BY <2>8
<1>4. ASSUME NEW j \in 0..m
      PROVE  Len(channels[j]) = n - j
  BY <1>2, <1>3
<1> HIDE DEF Bad, Round
<1>5. ASSUME NEW l \in 1..last
      PROVE  closed_channels[l] \in Removed(list, closed) <=> l <= m
  <2>1. UpTo(closed, closed_channels[l] - 1) = l - 1
    <3>1. {k \in closed : k <= closed_channels[l] - 1} = Leading(closed_channels, l - 1)
      <4>1. \A k \in 1..last : closed_channels[k] <= closed_channels[l] - 1 <=> k \in 1..(l - 1)
        <5>1. ASSUME NEW k \in 1..last
              PROVE  /\ k < l => closed_channels[k] < closed_channels[l]
                     /\ l < k => closed_channels[l] < closed_channels[k]
          OBVIOUS
        <5> QED
          BY <1>1, <5>1
      <4>2. 1..(l - 1) \subseteq 1..last
        BY <1>1
      <4>3. closed = {closed_channels[k] : k \in 1..last}
        BY DEF ToSet
      <4> HIDE DEF closed, last
      <4> QED
        BY <4>1, <4>2, <4>3 DEF Leading
    <3>2. l - 1 \in 0..last
      BY <1>1
    <3>3. Cardinality(Leading(closed_channels, l - 1)) = l - 1
      BY <1>1, <3>2, LeadingCounted
    <3> QED
      BY <3>1, <3>3 DEF UpTo
  <2>2. closed_channels[l] \in closed
    BY DEF ToSet
  <2>3. closed_channels[l] \in Removed(list, closed) <=> closed_channels[l] + (l - 1) <= n
    BY <2>1, <2>2 DEF Removed
  <2>4. CASE l <= m
    <3>1. l - 1 \in 0..m /\ l \in 1..m
      BY <1>1, <2>4
    <3>2. closed_channels[l] <= n - (l - 1)
      BY <1>4, <3>1
    <3> QED
      BY <1>1, <2>3, <2>4, <3>2
  <2>5. CASE m < l
    <3>1. m + 1 \in 1..last /\ m < last
      BY <1>1, <2>5
    <3>2. closed_channels[m + 1] > n - m
      <4>1. m \in 0..m
        OBVIOUS
      <4> QED
        BY <1>4, <3>1, <4>1
    <3>3. m + 1 = l \/ closed_channels[m + 1] < closed_channels[l]
      BY <2>5, <3>1
    <3>4. closed_channels[l] + (l - 1) > n
      BY <1>1, <2>5, <3>1, <3>2, <3>3
    <3> QED
      BY <1>1, <2>3, <2>5, <3>4
  <2> QED
    BY <1>1, <2>4, <2>5
<1>6. Removed(list, closed) = Leading(closed_channels, m)
  <2>1. Removed(list, closed) \subseteq closed
    BY DEF Removed
  <2>2. closed = {closed_channels[l] : l \in 1..last}
    BY DEF ToSet
  <2>3. 1..m \subseteq 1..last /\ \A l \in 1..last : l <= m <=> l \in 1..m
    BY <1>1
  <2> HIDE DEF closed, last
  <2> QED
    BY <1>5, <2>1, <2>2, <2>3 DEF Leading
<1>7. channels[m] = Remaining(list, closed)
  <2>1. Cardinality(Removed(list, closed)) = m
    BY <1>1, <1>6, LeadingCounted
  <2>2. channels[m] = AfterRemovals(list, closed_channels, m)
    BY <1>3 DEF Bad, Round
  <2> QED
    BY <1>6, <2>1, <2>2 DEF Remaining, AfterRemovals
<1>8. Panics(list, closed) <=> m < last
  <2>1. CASE m = last
    <3>1. closed = Leading(closed_channels, last)
      BY DEF ToSet, Leading
    <3> QED
      BY <1>1, <1>6, <2>1, <3>1 DEF Panics
  <2>2. CASE m < last
    <3>1. m + 1 \in 1..last /\ ~(m + 1 <= m)
      BY <1>1, <2>2
    <3>2. closed_channels[m + 1] \notin Removed(list, closed)
      BY <1>5, <3>1
    <3>3. closed_channels[m + 1] \in closed
      BY <3>1 DEF ToSet
    <3> QED
      BY <2>2, <3>2, <3>3 DEF Panics
  <2> QED
    BY <1>1, <2>1, <2>2
<1> QED
  BY <1>7, <1>8

-----------------------------------------------------------------------------
\* The state.

EventSet == [kind : Kinds, peer : Peers]
NoRepeat(list) == \A i, j \in DOMAIN list : list[i] = list[j] => i = j

\* Where the task is says what it has in hand; before it listens, nothing has been queued,
\* said or sent.
TaskPlace ==
  /\ pc \in {"new", "recv", "compare"} => batch = <<>>
  /\ pc = "announce" => batch # <<>> /\ Head(batch).kind = "Added"
  /\ pc = "departing" => batch # <<>> /\ Head(batch).kind = "Removed"
  /\ pc = "new" => /\ queue = <<>>
                   /\ \A p \in Peers : news[p] = Nothing
                   /\ \A c \in Channels : inbox[c] = <<>>

\* The lists hold every channel once, only after it has been registered, and nothing is
\* sent on it before.
Subscribed ==
  /\ NoRepeat(discovery_tx) /\ NoRepeat(departure_tx) /\ NoRepeat(fingerprint_tx)
  /\ \A c \in ToSet(discovery_tx) \cup ToSet(departure_tx) \cup ToSet(fingerprint_tx) :
       c \in created \ unregistered
  /\ \A c \in Channels : c \notin created \ unregistered => inbox[c] = <<>>
  /\ dropped \subseteq Impatient \cup NextPeer

\* Who listens for fingerprints has heard the last one sent or nothing, and when the task
\* is idle that is the one of the table, or nobody on the list has heard any.
LastFingerprint ==
  /\ \A c \in ToSet(fingerprint_tx) \ dropped : inbox[c] \in {<<>>, <<prev_fingerprint>>}
  /\ Quiet /\ map # NoPeers =>
       \/ prev_fingerprint = map
       \/ \A c \in ToSet(fingerprint_tx) \ dropped : inbox[c] = <<>>

Typed == TypeOK /\ TaskPlace /\ Subscribed

\* A broadcast to a list of channels of one kind.
LEMMA BroadcastLeaves ==
  ASSUME NEW S, NEW list \in Seq(S), NoRepeat(list)
  PROVE  LET rest == Remaining(list, Positions(list))
         IN  rest \in Seq(S) /\ ToSet(rest) \subseteq ToSet(list) /\ NoRepeat(rest)
<1>1. Positions(list) \in SUBSET (DOMAIN list)
  BY DEF Positions
<1> QED
  BY <1>1, RemainingKeeps DEF NoRepeat

LEMMA InitTyped == Init => Typed
<1> SUFFICES ASSUME Init PROVE Typed
  OBVIOUS
<1> USE ChannelAssumption DEF Init
<1>1. TypeOK
  <2>1. map \in Views /\ prev_fingerprint \in Views
    BY DEF Views, NoPeers, Absent, generate_fingerprint
  <2>2. news \in [Peers -> {Nothing, "here", "gone"}] /\ changes \in 0..MaxChanges
    OBVIOUS
  <2>3. queue \in Seq([kind : Kinds, peer : Peers]) /\ batch \in Seq([kind : Kinds, peer : Peers])
    BY EmptySeq
  <2>4. /\ discovery_tx \in Seq(Discovery) /\ departure_tx \in Seq(Departure)
        /\ fingerprint_tx \in Seq(Fingerprint)
    BY EmptySeq
  <2>5. locked \in BOOLEAN /\ identity \in Identities \cup {NoIdentity}
    OBVIOUS
  <2>6. created \subseteq Channels /\ unregistered \subseteq created /\ dropped \subseteq created
    OBVIOUS
  <2> QED
    BY <2>1, <2>2, <2>3, <2>4, <2>5, <2>6 DEF TypeOK
<1>2. TaskPlace
  BY DEF TaskPlace
<1>3. Subscribed
  BY DEF Subscribed, NoRepeat, ToSet
<1> QED
  BY <1>1, <1>2, <1>3 DEF Typed

\* What the session does.
LEMMA SessionTyped == ASSUME Typed, Session PROVE Typed'
<1> USE ChannelAssumption DEF Typed
<1>1. UNCHANGED <<task, lists, users, inbox, news>>
  BY DEF Session, Lock, Unlock, Update, RemovePeer, Insert
<1>2. Subscribed'
  BY <1>1 DEF Subscribed, lists, users, NoRepeat
<1>3. TaskPlace' /\ TypeOK'
  <2>1. ASSUME NEW p \in Peers, NEW kind \in Kinds, notify_observers(Event(kind, p))
        PROVE  /\ queue' \in Seq([kind : Kinds, peer : Peers])
               /\ pc = "new" => queue' = queue
    <3>1. Event(kind, p) \in EventSet
      BY DEF Event, EventSet
    <3>2. queue \in Seq(EventSet) /\ Append(queue, Event(kind, p)) \in Seq(EventSet)
      BY <3>1 DEF TypeOK, EventSet
    <3> QED
      BY <2>1, <3>2 DEF notify_observers, Observed, EventSet
  <2>2. CASE Lock \/ Unlock
    BY <1>1, <2>2 DEF Lock, Unlock, TypeOK, TaskPlace, task, lists, users
  <2>3. ASSUME NEW p \in Peers, Update(p) \/ RemovePeer(p) \/ \E id \in Identities : Insert(p, id)
        PROVE  TaskPlace' /\ TypeOK'
    <3>1. map' \in Views
      BY <2>3 DEF Update, RemovePeer, Insert, TypeOK, Views, Absent
    <3>2. changes' \in 0..MaxChanges /\ locked' = locked
      BY <2>3 DEF Update, RemovePeer, Insert, Change, TypeOK
    <3>3. \E kind \in Kinds : notify_observers(Event(kind, p))
      BY <2>3 DEF Update, RemovePeer, Insert, Kinds
    <3>4. queue' \in Seq([kind : Kinds, peer : Peers]) /\ (pc = "new" => queue' = queue)
      BY <2>1, <3>3
    <3> QED
      BY <1>1, <3>1, <3>2, <3>4 DEF TypeOK, TaskPlace, task, lists, users
  <2> QED
    BY <2>2, <2>3 DEF Session
<1> QED
  BY <1>2, <1>3

\* What the users and their tasks do.
LEMMA UserTyped == ASSUME Typed, NEW c \in Channels,
                          Subscribe(c) \/ Register(c) \/ Drop(c) \/ ForwardFirst(c)
                   PROVE  Typed'
<1> USE ChannelAssumption DEF Typed
<1>1. UNCHANGED <<session, task, inbox, news>>
  BY DEF Subscribe, Register, Drop, ForwardFirst
<1>2. TaskPlace'
  BY <1>1 DEF TaskPlace, session, task
<1>3. CASE Subscribe(c)
  <2>1. TypeOK'
    BY <1>1, <1>3 DEF Subscribe, TypeOK, session, task, lists
  <2>2. Subscribed'
    BY <1>1, <1>3 DEF Subscribe, Subscribed, NoRepeat, lists, TypeOK
  <2> QED
    BY <1>2, <2>1, <2>2
<1>4. CASE Register(c)
  <2>1. ASSUME NEW S \in {Discovery, Departure, Fingerprint}, NEW list, NEW after,
               list \in Seq(S), NoRepeat(list), c \notin ToSet(list),
               after = IF c \in S THEN Append(list, c) ELSE list
        PROVE  after \in Seq(S) /\ NoRepeat(after) /\ ToSet(after) \subseteq ToSet(list) \cup {c}
    <3>1. CASE c \in S
      <4>1. after \in Seq(S) /\ Len(after) = Len(list) + 1 /\ DOMAIN list = 1..Len(list)
            /\ DOMAIN after = 1..(Len(list) + 1)
            /\ \A i \in DOMAIN after : after[i] = IF i = Len(list) + 1 THEN c ELSE list[i]
        BY <2>1, <3>1
      <4>2. \A i \in DOMAIN after : i = Len(list) + 1 \/ i \in DOMAIN list
        BY <4>1
      <4>3. \A i \in DOMAIN list : list[i] # c
        BY <2>1 DEF ToSet
      <4>4. ToSet(after) \subseteq ToSet(list) \cup {c}
        BY <4>1, <4>2 DEF ToSet
      <4>5. NoRepeat(after)
        BY <2>1, <4>1, <4>2, <4>3 DEF NoRepeat
      <4> QED
        BY <4>1, <4>4, <4>5
    <3>2. CASE c \notin S
      BY <2>1, <3>2
    <3> QED
      BY <3>1, <3>2
  <2>2. /\ c \in unregistered /\ unregistered' = unregistered \ {c}
        /\ discovery_tx' = IF c \in Discovery THEN Append(discovery_tx, c) ELSE discovery_tx
        /\ departure_tx' = IF c \in Departure THEN Append(departure_tx, c) ELSE departure_tx
        /\ fingerprint_tx' = IF c \in Fingerprint THEN Append(fingerprint_tx, c) ELSE fingerprint_tx
        /\ UNCHANGED <<created, dropped>>
    BY <1>4 DEF Register
  <2>3. c \notin ToSet(discovery_tx) /\ c \notin ToSet(departure_tx) /\ c \notin ToSet(fingerprint_tx)
    BY <2>2 DEF Subscribed
  <2>4. /\ discovery_tx' \in Seq(Discovery) /\ NoRepeat(discovery_tx')
        /\ ToSet(discovery_tx') \subseteq ToSet(discovery_tx) \cup {c}
    BY <2>1, <2>2, <2>3 DEF TypeOK, Subscribed
  <2>5. /\ departure_tx' \in Seq(Departure) /\ NoRepeat(departure_tx')
        /\ ToSet(departure_tx') \subseteq ToSet(departure_tx) \cup {c}
    BY <2>1, <2>2, <2>3 DEF TypeOK, Subscribed
  <2>6. /\ fingerprint_tx' \in Seq(Fingerprint) /\ NoRepeat(fingerprint_tx')
        /\ ToSet(fingerprint_tx') \subseteq ToSet(fingerprint_tx) \cup {c}
    BY <2>1, <2>2, <2>3 DEF TypeOK, Subscribed
  <2>7. TypeOK'
    BY <1>1, <2>2, <2>4, <2>5, <2>6 DEF TypeOK, session, task
  <2>8. Subscribed'
    <3>1. created' \ unregistered' = (created \ unregistered) \cup {c}
      BY <2>2 DEF TypeOK
    <3> QED
      BY <1>1, <2>2, <2>4, <2>5, <2>6, <3>1 DEF Subscribed, NoRepeat
  <2> QED
    BY <1>2, <2>7, <2>8
<1>5. CASE Drop(c) \/ ForwardFirst(c)
  <2>1. /\ c \in created /\ c \in Impatient \cup NextPeer
        /\ dropped' = dropped \cup {c} /\ UNCHANGED <<lists, created, unregistered>>
    BY <1>5 DEF Drop, ForwardFirst, Subscribed
  <2>2. TypeOK'
    BY <1>1, <2>1 DEF TypeOK, session, task, lists
  <2>3. Subscribed'
    BY <1>1, <2>1 DEF Subscribed, NoRepeat, lists
  <2> QED
    BY <1>2, <2>2, <2>3
<1> QED
  BY <1>3, <1>4, <1>5

\* The task goes on to the next of its events.
LEMMA NextEvent ==
  ASSUME TypeOK, batch # <<>>
  PROVE  /\ Head(batch) \in EventSet /\ Head(batch).peer \in Peers
         /\ Tail(batch) \in Seq(EventSet)
<1>1. batch \in Seq(EventSet)
  BY DEF TypeOK, EventSet
<1>2. Head(batch) \in EventSet /\ Tail(batch) \in Seq(EventSet)
  BY <1>1
<1> QED
  BY <1>2 DEF EventSet

\* What the events task does.
LEMMA TaskTyped == ASSUME Typed, Task PROVE Typed'
<1> USE ChannelAssumption DEF Typed
<1>0. /\ UNCHANGED <<map, locked, changes, users>>
      /\ \A c \in Channels : c \notin created \ unregistered => inbox'[c] = inbox[c]
  <2>1. ASSUME NEW payload, NEW list, Deliver(payload, list),
               \A c \in ToSet(list) : c \in created \ unregistered
        PROVE  \A c \in Channels : c \notin created \ unregistered => inbox'[c] = inbox[c]
    BY <2>1 DEF Deliver
  <2>2. CASE Announce
    BY <2>1, <2>2 DEF Announce, Subscribed, session
  <2>3. CASE Depart
    BY <2>1, <2>3 DEF Depart, Subscribed, session
  <2>4. CASE Compare
    BY <2>1, <2>4 DEF Compare, Subscribed, session
  <2>5. CASE AddObserver \/ TakeBatch \/ HandleAdded \/ HandleUpdated \/ HandleRemoved \/ FinishBatch
    BY <2>5 DEF AddObserver, TakeBatch, HandleAdded, HandleUpdated, HandleRemoved, FinishBatch, session
  <2> QED
    BY <2>2, <2>3, <2>4, <2>5 DEF Task
<1>1. ASSUME UNCHANGED lists
      PROVE  Subscribed'
  BY <1>0, <1>1 DEF Subscribed, lists, users, NoRepeat
<1>2. CASE AddObserver \/ FinishBatch
  BY <1>1, <1>2 DEF AddObserver, FinishBatch, TypeOK, TaskPlace, session, lists, users
<1>3. CASE TakeBatch
  BY <1>1, <1>3 DEF TakeBatch, TypeOK, TaskPlace, lists, users
<1>4. CASE HandleUpdated
  <2>1. Tail(batch) \in Seq(EventSet)
    BY <1>4, NextEvent DEF HandleUpdated, AtEvent
  <2> QED
    BY <1>1, <1>4, <2>1 DEF HandleUpdated, AtEvent, TypeOK, TaskPlace, session, lists, users, EventSet
<1>5. CASE HandleAdded
  <2>1. Tail(batch) \in Seq(EventSet) /\ map[Head(batch).peer] \in Identities \cup {NoIdentity}
    BY <1>5, NextEvent DEF HandleAdded, AtEvent, TypeOK, Views, Absent
  <2>2. /\ pc = "event" /\ batch # <<>> /\ Head(batch).kind = "Added"
        /\ \/ batch' = Tail(batch) /\ pc' = pc /\ identity' = identity
           \/ /\ batch' = batch /\ pc' = "announce"
              /\ identity' = map[Head(batch).peer]
        /\ UNCHANGED <<session, prev_fingerprint, lists, users, inbox, news>>
    BY <1>5 DEF HandleAdded, AtEvent
  <2> QED
    BY <1>1, <2>1, <2>2 DEF TypeOK, TaskPlace, session, lists, users, EventSet
<1>6. CASE HandleRemoved
  <2>1. Tail(batch) \in Seq(EventSet)
    BY <1>6, NextEvent DEF HandleRemoved, AtEvent
  <2>2. /\ pc = "event" /\ batch # <<>> /\ Head(batch).kind = "Removed"
        /\ \/ batch' = Tail(batch) /\ pc' = pc
           \/ batch' = batch /\ pc' = "departing"
        /\ UNCHANGED <<session, identity, prev_fingerprint, lists, users, inbox, news>>
    BY <1>6 DEF HandleRemoved, AtEvent
  <2> QED
    BY <1>1, <2>1, <2>2 DEF TypeOK, TaskPlace, session, lists, users, EventSet
<1>7. CASE Announce
  <2>1. Tail(batch) \in Seq(EventSet)
    BY <1>7, NextEvent DEF Announce, TaskPlace
  <2>2. /\ discovery_tx' = Remaining(discovery_tx, Positions(discovery_tx))
        /\ UNCHANGED <<session, prev_fingerprint, departure_tx, fingerprint_tx, users>>
        /\ batch' = Tail(batch) /\ identity' = NoIdentity
        /\ pc' \in {"event", "panicked"}
    BY <1>7 DEF Announce
  <2>3. news' \in [Peers -> {Nothing, "here", "gone"}]
    BY <1>7 DEF Announce, TypeOK
  <2>4. /\ discovery_tx' \in Seq(Discovery) /\ NoRepeat(discovery_tx')
        /\ ToSet(discovery_tx') \subseteq ToSet(discovery_tx)
    BY <2>2, BroadcastLeaves DEF TypeOK, Subscribed
  <2>5. TypeOK' /\ TaskPlace'
    BY <2>1, <2>2, <2>3, <2>4 DEF TypeOK, TaskPlace, session, users, EventSet
  <2>6. Subscribed'
    BY <1>0, <2>2, <2>4 DEF Subscribed, users, NoRepeat
  <2> QED
    BY <2>5, <2>6
<1>8. CASE Depart
  <2>1. Tail(batch) \in Seq(EventSet)
    BY <1>8, NextEvent DEF Depart, TaskPlace
  <2>2. /\ departure_tx' = Remaining(departure_tx, Positions(departure_tx))
        /\ UNCHANGED <<session, identity, prev_fingerprint, discovery_tx, fingerprint_tx, users>>
        /\ batch' = Tail(batch)
        /\ pc' \in {"event", "panicked"}
    BY <1>8 DEF Depart
  <2>3. news' \in [Peers -> {Nothing, "here", "gone"}]
    BY <1>8 DEF Depart, TypeOK
  <2>4. /\ departure_tx' \in Seq(Departure) /\ NoRepeat(departure_tx')
        /\ ToSet(departure_tx') \subseteq ToSet(departure_tx)
    BY <2>2, BroadcastLeaves DEF TypeOK, Subscribed
  <2>5. TypeOK' /\ TaskPlace'
    BY <2>1, <2>2, <2>3, <2>4 DEF TypeOK, TaskPlace, session, users, EventSet
  <2>6. Subscribed'
    BY <1>0, <2>2, <2>4 DEF Subscribed, users, NoRepeat
  <2> QED
    BY <2>5, <2>6
<1>9. CASE Compare
  <2>1. /\ pc = "compare" /\ pc' \in {"recv", "panicked"}
        /\ prev_fingerprint' \in {prev_fingerprint, map}
        /\ fingerprint_tx' \in {fingerprint_tx, Remaining(fingerprint_tx, Positions(fingerprint_tx))}
        /\ UNCHANGED <<session, batch, identity, discovery_tx, departure_tx, users, news>>
    BY <1>9 DEF Compare, generate_fingerprint
  <2>2. /\ fingerprint_tx' \in Seq(Fingerprint) /\ NoRepeat(fingerprint_tx')
        /\ ToSet(fingerprint_tx') \subseteq ToSet(fingerprint_tx)
    BY <2>1, BroadcastLeaves DEF TypeOK, Subscribed, NoRepeat
  <2>3. TypeOK' /\ TaskPlace'
    BY <2>1, <2>2 DEF TypeOK, TaskPlace, session, users
  <2>4. Subscribed'
    BY <1>0, <2>1, <2>2 DEF Subscribed, users, NoRepeat
  <2> QED
    BY <2>3, <2>4
<1> QED
  BY <1>2, <1>3, <1>4, <1>5, <1>6, <1>7, <1>8, <1>9 DEF Task

LEMMA StepTyped == Typed /\ [Next]_vars => Typed'
<1> SUFFICES ASSUME Typed, [Next]_vars PROVE Typed'
  OBVIOUS
<1>1. CASE UNCHANGED vars
  BY <1>1 DEF vars, session, task, lists, users, Typed, TypeOK, TaskPlace, Subscribed, NoRepeat
<1> QED
  BY <1>1, SessionTyped, UserTyped, TaskTyped DEF Next, User

LEMMA TypedInvariant == Spec => []Typed
  BY InitTyped, StepTyped, PTL DEF Spec

\* Every variable has its type (handle_known_peers_events and the discover_* functions).
THEOREM TypeCorrect == Spec => []TypeOK
<1>1. Typed => TypeOK
  BY DEF Typed
<1> QED
  BY <1>1, TypedInvariant, PTL

-----------------------------------------------------------------------------
\* The last word about a peer.

\* Of the events s, those that tell of arrivals and departures of p; and the last word
\* about p, be it among them or said already, agrees with its entry id of the table.
Speaks(s, p) == {i \in DOMAIN s : s[i].peer = p /\ s[i].kind # "Updated"}
Truthful(s, p, id, said) ==
  /\ \A i \in Speaks(s, p) :
       (\A j \in Speaks(s, p) : j <= i) => (s[i].kind = "Added" <=> id # Absent)
  /\ Speaks(s, p) = {} /\ said # Nothing => (said = "here" <=> id # Absent)

LEMMA LastWordIsTruthful ==
  LastWordTrue <=> (Observed => \A p \in Peers : Truthful(unhandled, p, map[p], news[p]))
BY DEF LastWordTrue, Truthful, Pending, Speaks

\* A change of the table is queued.
LEMMA AppendTruthful ==
  ASSUME NEW s \in Seq(EventSet), NEW e \in EventSet, NEW p, NEW id, NEW new, NEW said,
         Truthful(s, p, id, said),
         e.peer # p => new = id,
         e.peer = p /\ e.kind = "Updated" => (new # Absent <=> id # Absent),
         e.peer = p /\ e.kind = "Added" => new # Absent,
         e.peer = p /\ e.kind = "Removed" => new = Absent
  PROVE  Truthful(Append(s, e), p, new, said)
<1> DEFINE t == Append(s, e)
           n == Len(s)
<1>1. /\ n \in Nat /\ DOMAIN s = 1..n /\ DOMAIN t = 1..(n + 1)
      /\ t[n + 1] = e /\ \A i \in 1..n : t[i] = s[i]
  OBVIOUS
<1>2. e.kind \in {"Added", "Updated", "Removed"}
  BY DEF EventSet, Kinds
<1> HIDE DEF t, n
<1>3. CASE e.peer = p /\ e.kind # "Updated"
  <2>1. n + 1 \in Speaks(t, p)
    BY <1>1, <1>3 DEF Speaks
  <2>2. \A i \in Speaks(t, p) : (\A j \in Speaks(t, p) : j <= i) => i = n + 1
    BY <1>1, <2>1 DEF Speaks
  <2> QED
    BY <1>1, <1>2, <1>3, <2>1, <2>2 DEF Truthful, t
<1>4. CASE ~(e.peer = p /\ e.kind # "Updated")
  <2>1. Speaks(t, p) = Speaks(s, p) /\ \A i \in Speaks(s, p) : t[i] = s[i]
    <3>1. \A i \in 1..(n + 1) : i = n + 1 \/ i \in 1..n
      BY <1>1
    <3>2. \A i \in 1..n : i \in 1..(n + 1)
      BY <1>1
    <3> QED
      BY <1>1, <1>4, <3>1, <3>2 DEF Speaks
  <2>2. new # Absent <=> id # Absent
    BY <1>4
  <2> QED
    BY <2>1, <2>2 DEF Truthful, t
<1> QED
  BY <1>3, <1>4

\* The first event is dealt with: announced, reported, or skipped because the table does
\* not agree.
LEMMA TailTruthful ==
  ASSUME NEW s \in Seq(EventSet), s # <<>>, NEW p, NEW id, NEW said, NEW new,
         Truthful(s, p, id, said),
         Head(s).peer # p \/ Head(s).kind = "Updated" => new = said,
         Head(s).peer = p /\ Head(s).kind = "Added" => new = "here" \/ id = Absent,
         Head(s).peer = p /\ Head(s).kind = "Removed" => new = "gone" \/ id # Absent
  PROVE  Truthful(Tail(s), p, id, new)
<1> DEFINE t == Tail(s)
           n == Len(s)
<1>1. /\ n \in Nat /\ n >= 1 /\ DOMAIN s = 1..n /\ DOMAIN t = 1..(n - 1)
      /\ Head(s) = s[1] /\ \A i \in 1..(n - 1) : t[i] = s[i + 1]
  OBVIOUS
<1>2. s[1].kind \in {"Added", "Updated", "Removed"}
  <2>1. s[1] \in EventSet
    BY <1>1
  <2> QED
    BY <2>1 DEF EventSet, Kinds
<1> HIDE DEF t, n
<1>3. /\ \A i \in Speaks(t, p) : i \in 1..(n - 1) /\ i + 1 \in Speaks(s, p)
      /\ \A i \in Speaks(s, p) : i \in 1..n /\ (i = 1 \/ i - 1 \in Speaks(t, p))
  <2>1. \A i \in 1..(n - 1) : i + 1 \in 1..n
    BY <1>1
  <2>2. \A i \in 1..n : i = 1 \/ (i - 1 \in 1..(n - 1) /\ t[i - 1] = s[i])
    BY <1>1
  <2> QED
    BY <1>1, <2>1, <2>2 DEF Speaks
<1>4. ASSUME NEW i \in Speaks(t, p), \A j \in Speaks(t, p) : j <= i
      PROVE  t[i].kind = "Added" <=> id # Absent
  <2>1. \A j \in Speaks(s, p) : j <= i + 1
    BY <1>1, <1>3, <1>4
  <2>2. i + 1 \in Speaks(s, p) /\ t[i] = s[i + 1]
    BY <1>1, <1>3
  <2> QED
    BY <2>1, <2>2 DEF Truthful
<1>5. ASSUME Speaks(t, p) = {}, new # Nothing
      PROVE  new = "here" <=> id # Absent
  <2>1. \A j \in Speaks(s, p) : j = 1
    BY <1>3, <1>5
  <2>2. CASE 1 \in Speaks(s, p)
    <3>1. s[1].kind = "Added" <=> id # Absent
      BY <2>1, <2>2 DEF Truthful
    <3>2. s[1].peer = p /\ s[1].kind # "Updated"
      BY <2>2 DEF Speaks
    <3> QED
      BY <1>1, <1>2, <3>1, <3>2
  <2>3. CASE 1 \notin Speaks(s, p)
    <3>1. Speaks(s, p) = {}
      BY <2>1, <2>3
    <3>2. s[1].peer # p \/ s[1].kind = "Updated"
      BY <1>1, <2>3 DEF Speaks
    <3> QED
      BY <1>1, <1>5, <3>1, <3>2 DEF Truthful
  <2> QED
    BY <2>2, <2>3
<1> QED
  BY <1>4, <1>5 DEF Truthful, t

\* How the queue of the task moves.
LEMMA UnhandledMoves ==
  ASSUME TypeOK
  PROVE  /\ unhandled \in Seq(EventSet)
         /\ batch = <<>> => unhandled = queue
         /\ \A e \in EventSet : batch \o Append(queue, e) = Append(unhandled, e)
         /\ batch # <<>> => /\ Tail(batch) \o queue = Tail(unhandled)
                            /\ Head(unhandled) = Head(batch) /\ unhandled # <<>>
<1>1. batch \in Seq(EventSet) /\ queue \in Seq(EventSet)
  BY DEF TypeOK, EventSet
<1>2. unhandled \in Seq(EventSet) /\ Len(unhandled) = Len(batch) + Len(queue)
  BY <1>1 DEF unhandled
<1>3. batch = <<>> => unhandled = queue
  BY <1>1, ConcatEmptySeq DEF unhandled
<1>4. ASSUME NEW e \in EventSet
      PROVE  batch \o Append(queue, e) = Append(unhandled, e)
  BY <1>1, AppendIsConcat, ConcatAssociative DEF unhandled
<1>5. ASSUME batch # <<>>
      PROVE  /\ Tail(batch) \o queue = Tail(unhandled)
             /\ Head(unhandled) = Head(batch) /\ unhandled # <<>>
  <2>1. /\ Tail(batch) \in Seq(EventSet) /\ Len(Tail(batch)) = Len(batch) - 1
        /\ Len(batch) \in Nat \ {0} /\ Len(queue) \in Nat
        /\ \A i \in 1..(Len(batch) - 1) : Tail(batch)[i] = batch[i + 1]
    BY <1>1, <1>5
  <2>2. unhandled # <<>>
    BY <1>2, <2>1
  <2>3. Head(unhandled) = Head(batch)
    BY <1>1, <1>5, <2>1 DEF unhandled
  <2>4. /\ Tail(unhandled) \in Seq(EventSet) /\ Tail(batch) \o queue \in Seq(EventSet)
        /\ Len(Tail(unhandled)) = Len(Tail(batch) \o queue)
    BY <1>1, <1>2, <2>1, <2>2
  <2>5. ASSUME NEW i \in 1..Len(Tail(unhandled))
        PROVE  Tail(unhandled)[i] = (Tail(batch) \o queue)[i]
    BY <1>1, <1>2, <2>1, <2>2 DEF unhandled
  <2> QED
    BY <2>2, <2>3, <2>4, <2>5, SeqEqual
<1> QED
  BY <1>2, <1>3, <1>4, <1>5
LEMMA SessionKeepsLastWord == ASSUME Typed, LastWordTrue, Session PROVE LastWordTrue'
<1> USE DEF Typed
<1>1. UNCHANGED <<pc, batch, news>>
  BY DEF Session, Lock, Unlock, Update, RemovePeer, Insert, task
<1>2. SUFFICES ASSUME Observed, NEW q \in Peers
               PROVE  Truthful(unhandled', q, map'[q], news[q])
  BY <1>1 DEF LastWordTrue, Truthful, Pending, Speaks, Observed
<1>3. Truthful(unhandled, q, map[q], news[q])
  BY <1>2, LastWordIsTruthful
<1>4. CASE Lock \/ Unlock
  <2>1. map' = map /\ unhandled' = unhandled
    BY <1>1, <1>4 DEF Lock, Unlock, unhandled
  <2> QED
    BY <1>3, <2>1
<1>5. ASSUME NEW p \in Peers, Update(p) \/ RemovePeer(p) \/ \E id \in Identities : Insert(p, id)
      PROVE  Truthful(unhandled', q, map'[q], news[q])
  <2>1. \E kind \in Kinds :
          /\ queue' = Append(queue, Event(kind, p))
          /\ q # p => map'[q] = map[q]
          /\ q = p /\ kind = "Updated" => (map'[q] # Absent <=> map[q] # Absent)
          /\ q = p /\ kind = "Added" => map'[q] # Absent
          /\ q = p /\ kind = "Removed" => map'[q] = Absent
    <3>1. map \in Views /\ \A id \in Identities : id # Absent
      BY ChannelAssumption DEF TypeOK, Absent
    <3>2. CASE Update(p)
      BY <1>2, <3>2 DEF Update, notify_observers, Kinds
    <3>3. CASE RemovePeer(p)
      BY <1>2, <3>1, <3>3 DEF RemovePeer, notify_observers, Kinds, Views
    <3>4. ASSUME NEW id \in Identities, Insert(p, id)
          PROVE  \E kind \in {"Added", "Updated"} :
                   /\ queue' = Append(queue, Event(kind, p))
                   /\ q # p => map'[q] = map[q]
                   /\ q = p => map'[q] # Absent
                   /\ q = p /\ kind = "Updated" => map[q] # Absent
      <4>1. /\ map' = [map EXCEPT ![p] = id]
            /\ queue' = Append(queue, Event(IF map[p] = Absent THEN "Added" ELSE "Updated", p))
        BY <1>2, <3>4 DEF Insert, notify_observers
      <4>2. (q # p => map'[q] = map[q]) /\ (q = p => map'[q] # Absent)
        BY <3>1, <4>1 DEF Views
      <4>3. CASE map[p] = Absent
        BY <4>1, <4>2, <4>3
      <4>4. CASE map[p] # Absent
        BY <4>1, <4>2, <4>4
      <4> QED
        BY <4>3, <4>4
    <3> QED
      BY <1>5, <3>2, <3>3, <3>4 DEF Kinds
  <2>2. PICK kind \in Kinds :
          /\ queue' = Append(queue, Event(kind, p))
          /\ q # p => map'[q] = map[q]
          /\ q = p /\ kind = "Updated" => (map'[q] # Absent <=> map[q] # Absent)
          /\ q = p /\ kind = "Added" => map'[q] # Absent
          /\ q = p /\ kind = "Removed" => map'[q] = Absent
    BY <2>1
  <2> DEFINE e == Event(kind, p)
  <2>3. e \in EventSet /\ e.peer = p /\ e.kind = kind
    BY DEF Event, EventSet
  <2>4. unhandled' = Append(unhandled, e) /\ unhandled \in Seq(EventSet)
    BY <1>1, <2>2, <2>3, UnhandledMoves DEF unhandled
  <2> HIDE DEF e
  <2> QED
    BY <1>3, <2>2, <2>3, <2>4, AppendTruthful
<1> QED
  BY <1>4, <1>5 DEF Session

LEMMA TaskKeepsLastWord == ASSUME Typed, LastWordTrue, Task PROVE LastWordTrue'
<1> USE DEF Typed
<1>1. UNCHANGED map
  BY DEF Task, AddObserver, TakeBatch, HandleAdded, Announce, HandleUpdated, HandleRemoved,
         Depart, FinishBatch, Compare, session
<1>2. SUFFICES ASSUME Observed', NEW q \in Peers
               PROVE  Truthful(unhandled', q, map[q], news'[q])
  BY <1>1 DEF LastWordTrue, Truthful, Pending, Speaks
<1>3. CASE AddObserver
  <2>1. queue' = <<>> /\ batch' = <<>> /\ news'[q] = Nothing
    BY <1>3 DEF AddObserver, TaskPlace, session
  <2>2. unhandled' = <<>>
    BY <2>1 DEF unhandled
  <2> QED
    BY <2>1, <2>2 DEF Truthful, Speaks
<1>4. ASSUME ~AddObserver
      PROVE  Truthful(unhandled, q, map[q], news[q])
  <2>1. Observed
    BY <1>4 DEF Observed, Task, TakeBatch, HandleAdded, Announce, HandleUpdated, HandleRemoved,
                AtEvent, Depart, FinishBatch, Compare
  <2> QED
    BY <2>1, LastWordIsTruthful
<1>5. CASE TakeBatch
  <2>1. batch = <<>> /\ batch' = queue /\ queue' = <<>> /\ news' = news /\ pc = "recv"
    BY <1>5 DEF TakeBatch, TaskPlace
  <2>2. queue \in Seq(EventSet)
    BY DEF TypeOK, EventSet
  <2>3. unhandled' = unhandled
    BY <2>1, <2>2, UnhandledMoves, ConcatEmptySeq DEF unhandled
  <2>4. ~AddObserver
    BY <2>1 DEF AddObserver
  <2> QED
    BY <1>4, <2>1, <2>3, <2>4
<1>6. CASE FinishBatch \/ Compare
  <2>1. UNCHANGED <<unhandled, news>> /\ ~AddObserver
    BY <1>6 DEF FinishBatch, Compare, unhandled, session, AddObserver
  <2> QED
    BY <1>4, <2>1
\* The task stays at the event it has in hand, or is done with it.
<1>7. CASE HandleAdded \/ HandleUpdated \/ HandleRemoved \/ Announce \/ Depart
  <2>1. /\ batch # <<>> /\ queue' = queue /\ ~AddObserver
        /\ \/ batch' = batch /\ news' = news
           \/ /\ batch' = Tail(batch)
              /\ Head(batch).peer # q \/ Head(batch).kind = "Updated" => news'[q] = news[q]
              /\ Head(batch).peer = q /\ Head(batch).kind = "Added" =>
                   news'[q] = "here" \/ map[q] = Absent
              /\ Head(batch).peer = q /\ Head(batch).kind = "Removed" =>
                   news'[q] = "gone" \/ map[q] # Absent
    <3>1. news \in [Peers -> {Nothing, "here", "gone"}]
      BY DEF TypeOK
    <3>2. CASE HandleAdded
      BY <3>2 DEF HandleAdded, AtEvent, session, AddObserver
    <3>3. CASE HandleUpdated
      BY <3>3 DEF HandleUpdated, AtEvent, session, AddObserver
    <3>4. CASE HandleRemoved
      BY <3>4 DEF HandleRemoved, AtEvent, session, AddObserver
    <3>5. CASE Announce
      <4>1. /\ pc = "announce" /\ batch # <<>> /\ Head(batch).kind = "Added"
            /\ batch' = Tail(batch) /\ queue' = queue
            /\ news' = [news EXCEPT ![Head(batch).peer] = "here"]
        BY <3>5 DEF Announce, TaskPlace, session
      <4> QED
        BY <3>1, <4>1 DEF AddObserver
    <3>6. CASE Depart
      <4>1. /\ pc = "departing" /\ batch # <<>> /\ Head(batch).kind = "Removed"
            /\ batch' = Tail(batch) /\ queue' = queue
            /\ news' = [news EXCEPT ![Head(batch).peer] = "gone"]
        BY <3>6 DEF Depart, TaskPlace, session
      <4> QED
        BY <3>1, <4>1 DEF AddObserver
    <3> QED
      BY <1>7, <3>2, <3>3, <3>4, <3>5, <3>6
  <2>2. Truthful(unhandled, q, map[q], news[q]) /\ unhandled \in Seq(EventSet)
    BY <1>4, <2>1, UnhandledMoves
  <2>3. CASE batch' = batch /\ news' = news
    BY <2>1, <2>2, <2>3 DEF unhandled
  <2>4. CASE ~(batch' = batch /\ news' = news)
    <3>1. unhandled' = Tail(unhandled) /\ Head(unhandled) = Head(batch) /\ unhandled # <<>>
      BY <2>1, <2>4, UnhandledMoves DEF unhandled
    <3> QED
      BY <2>1, <2>2, <2>4, <3>1, TailTruthful
  <2> QED
    BY <2>3, <2>4
<1> QED
  BY <1>3, <1>5, <1>6, <1>7 DEF Task

LEMMA StepLastWord == Typed /\ LastWordTrue /\ [Next]_vars => LastWordTrue'
<1> SUFFICES ASSUME Typed, LastWordTrue, [Next]_vars PROVE LastWordTrue'
  OBVIOUS
<1>1. ASSUME UNCHANGED <<map, queue, pc, batch, news>> PROVE LastWordTrue'
  BY <1>1 DEF LastWordTrue, Observed, Pending, unhandled
<1>2. CASE UNCHANGED vars
  BY <1>1, <1>2 DEF vars, session, task
<1>3. CASE User
  BY <1>1, <1>3 DEF User, Subscribe, Register, Drop, ForwardFirst, session, task
<1> QED
  BY <1>2, <1>3, SessionKeepsLastWord, TaskKeepsLastWord DEF Next

\* Whatever the session does while the task works through the events it has taken, the last
\* arrival or departure still to be handled, or else the last notification sent, agrees
\* with the table (the loop of handle_known_peers_events).
THEOREM LastWord == Spec => []LastWordTrue
<1>1. Init => LastWordTrue
  BY DEF Init, LastWordTrue, Observed
<1> QED
  BY <1>1, TypedInvariant, StepLastWord, PTL DEF Spec
-----------------------------------------------------------------------------
\* Fingerprints.

\* A broadcast to other channels.
LEMMA OthersHear ==
  ASSUME Typed, NEW c \in Fingerprint, Announce \/ Depart
  PROVE  inbox'[c] = inbox[c]
<1>1. c \notin ToSet(discovery_tx) /\ c \notin ToSet(departure_tx)
  BY ChannelAssumption DEF Typed, TypeOK, ToSet
<1> QED
  BY <1>1 DEF Announce, Depart, Deliver, Channels

LEMMA StepFingerprint ==
  ASSUME Typed, LastFingerprint, [Next]_vars PROVE LastFingerprint'
<1> DEFINE Listening == ToSet(fingerprint_tx) \ dropped
<1>0. ToSet(fingerprint_tx) \subseteq Fingerprint /\ Fingerprint \subseteq Channels
  BY DEF Typed, TypeOK, ToSet, Channels
\* What everybody who listens has heard is as it was, and the task is not idle unless it was.
<1>1. ASSUME Listening' \subseteq Listening,
             \A c \in Listening' : inbox'[c] = inbox[c],
             prev_fingerprint' = prev_fingerprint,
             Quiet' => Quiet /\ map' = map
      PROVE  LastFingerprint'
  BY <1>1 DEF LastFingerprint
<1>2. CASE UNCHANGED vars
  BY <1>1, <1>2 DEF vars, session, task, lists, users, Quiet
<1>3. CASE Session
  <2>1. UNCHANGED <<fingerprint_tx, dropped, inbox, prev_fingerprint, pc>>
    BY <1>3 DEF Session, Lock, Unlock, Update, RemovePeer, Insert, task, lists, users
  <2>2. Quiet' => Quiet /\ map' = map
    <3>1. ASSUME NEW e \in EventSet, notify_observers(e), Quiet' PROVE FALSE
      <4>1. queue' = Append(queue, e) /\ queue' = <<>>
        BY <2>1, <3>1 DEF Quiet, notify_observers, Observed
      <4>2. queue \in Seq(EventSet)
        BY DEF Typed, TypeOK, EventSet
      <4>3. Len(Append(queue, e)) = Len(queue) + 1 /\ Len(queue) \in Nat /\ Len(<<>>) = 0
        BY <4>2
      <4>4. Len(queue) + 1 # 0
        BY <4>3
      <4> QED
        BY <4>1, <4>3, <4>4
    <3>2. CASE Lock \/ Unlock
      BY <2>1, <3>2 DEF Lock, Unlock, Quiet
    <3>3. ASSUME NEW p \in Peers,
                 Update(p) \/ RemovePeer(p) \/ \E id \in Identities : Insert(p, id)
          PROVE  ~Quiet'
      <4>1. \A kind \in Kinds : Event(kind, p) \in EventSet
        BY DEF Event, EventSet
      <4>2. \E kind \in Kinds : notify_observers(Event(kind, p))
        BY <3>3 DEF Update, RemovePeer, Insert, Kinds
      <4> QED
        BY <3>1, <4>1, <4>2
    <3> QED
      BY <1>3, <3>2, <3>3 DEF Session
  <2> QED
    BY <1>1, <2>1, <2>2
<1>4. ASSUME NEW c \in Channels, Subscribe(c) \/ Register(c) \/ Drop(c) \/ ForwardFirst(c)
      PROVE  LastFingerprint'
  <2>1. UNCHANGED <<map, queue, pc, prev_fingerprint, inbox>>
    BY <1>4 DEF Subscribe, Register, Drop, ForwardFirst, session, task
  <2>2. CASE Subscribe(c) \/ Drop(c) \/ ForwardFirst(c)
    <3>1. fingerprint_tx' = fingerprint_tx /\ dropped \subseteq dropped'
      BY <2>2 DEF Subscribe, Drop, ForwardFirst, lists
    <3> QED
      BY <1>1, <2>1, <3>1 DEF Quiet
  <2>3. CASE Register(c)
    <3>1. /\ c \in unregistered /\ dropped' = dropped
          /\ fingerprint_tx' =
               IF c \in Fingerprint THEN Append(fingerprint_tx, c) ELSE fingerprint_tx
      BY <2>3 DEF Register
    <3>2. inbox[c] = <<>>
      BY <3>1 DEF Typed, Subscribed
    <3>3. ToSet(fingerprint_tx') \subseteq ToSet(fingerprint_tx) \cup {c}
      <4>1. fingerprint_tx \in Seq(Fingerprint)
        BY DEF Typed, TypeOK
      <4>2. CASE c \in Fingerprint
        <5> DEFINE list == Append(fingerprint_tx, c)
        <5>1. /\ DOMAIN list = 1..(Len(fingerprint_tx) + 1)
              /\ DOMAIN fingerprint_tx = 1..Len(fingerprint_tx) /\ Len(fingerprint_tx) \in Nat
              /\ \A k \in DOMAIN list :
                   list[k] = IF k = Len(fingerprint_tx) + 1 THEN c ELSE fingerprint_tx[k]
          BY <4>1, <4>2
        <5>2. \A k \in DOMAIN list : list[k] = c \/ k \in DOMAIN fingerprint_tx
          BY <5>1
        <5> QED
          BY <3>1, <4>2, <5>1, <5>2 DEF ToSet
      <4> QED
        BY <3>1, <4>2
    <3> QED
      BY <2>1, <3>1, <3>2, <3>3 DEF LastFingerprint, Quiet
  <2> QED
    BY <1>4, <2>2, <2>3
<1>5. CASE AddObserver
  <2>1. \A c \in Channels : inbox'[c] = <<>>
    BY <1>5 DEF AddObserver, Typed, TaskPlace
  <2>2. fingerprint_tx' = fingerprint_tx
    BY <1>5 DEF AddObserver, lists
  <2> QED
    BY <1>0, <2>1, <2>2 DEF LastFingerprint
<1>6. CASE TakeBatch \/ HandleAdded \/ HandleUpdated \/ HandleRemoved
  <2>1. pc' # "recv" /\ UNCHANGED <<prev_fingerprint, lists, users, inbox>>
    BY <1>6 DEF TakeBatch, HandleAdded, HandleUpdated, HandleRemoved, AtEvent
  <2> QED
    BY <1>1, <2>1 DEF Quiet, lists, users
<1>7. CASE Announce \/ Depart
  <2>1. pc' # "recv" /\ UNCHANGED <<prev_fingerprint, fingerprint_tx, users>>
    BY <1>7 DEF Announce, Depart
  <2>2. \A c \in Listening : inbox'[c] = inbox[c]
    BY <1>0, <1>7, OthersHear
  <2> QED
    BY <1>1, <2>1, <2>2 DEF Quiet, users
\* If nobody is on the list the table is not compared.
<1>8. CASE FinishBatch
  <2>1. CASE fingerprint_tx = <<>>
    BY <1>8, <2>1 DEF FinishBatch, LastFingerprint, ToSet, lists
  <2>2. CASE fingerprint_tx # <<>>
    BY <1>1, <1>8, <2>2 DEF FinishBatch, Quiet, lists, users
  <2> QED
    BY <2>1, <2>2
<1>9. CASE Compare
  <2>1. map' = map /\ dropped' = dropped
    BY <1>9 DEF Compare, session, users
  <2>2. CASE map = NoPeers \/ map = prev_fingerprint
    BY <1>9, <2>1, <2>2 DEF Compare, generate_fingerprint, LastFingerprint
  <2>3. CASE map # NoPeers /\ map # prev_fingerprint
    <3>1. /\ prev_fingerprint' = map /\ Deliver(map, fingerprint_tx)
          /\ fingerprint_tx' = Remaining(fingerprint_tx, Positions(fingerprint_tx))
      BY <1>9, <2>3 DEF Compare, generate_fingerprint
    <3>2. ToSet(fingerprint_tx') \subseteq ToSet(fingerprint_tx)
      BY <3>1, BroadcastLeaves DEF Typed, TypeOK, Subscribed
    <3>3. \A c \in Listening' : inbox'[c] = <<map>>
      BY <1>0, <2>1, <3>1, <3>2 DEF Deliver
    <3> QED
      BY <2>1, <3>1, <3>3 DEF LastFingerprint
  <2> QED
    BY <2>2, <2>3
<1> QED
  BY <1>2, <1>3, <1>4, <1>5, <1>6, <1>7, <1>8, <1>9 DEF Next, User, Task

\* Once the task is idle, whoever listens for fingerprints and has heard one has heard that
\* of the table (the comparison at the end of handle_known_peers_events' loop).
THEOREM FingerprintsCurrent == Spec => []FingerprintCurrent
<1>1. Init => LastFingerprint
  BY DEF Init, LastFingerprint, ToSet, Quiet
<1>2. Typed /\ LastFingerprint /\ [Next]_vars => LastFingerprint'
  BY StepFingerprint
<1>3. LastFingerprint => FingerprintCurrent
  BY DEF LastFingerprint, FingerprintCurrent, generate_fingerprint
<1> QED
  BY <1>1, <1>2, <1>3, TypedInvariant, PTL DEF Spec

-----------------------------------------------------------------------------
\* What it takes to panic, or to lose a subscriber that listens.

LEMMA NotTwoClosed ==
  ASSUME NEW S, NEW list \in Seq(S), NoRepeat(list), ~TwoClosed(list)
  PROVE  /\ ~Panics(list, Positions(list))
         /\ ToSet(list) \ dropped \subseteq ToSet(Remaining(list, Positions(list)))
<1>1. Positions(list) \in SUBSET (DOMAIN list)
  BY DEF Positions
<1>2. \A j \in Positions(list) : list[j] \in dropped \cap ToSet(list)
  BY DEF Positions, ToSet
<1>3. \A j, k \in Positions(list) : j = k
  BY <1>1, <1>2 DEF TwoClosed, NoRepeat
<1>4. /\ ~Panics(list, Positions(list))
      /\ \A i \in DOMAIN list \ Positions(list) :
           list[i] \in ToSet(Remaining(list, Positions(list)))
  BY <1>1, <1>3, OneClosedLeaves
<1>5. \A c \in ToSet(list) \ dropped : \E i \in DOMAIN list \ Positions(list) : c = list[i]
  BY DEF ToSet, Positions
<1> QED
  BY <1>4, <1>5

\* A broadcast is what it takes, and two closed channels on its list.
LEMMA StepGone ==
  ASSUME Typed, [Next]_vars, ~TwoGoneTogether
  PROVE  ListenersStay /\ (pc' = "panicked" => pc = "panicked")
<1>1. /\ discovery_tx \in Seq(Discovery) /\ departure_tx \in Seq(Departure)
      /\ fingerprint_tx \in Seq(Fingerprint)
      /\ NoRepeat(discovery_tx) /\ NoRepeat(departure_tx) /\ NoRepeat(fingerprint_tx)
  BY DEF Typed, TypeOK, Subscribed
<1>2. ASSUME UNCHANGED lists PROVE ListenersStay
  BY <1>2 DEF lists, ListenersStay
<1>3. CASE UNCHANGED vars
  BY <1>2, <1>3 DEF vars, task
<1>4. CASE Session
  BY <1>2, <1>4 DEF Session, Lock, Unlock, Update, RemovePeer, Insert, task
<1>5. ASSUME NEW c \in Channels, Subscribe(c) \/ Register(c) \/ Drop(c) \/ ForwardFirst(c)
      PROVE  ListenersStay /\ pc' = pc
  <2>1. CASE Subscribe(c) \/ Drop(c) \/ ForwardFirst(c)
    BY <1>2, <2>1 DEF Subscribe, Drop, ForwardFirst, task
  <2>2. CASE Register(c)
    <3>1. ASSUME NEW S, NEW list \in Seq(S), NEW d \in S
          PROVE  ToSet(list) \subseteq ToSet(Append(list, d))
      <4>1. /\ DOMAIN list = 1..Len(list) /\ DOMAIN Append(list, d) = 1..(Len(list) + 1)
            /\ Len(list) \in Nat
            /\ \A k \in DOMAIN list : Append(list, d)[k] = list[k]
        BY <3>1
      <4>2. \A k \in DOMAIN list : k \in DOMAIN Append(list, d)
        BY <4>1
      <4> QED
        BY <4>1, <4>2 DEF ToSet
    <3>2. /\ ToSet(discovery_tx) \subseteq ToSet(discovery_tx')
          /\ ToSet(departure_tx) \subseteq ToSet(departure_tx')
          /\ ToSet(fingerprint_tx) \subseteq ToSet(fingerprint_tx')
      BY <1>1, <2>2, <3>1 DEF Register
    <3> QED
      BY <2>2, <3>2 DEF Register, ListenersStay, task
  <2> QED
    BY <1>5, <2>1, <2>2
<1>6. CASE AddObserver \/ TakeBatch \/ HandleAdded \/ HandleUpdated \/ HandleRemoved \/ FinishBatch
  BY <1>2, <1>6 DEF AddObserver, TakeBatch, HandleAdded, HandleUpdated, HandleRemoved,
                    FinishBatch, AtEvent
<1>7. CASE Announce
  <2>1. /\ discovery_tx' = Remaining(discovery_tx, Positions(discovery_tx))
        /\ pc' = IF Panics(discovery_tx, Positions(discovery_tx)) THEN "panicked" ELSE "event"
        /\ UNCHANGED <<departure_tx, fingerprint_tx>>
    BY <1>7 DEF Announce
  <2> QED
    BY <1>1, <2>1, NotTwoClosed DEF ListenersStay, TwoGoneTogether
<1>8. CASE Depart
  <2>1. /\ departure_tx' = Remaining(departure_tx, Positions(departure_tx))
        /\ pc' = IF Panics(departure_tx, Positions(departure_tx)) THEN "panicked" ELSE "event"
        /\ UNCHANGED <<discovery_tx, fingerprint_tx>>
    BY <1>8 DEF Depart
  <2> QED
    BY <1>1, <2>1, NotTwoClosed DEF ListenersStay, TwoGoneTogether
<1>9. CASE Compare
  <2>1. CASE UNCHANGED lists /\ pc' = "recv"
    BY <1>2, <2>1
  <2>2. CASE ~(UNCHANGED lists /\ pc' = "recv")
    <3>1. /\ fingerprint_tx' = Remaining(fingerprint_tx, Positions(fingerprint_tx))
          /\ pc' = IF Panics(fingerprint_tx, Positions(fingerprint_tx)) THEN "panicked" ELSE "recv"
          /\ UNCHANGED <<discovery_tx, departure_tx>>
      BY <1>9, <2>2 DEF Compare, lists
    <3> QED
      BY <1>1, <3>1, NotTwoClosed DEF ListenersStay, TwoGoneTogether
  <2> QED
    BY <2>1, <2>2
<1> QED
  BY <1>3, <1>4, <1>5, <1>6, <1>7, <1>8, <1>9 DEF Next, User, Task

\* Whoever subscribes and leaves, and whenever: a broadcast hurts another subscriber or the
\* events task only if two channels of its list are closed (broadcast_to_channels).
THEOREM OnlyTwoGoneHurt == Spec => TwoToHurt
<1>1. Typed /\ [Next]_vars =>
        [~TwoGoneTogether => ListenersStay /\ (pc' = "panicked" => pc = "panicked")]_vars
  BY StepGone
<1> QED
  BY <1>1, TypedInvariant, PTL DEF Spec, TwoToHurt
=============================================================================
