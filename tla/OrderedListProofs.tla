-------------------------- MODULE OrderedListProofs --------------------------
(***************************************************************************)
(* The operations on a list keep its type: whatever the hint, and whether  *)
(* or not the walks stop, no pointer leaves the slots 0 .. MaxId and no    *)
(* value becomes negative.  And they keep it linked: the operations on a   *)
(* list whose nodes are a sequence of ids in ascending order of values     *)
(* insert an id at its place in that sequence, or take it out, as long as  *)
(* the code does not take the only node, with the value 0, for none.       *)
(***************************************************************************)
EXTENDS OrderedList, SumsProofs, FiniteSetTheorems

\* A function can be iterated from any start: the recursive definitions of the
\* walks have a solution.
LEMMA IterationExists ==
  ASSUME NEW n \in Nat, NEW a \in Slots, NEW g \in [Slots -> Slots]
  PROVE  \E f \in [0 .. n -> Slots] : f[0] = a /\ \A i \in 1 .. n : f[i] = g[f[i - 1]]
<1> DEFINE G == {m \in 0 .. n : \E f \in [0 .. m -> Slots] :
                                  f[0] = a /\ \A i \in 1 .. m : f[i] = g[f[i - 1]]}
<1>1. 0 \in G
  <2> DEFINE f == [i \in 0 .. 0 |-> a]
  <2>1. f \in [0 .. 0 -> Slots] /\ f[0] = a /\ \A i \in 1 .. 0 : f[i] = g[f[i - 1]]
    OBVIOUS
  <2> HIDE DEF f
  <2>2. 0 \in 0 .. n
    OBVIOUS
  <2>3. QED
    BY <2>1, <2>2
<1>2. ASSUME NEW m \in 1 .. n, m - 1 \in G
      PROVE  m \in G
  <2>1. PICK f \in [0 .. m - 1 -> Slots] :
          f[0] = a /\ \A i \in 1 .. m - 1 : f[i] = g[f[i - 1]]
    BY <1>2
  <2> DEFINE h == [i \in 0 .. m |-> IF i = m THEN g[f[m - 1]] ELSE f[i]]
  <2>2. f[m - 1] \in Slots /\ g[f[m - 1]] \in Slots
    BY <2>1
  <2>3. h \in [0 .. m -> Slots] /\ h[0] = a
    BY <2>1, <2>2
  <2>4. \A i \in 1 .. m : h[i] = g[h[i - 1]]
    BY <2>1
  <2>5. m \in 0 .. n
    OBVIOUS
  <2> HIDE DEF h
  <2>6. QED
    BY <2>3, <2>4, <2>5
<1>3. n \in G
  <2> HIDE DEF G
  <2>1. \A i \in 1 .. n : i - 1 \in G => i \in G
    BY <1>2
  <2>2. \A i \in 0 .. n : i \in G
    BY <1>1, <2>1, IntervalInduction
  <2>3. QED
    BY <2>2
<1>4. QED
  BY <1>3

\* A node of a well-typed list is a record of a value and two slots.
LEMMA NodeType ==
  ASSUME NEW l \in ListType, NEW s \in Slots
  PROVE  /\ l.nodes \in [Slots -> [value : Nat, prev : Slots, next : Slots]]
         /\ l.nodes[s] \in [value : Nat, prev : Slots, next : Slots]
         /\ l.nodes[s].value \in Nat /\ l.nodes[s].prev \in Slots /\ l.nodes[s].next \in Slots
         /\ l.head \in Slots /\ l.tail \in Slots
<1>1. l.nodes \in [Slots -> [value : Nat, prev : Slots, next : Slots]]
  BY DEF ListType
<1>2. l.nodes[s] \in [value : Nat, prev : Slots, next : Slots]
  BY <1>1
<1>3. QED
  BY <1>1, <1>2 DEF ListType

\* A walk towards the tail is the slots that its recursive definition describes.
LEMMA ForwardWalkSteps ==
  ASSUME NEW l \in ListType, NEW v \in Nat, NEW start \in Slots
  PROVE  \E at \in [0 .. MaxId + 1 -> Slots] :
           /\ at[0] = start
           /\ \A k \in 1 .. MaxId + 1 :
                at[k] = IF GoesForward(l, v, at[k - 1]) THEN l.nodes[at[k - 1]].next ELSE at[k - 1]
           /\ ForwardWalk(l, v, start) = at[MaxId + 1]
<1> DEFINE n == MaxId + 1
           step == [s \in Slots |-> IF GoesForward(l, v, s) THEN l.nodes[s].next ELSE s]
           F(f) == [k \in 0 .. n |->
                      IF k = 0 THEN start
                      ELSE IF GoesForward(l, v, f[k - 1]) THEN l.nodes[f[k - 1]].next ELSE f[k - 1]]
           at == CHOOSE f : f = F(f)
<1>1. n \in Nat
  BY MaxIdAssumption
<1>2. step \in [Slots -> Slots]
  BY NodeType
<1>3. PICK f \in [0 .. n -> Slots] : f[0] = start /\ \A i \in 1 .. n : f[i] = step[f[i - 1]]
  <2> HIDE DEF n, step
  <2> QED BY <1>1, <1>2, IterationExists
<1>4. f = F(f)
  <2> HIDE DEF n
  <2>1. \A k \in 0 .. n : k # 0 => k \in 1 .. n /\ k - 1 \in 0 .. n /\ f[k - 1] \in Slots
    BY <1>1, <1>3
  <2>2. \A k \in 0 .. n : f[k] = F(f)[k]
    BY <1>3, <2>1
  <2>3. QED
    BY <1>3, <2>2
<1>5. at = F(at)
  <2> HIDE DEF F
  <2> QED BY <1>4
<1> DEFINE G == {k \in 0 .. n : at[k] \in Slots}
<1> HIDE DEF at
<1>6. at[0] = start /\ \A k \in 1 .. n :
         at[k] = IF GoesForward(l, v, at[k - 1]) THEN l.nodes[at[k - 1]].next ELSE at[k - 1]
  <2> HIDE DEF n
  <2> QED BY <1>1, <1>5
<1>7. \A k \in 0 .. n : k \in G
  <2>1. 0 \in G
    BY <1>1, <1>6
  <2>2. ASSUME NEW k \in 1 .. n, k - 1 \in G
        PROVE  k \in G
    <3>1. at[k - 1] \in Slots
      BY <2>2
    <3>2. l.nodes[at[k - 1]].next \in Slots
      BY <3>1, NodeType
    <3>3. at[k] \in Slots
      BY <1>6, <3>1, <3>2
    <3>4. QED
      BY <1>1, <3>3
  <2>3. \A k \in 1 .. n : k - 1 \in G => k \in G
    BY <2>2
  <2> HIDE DEF n, G
  <2>4. QED
    BY <1>1, <2>1, <2>3, IntervalInduction
<1>8. at \in [0 .. n -> Slots]
  <2>1. at = [k \in 0 .. n |-> at[k]]
    BY <1>5
  <2> HIDE DEF n
  <2>2. \A k \in 0 .. n : at[k] \in Slots
    BY <1>7
  <2>3. QED
    BY <2>1, <2>2
<1>9. ForwardWalk(l, v, start) = at[n]
  BY DEF ForwardWalk, at
<1>10. QED
  BY <1>6, <1>8, <1>9

\* A walk towards the tail stays on slots.
LEMMA ForwardWalkType ==
  ASSUME NEW l \in ListType, NEW v \in Nat, NEW start \in Slots
  PROVE  ForwardWalk(l, v, start) \in Slots
<1>1. PICK at \in [0 .. MaxId + 1 -> Slots] : ForwardWalk(l, v, start) = at[MaxId + 1]
  BY ForwardWalkSteps
<1>2. MaxId + 1 \in 0 .. MaxId + 1
  BY MaxIdAssumption
<1>3. QED
  BY <1>1, <1>2

\* A walk towards the head is the slots that its recursive definition describes.
LEMMA BackwardWalkSteps ==
  ASSUME NEW l \in ListType, NEW v \in Nat, NEW start \in Slots
  PROVE  \E at \in [0 .. MaxId + 1 -> Slots] :
           /\ at[0] = start
           /\ \A k \in 1 .. MaxId + 1 :
                at[k] = IF GoesBackward(l, v, at[k - 1]) THEN l.nodes[at[k - 1]].prev ELSE at[k - 1]
           /\ BackwardWalk(l, v, start) = at[MaxId + 1]
<1> DEFINE n == MaxId + 1
           step == [s \in Slots |-> IF GoesBackward(l, v, s) THEN l.nodes[s].prev ELSE s]
           F(f) == [k \in 0 .. n |->
                      IF k = 0 THEN start
                      ELSE IF GoesBackward(l, v, f[k - 1]) THEN l.nodes[f[k - 1]].prev ELSE f[k - 1]]
           at == CHOOSE f : f = F(f)
<1>1. n \in Nat
  BY MaxIdAssumption
<1>2. step \in [Slots -> Slots]
  BY NodeType
<1>3. PICK f \in [0 .. n -> Slots] : f[0] = start /\ \A i \in 1 .. n : f[i] = step[f[i - 1]]
  <2> HIDE DEF n, step
  <2> QED BY <1>1, <1>2, IterationExists
<1>4. f = F(f)
  <2> HIDE DEF n
  <2>1. \A k \in 0 .. n : k # 0 => k \in 1 .. n /\ k - 1 \in 0 .. n /\ f[k - 1] \in Slots
    BY <1>1, <1>3
  <2>2. \A k \in 0 .. n : f[k] = F(f)[k]
    BY <1>3, <2>1
  <2>3. QED
    BY <1>3, <2>2
<1>5. at = F(at)
  <2> HIDE DEF F
  <2> QED BY <1>4
<1> DEFINE G == {k \in 0 .. n : at[k] \in Slots}
<1> HIDE DEF at
<1>6. at[0] = start /\ \A k \in 1 .. n :
         at[k] = IF GoesBackward(l, v, at[k - 1]) THEN l.nodes[at[k - 1]].prev ELSE at[k - 1]
  <2> HIDE DEF n
  <2> QED BY <1>1, <1>5
<1>7. \A k \in 0 .. n : k \in G
  <2>1. 0 \in G
    BY <1>1, <1>6
  <2>2. ASSUME NEW k \in 1 .. n, k - 1 \in G
        PROVE  k \in G
    <3>1. at[k - 1] \in Slots
      BY <2>2
    <3>2. l.nodes[at[k - 1]].prev \in Slots
      BY <3>1, NodeType
    <3>3. at[k] \in Slots
      BY <1>6, <3>1, <3>2
    <3>4. QED
      BY <1>1, <3>3
  <2>3. \A k \in 1 .. n : k - 1 \in G => k \in G
    BY <2>2
  <2> HIDE DEF n, G
  <2>4. QED
    BY <1>1, <2>1, <2>3, IntervalInduction
<1>8. at \in [0 .. n -> Slots]
  <2>1. at = [k \in 0 .. n |-> at[k]]
    BY <1>5
  <2> HIDE DEF n
  <2>2. \A k \in 0 .. n : at[k] \in Slots
    BY <1>7
  <2>3. QED
    BY <2>1, <2>2
<1>9. BackwardWalk(l, v, start) = at[n]
  BY DEF BackwardWalk, at
<1>10. QED
  BY <1>6, <1>8, <1>9

\* A walk towards the head stays on slots.
LEMMA BackwardWalkType ==
  ASSUME NEW l \in ListType, NEW v \in Nat, NEW start \in Slots
  PROVE  BackwardWalk(l, v, start) \in Slots
<1>1. PICK at \in [0 .. MaxId + 1 -> Slots] : BackwardWalk(l, v, start) = at[MaxId + 1]
  BY BackwardWalkSteps
<1>2. MaxId + 1 \in 0 .. MaxId + 1
  BY MaxIdAssumption
<1>3. QED
  BY <1>1, <1>2

\* The node after which a value is inserted is a slot.
LEMMA SpotType ==
  ASSUME NEW l \in ListType, NEW v \in Nat, NEW hint \in Slots
  PROVE  Spot(l, v, hint) \in Slots
<1>1. WalkStart(l, hint) \in Slots
  BY NodeType DEF WalkStart
<1>2. ForwardWalk(l, v, WalkStart(l, hint)) \in Slots
  BY <1>1, ForwardWalkType
<1>3. QED
  BY <1>2, BackwardWalkType DEF Spot

\* Inserting a value at any spot keeps the type of the list.
LEMMA InsertType ==
  ASSUME NEW l \in ListType, NEW id \in Ids, NEW v \in Nat, NEW hint \in Slots
  PROVE  Insert(l, id, v, hint) \in ListType
<1> DEFINE Node == [value : Nat, prev : Slots, next : Slots]
           s == Spot(l, v, hint)
<1>1. /\ id \in Slots /\ 0 \in Slots /\ s \in Slots
      /\ l.head \in Slots /\ l.tail \in Slots /\ l.nodes \in [Slots -> Node]
      /\ l.nodes[s].next \in Slots
  BY SpotType, NodeType, MaxIdAssumption DEF Ids, Slots
<1> HIDE DEF s
<1>2. InsertFirst(l, id, v) \in ListType
  BY <1>1 DEF InsertFirst, ListType, NullNode
<1>3. InsertBeforeHead(l, id, v) \in ListType
  BY <1>1 DEF InsertBeforeHead, ListType
<1>4. InsertAfterTail(l, id, v) \in ListType
  BY <1>1 DEF InsertAfterTail, ListType
<1>5. InsertAfter(l, id, v, s) \in ListType
  BY <1>1 DEF InsertAfter, ListType
<1>6. QED
  BY <1>2, <1>3, <1>4, <1>5 DEF Insert, s

\* Taking out a node, linked or not, keeps the type of the list.
LEMMA RemovedType ==
  ASSUME NEW l \in ListType, NEW id \in Ids
  PROVE  Removed(l, id) \in ListType
<1> DEFINE Node == [value : Nat, prev : Slots, next : Slots]
           p == l.nodes[id].prev
           n == l.nodes[id].next
           fromPrev == IF p = 0 THEN [l.nodes EXCEPT ![n].prev = 0]
                                ELSE [l.nodes EXCEPT ![p].next = n, ![n].prev = p]
           fromNext == IF n = 0 THEN [fromPrev EXCEPT ![p].next = 0]
                                ELSE [fromPrev EXCEPT ![n].prev = p, ![p].next = n]
<1>1. id \in Slots /\ 0 \in Slots
  BY MaxIdAssumption DEF Ids, Slots
<1>2. p \in Slots /\ n \in Slots /\ l.head \in Slots /\ l.tail \in Slots
      /\ l.nodes \in [Slots -> Node]
  BY <1>1, NodeType
<1>3. Unlink(l, id) = [head  |-> IF p = 0 THEN n ELSE l.head,
                       tail  |-> IF n = 0 THEN p ELSE l.tail,
                       nodes |-> [fromNext EXCEPT ![id] = NullNode]]
  BY DEF Unlink
<1> HIDE DEF p, n
<1>4. fromPrev \in [Slots -> Node]
  BY <1>1, <1>2
<1> HIDE DEF fromPrev
<1>5. fromNext \in [Slots -> Node]
  BY <1>1, <1>2, <1>4
<1> HIDE DEF fromNext
<1>6. [fromNext EXCEPT ![id] = NullNode] \in [Slots -> Node]
  BY <1>1, <1>5 DEF NullNode
<1>7. Unlink(l, id) \in ListType
  BY <1>2, <1>3, <1>6 DEF ListType
<1>8. QED
  BY <1>7 DEF Removed

\* Moving or inserting a node keeps the type of the list.
LEMMA UpsertedType ==
  ASSUME NEW l \in ListType, NEW id \in Ids, NEW v \in Nat, NEW hint \in Slots
  PROVE  Upserted(l, id, v, hint) \in ListType
BY RemovedType, InsertType DEF Upserted

\* The list of a contract that was just deployed has the type.
LEMMA EmptyListType == EmptyList \in ListType
BY MaxIdAssumption DEF EmptyList, ListType, NullNode, Slots

-----------------------------------------------------------------------------
(* Linked lists. *)

\* The nodes of list l are q[1] .. q[n], linked in this order, with values in
\* ascending order; any other node is the null node.  Slot 0 may hold anything: the
\* code does write to it.
Linked(l, n, q) ==
  /\ q \in [1 .. n -> Ids]
  /\ \A i, j \in 1 .. n : q[i] = q[j] => i = j
  /\ n = 0 => l.head = 0 /\ l.tail = 0
  /\ n > 0 => l.head = q[1] /\ l.tail = q[n]
  /\ \A k \in 1 .. n : l.nodes[q[k]].prev = IF k = 1 THEN 0 ELSE q[k - 1]
  /\ \A k \in 1 .. n : l.nodes[q[k]].next = IF k = n THEN 0 ELSE q[k + 1]
  /\ \A i, j \in 1 .. n : i <= j => l.nodes[q[i]].value <= l.nodes[q[j]].value
  /\ \A id \in Ids : (\A k \in 1 .. n : q[k] # id) => l.nodes[id] = NullNode

\* No value is 0.
Positive(l, n, q) == \A k \in 1 .. n : l.nodes[q[k]].value > 0

LinkedAs(l, n, q) == Linked(l, n, q) /\ Positive(l, n, q)

\* The code sees that the first node is in the list, since it has a value or is not the only one.
HeadSeen(l) == l.head # 0 => ~LooksAbsent(l, l.head)

\* The first m of the nodes are those with a value below v.
PlaceOf(l, n, q, v, m) == \A k \in 1 .. n : l.nodes[q[k]].value < v <=> k <= m

\* The sequence q of length n with id after the first m, and without its j-th.
WithIdAt(n, q, m, id) ==
  [k \in 1 .. n + 1 |-> IF k <= m THEN q[k] ELSE IF k = m + 1 THEN id ELSE q[k - 1]]
WithoutIdAt(n, q, j) == [k \in 1 .. n - 1 |-> IF k < j THEN q[k] ELSE q[k + 1]]

\* There are at most MaxId nodes, and one less when an id is not among them.
LEMMA RoomForNodes ==
  ASSUME NEW n \in Nat, NEW q \in [1 .. n -> Ids],
         \A i, j \in 1 .. n : q[i] = q[j] => i = j
  PROVE  /\ n <= MaxId
         /\ \A id \in Ids : (\A k \in 1 .. n : q[k] # id) => n < MaxId
<1>1. q \in Injection(1 .. n, Ids)
  BY DEF Injection, IsInjective
<1>2. IsFiniteSet(1 .. n) /\ Cardinality(1 .. n) = n
  <2>1. 1 \in Int /\ n \in Int
    OBVIOUS
  <2>2. IsFiniteSet(1 .. n) /\ Cardinality(1 .. n) = IF 1 > n THEN 0 ELSE n - 1 + 1
    BY <2>1, FS_Interval
  <2>3. QED
    BY <2>2
<1>3. IsFiniteSet(Ids) /\ Cardinality(Ids) = MaxId
  <2>1. 1 \in Int /\ MaxId \in Int /\ MaxId >= 1
    BY MaxIdAssumption
  <2>2. IsFiniteSet(1 .. MaxId) /\ Cardinality(1 .. MaxId) = IF 1 > MaxId THEN 0 ELSE MaxId - 1 + 1
    BY <2>1, FS_Interval
  <2>3. QED
    BY <2>1, <2>2 DEF Ids
<1>4. /\ Cardinality(1 .. n) <= Cardinality(Ids)
      /\ Cardinality(1 .. n) = Cardinality(Ids) <=> q \in Surjection(1 .. n, Ids)
  BY <1>1, <1>3, FS_Injection
<1>5. ASSUME NEW id \in Ids, \A k \in 1 .. n : q[k] # id
      PROVE  n # MaxId
  BY <1>2, <1>3, <1>4, <1>5 DEF Surjection
<1>6. QED
  BY <1>2, <1>3, <1>4, <1>5, MaxIdAssumption

\* The code's test for absence is exact when it sees that the first node is there:
\* any other node has a previous one.
LEMMA AbsenceOfLinked ==
  ASSUME NEW l, NEW n \in Nat, NEW q, Linked(l, n, q), HeadSeen(l), NEW id \in Ids
  PROVE  LooksAbsent(l, id) <=> \A k \in 1 .. n : q[k] # id
<1>1. ASSUME NEW k \in 1 .. n
      PROVE  ~LooksAbsent(l, q[k])
  <2>1. \A i \in 1 .. n : q[i] # 0
    BY MaxIdAssumption DEF Linked, Ids
  <2>2. CASE k = 1
    BY <2>1, <2>2 DEF Linked, HeadSeen
  <2>3. CASE k # 1
    <3>1. k - 1 \in 1 .. n /\ l.nodes[q[k]].prev = q[k - 1]
      BY <2>3 DEF Linked
    <3>2. QED
      BY <2>1, <3>1 DEF LooksAbsent, NullNode
  <2>4. QED
    BY <2>2, <2>3
<1>2. QED
  BY <1>1 DEF LooksAbsent, Linked

\* It does when the values are positive, ...
LEMMA PositiveHeadSeen ==
  ASSUME NEW l, NEW n \in Nat, NEW q, LinkedAs(l, n, q)
  PROVE  HeadSeen(l)
BY DEF HeadSeen, LinkedAs, Linked, Positive, LooksAbsent, NullNode

\* ... so that the test is exact then.
LEMMA AbsenceIsExact ==
  ASSUME NEW l, NEW n \in Nat, NEW q, LinkedAs(l, n, q), NEW id \in Ids
  PROVE  LooksAbsent(l, id) <=> \A k \in 1 .. n : q[k] # id
<1>1. HeadSeen(l)
  BY PositiveHeadSeen
<1>2. QED
  BY <1>1, AbsenceOfLinked DEF LinkedAs

\* The values are positive when the first one is.
LEMMA FirstIsLeast ==
  ASSUME NEW l \in ListType, NEW n \in Nat, NEW q, Linked(l, n, q),
         l.head # 0 => l.nodes[l.head].value > 0
  PROVE  LinkedAs(l, n, q)
<1>1. ASSUME NEW k \in 1 .. n
      PROVE  l.nodes[q[k]].value > 0
  <2>1. 1 \in 1 .. n /\ 1 <= k /\ n > 0
    OBVIOUS
  <2>2. q[1] \in Slots /\ q[k] \in Slots /\ q[1] # 0
    BY <2>1, MaxIdAssumption DEF Linked, Ids, Slots
  <2>3. l.nodes[q[1]].value > 0
    BY <2>1, <2>2 DEF Linked
  <2>4. l.nodes[q[1]].value <= l.nodes[q[k]].value
    BY <2>1 DEF Linked
  <2>5. l.nodes[q[1]].value \in Nat /\ l.nodes[q[k]].value \in Nat
    BY <2>2, NodeType
  <2>6. QED
    BY <2>3, <2>4, <2>5
<1>2. QED
  BY <1>1 DEF LinkedAs, Positive

\* Every value has a place in the order of the nodes.
LEMMA PlaceExists ==
  ASSUME NEW l \in ListType, NEW n \in Nat, NEW q, Linked(l, n, q), NEW v \in Nat
  PROVE  \E m \in 0 .. n : PlaceOf(l, n, q, v, m)
<1> DEFINE val == [k \in 1 .. n |-> l.nodes[q[k]].value]
           G == {k \in 0 .. n : \E m \in 0 .. k : \A i \in 1 .. k : val[i] < v <=> i <= m}
<1>1. /\ val \in [1 .. n -> Nat]
      /\ \A i, j \in 1 .. n : i <= j => val[i] <= val[j]
  <2>1. \A k \in 1 .. n : q[k] \in Slots
    BY MaxIdAssumption DEF Linked, Ids, Slots
  <2>2. \A k \in 1 .. n : l.nodes[q[k]].value \in Nat
    BY <2>1, NodeType
  <2>3. QED
    BY <2>2 DEF Linked
<1> HIDE DEF val
<1>2. 0 \in G
  OBVIOUS
<1>3. ASSUME NEW k \in 1 .. n, k - 1 \in G
      PROVE  k \in G
  <2>1. PICK m \in 0 .. k - 1 : \A i \in 1 .. k - 1 : val[i] < v <=> i <= m
    BY <1>3
  <2>2. CASE val[k] < v
    <3>1. \A i \in 1 .. k : val[i] < v <=> i <= k
      BY <1>1, <2>2
    <3>2. QED
      BY <3>1
  <2>3. CASE ~(val[k] < v)
    <3>1. \A i \in 1 .. k : val[i] < v <=> i <= m
      BY <2>1, <2>3
    <3>2. QED
      BY <3>1
  <2>4. QED
    BY <2>2, <2>3
<1>4. \A k \in 1 .. n : k - 1 \in G => k \in G
  BY <1>3
<1>5. n \in G
  <2> HIDE DEF G
  <2>1. \A k \in 0 .. n : k \in G
    BY <1>2, <1>4, IntervalInduction
  <2>2. QED
    BY <2>1
<1>6. PICK m \in 0 .. n : \A i \in 1 .. n : val[i] < v <=> i <= m
  BY <1>5
<1>7. PlaceOf(l, n, q, v, m)
  BY <1>6 DEF PlaceOf, val
<1>8. QED
  BY <1>7

\* From any node, the walk towards the tail ends at the first node, from there
\* on, whose value is not smaller, or at the tail.
LEMMA ForwardWalkEnds ==
  ASSUME NEW l \in ListType, NEW n \in Nat, NEW q, Linked(l, n, q),
         NEW v \in Nat, NEW m \in 0 .. n, PlaceOf(l, n, q, v, m), NEW a \in 1 .. n
  PROVE  \E b \in 1 .. n :
           /\ a <= b /\ (b = n \/ b > m)
           /\ ForwardWalk(l, v, q[a]) = q[b]
<1> DEFINE last == IF m < n THEN m + 1 ELSE n
           b == IF a > last THEN a ELSE last
           p(k) == IF a + k <= b THEN a + k ELSE b
<1>1. \A k \in 1 .. n : q[k] \in Slots
  BY MaxIdAssumption DEF Linked, Ids, Slots
<1>2. n <= MaxId /\ MaxId \in Nat /\ MaxId + 1 \in Nat
  <2>1. q \in [1 .. n -> Ids] /\ \A i, j \in 1 .. n : q[i] = q[j] => i = j
    BY DEF Linked
  <2>2. n <= MaxId
    BY <2>1, RoomForNodes
  <2>3. QED
    BY <2>2, MaxIdAssumption
<1>3. b \in 1 .. n /\ a <= b /\ (b = n \/ b > m)
  OBVIOUS
<1>4. \A k \in 1 .. n : GoesForward(l, v, q[k]) <=> k < last
  <2>1. \A k \in 1 .. n : q[k] = l.tail <=> k = n
    BY DEF Linked
  <2>2. QED
    BY <2>1 DEF GoesForward, PlaceOf
<1>5. PICK at \in [0 .. MaxId + 1 -> Slots] :
        /\ at[0] = q[a]
        /\ \A k \in 1 .. MaxId + 1 :
             at[k] = IF GoesForward(l, v, at[k - 1]) THEN l.nodes[at[k - 1]].next ELSE at[k - 1]
        /\ ForwardWalk(l, v, q[a]) = at[MaxId + 1]
  <2>1. q[a] \in Slots
    BY <1>1
  <2>2. QED
    BY <2>1, ForwardWalkSteps
<1> DEFINE G == {k \in 0 .. MaxId + 1 : at[k] = q[p(k)]}
<1>6. 0 \in G
  BY <1>2, <1>5, <1>3
<1>7. ASSUME NEW k \in 1 .. MaxId + 1, k - 1 \in G
      PROVE  k \in G
  <2>1. k - 1 \in Nat /\ at[k - 1] = q[p(k - 1)] /\ p(k - 1) \in 1 .. n /\ p(k - 1) >= a
    BY <1>2, <1>3, <1>7
  <2>2. CASE p(k - 1) < last
    <3>1. p(k) = p(k - 1) + 1 /\ p(k - 1) # n
      BY <2>1, <2>2, <1>2
    <3>2. l.nodes[q[p(k - 1)]].next = q[p(k - 1) + 1]
      BY <2>1, <3>1 DEF Linked
    <3>3. at[k] = q[p(k)]
      BY <1>4, <1>5, <2>1, <2>2, <3>1, <3>2
    <3>4. QED
      BY <3>3, <1>2
  <2>3. CASE ~(p(k - 1) < last)
    <3>1. p(k) = p(k - 1)
      BY <2>1, <2>3, <1>2, <1>3
    <3>2. at[k] = q[p(k)]
      BY <1>4, <1>5, <2>1, <2>3, <3>1
    <3>3. QED
      BY <3>2, <1>2
  <2>4. QED
    BY <2>2, <2>3
<1>8. MaxId + 1 \in G
  <2>1. \A k \in 1 .. MaxId + 1 : k - 1 \in G => k \in G
    BY <1>7
  <2> HIDE DEF G
  <2>2. PICK bound \in Nat : bound = MaxId + 1
    BY <1>2
  <2>3. \A k \in 0 .. bound : k \in G
    BY <1>6, <2>1, <2>2, IntervalInduction
  <2>4. QED
    BY <2>2, <2>3
<1>9. p(MaxId + 1) = b
  BY <1>2, <1>3
<1> HIDE DEF b, p
<1>10. QED
  BY <1>3, <1>5, <1>8, <1>9

\* From a node that is not before the place of the value, or from the tail, the
\* walk towards the head ends at the last node whose value is smaller, or at the
\* head.
LEMMA BackwardWalkEnds ==
  ASSUME NEW l \in ListType, NEW n \in Nat, NEW q, Linked(l, n, q),
         NEW v \in Nat, NEW m \in 0 .. n, PlaceOf(l, n, q, v, m),
         NEW b \in 1 .. n, b = n \/ b > m
  PROVE  BackwardWalk(l, v, q[b]) = q[IF m = 0 THEN 1 ELSE m]
<1> DEFINE c == IF m = 0 THEN 1 ELSE m
           p(k) == IF b - k >= c THEN b - k ELSE c
<1>1. \A k \in 1 .. n : q[k] \in Slots
  BY MaxIdAssumption DEF Linked, Ids, Slots
<1>2. n <= MaxId /\ MaxId \in Nat /\ MaxId + 1 \in Nat
  <2>1. q \in [1 .. n -> Ids] /\ \A i, j \in 1 .. n : q[i] = q[j] => i = j
    BY DEF Linked
  <2>2. n <= MaxId
    BY <2>1, RoomForNodes
  <2>3. QED
    BY <2>2, MaxIdAssumption
<1>3. c \in 1 .. n /\ c <= b
  OBVIOUS
<1>4. \A k \in 1 .. n : GoesBackward(l, v, q[k]) <=> k > c
  <2>1. \A k \in 1 .. n : q[k] = l.head <=> k = 1
    BY DEF Linked
  <2>2. \A k \in 1 .. n : l.nodes[q[k]].value \in Nat
    BY <1>1, NodeType
  <2>3. QED
    BY <2>1, <2>2 DEF GoesBackward, PlaceOf
<1>5. PICK at \in [0 .. MaxId + 1 -> Slots] :
        /\ at[0] = q[b]
        /\ \A k \in 1 .. MaxId + 1 :
             at[k] = IF GoesBackward(l, v, at[k - 1]) THEN l.nodes[at[k - 1]].prev ELSE at[k - 1]
        /\ BackwardWalk(l, v, q[b]) = at[MaxId + 1]
  <2>1. q[b] \in Slots
    BY <1>1
  <2>2. QED
    BY <2>1, BackwardWalkSteps
<1> DEFINE G == {k \in 0 .. MaxId + 1 : at[k] = q[p(k)]}
<1>6. 0 \in G
  BY <1>2, <1>5, <1>3
<1>7. ASSUME NEW k \in 1 .. MaxId + 1, k - 1 \in G
      PROVE  k \in G
  <2>1. k - 1 \in Nat /\ at[k - 1] = q[p(k - 1)] /\ p(k - 1) \in 1 .. n /\ p(k - 1) >= c
    BY <1>2, <1>3, <1>7
  <2>2. CASE p(k - 1) > c
    <3>1. p(k) = p(k - 1) - 1 /\ p(k - 1) # 1
      BY <2>1, <2>2, <1>2, <1>3
    <3>2. l.nodes[q[p(k - 1)]].prev = q[p(k - 1) - 1]
      BY <2>1, <3>1 DEF Linked
    <3>3. at[k] = q[p(k)]
      BY <1>4, <1>5, <2>1, <2>2, <3>1, <3>2
    <3>4. QED
      BY <3>3, <1>2
  <2>3. CASE ~(p(k - 1) > c)
    <3>1. p(k) = p(k - 1)
      BY <2>1, <2>3, <1>2, <1>3
    <3>2. at[k] = q[p(k)]
      BY <1>4, <1>5, <2>1, <2>3, <3>1
    <3>3. QED
      BY <3>2, <1>2
  <2>4. QED
    BY <2>2, <2>3
<1>8. MaxId + 1 \in G
  <2>1. \A k \in 1 .. MaxId + 1 : k - 1 \in G => k \in G
    BY <1>7
  <2> HIDE DEF G
  <2>2. PICK bound \in Nat : bound = MaxId + 1
    BY <1>2
  <2>3. \A k \in 0 .. bound : k \in G
    BY <1>6, <2>1, <2>2, IntervalInduction
  <2>4. QED
    BY <2>2, <2>3
<1>9. p(MaxId + 1) = c
  BY <1>2, <1>3
<1> HIDE DEF p
<1>10. QED
  BY <1>5, <1>8, <1>9

\* With any hint, both walks of _insert stop, and they stop at the last node
\* whose value is smaller, or at the head.
LEMMA WalksEndAtPlace ==
  ASSUME NEW l \in ListType, NEW n \in Nat \ {0}, NEW q, Linked(l, n, q),
         NEW v \in Nat, NEW m \in 0 .. n, PlaceOf(l, n, q, v, m), NEW hint \in Slots
  PROVE  /\ Spot(l, v, hint) = q[IF m = 0 THEN 1 ELSE m]
         /\ WalksStop(l, v, hint)
<1>1. \A k \in 1 .. n : q[k] \in Slots /\ l.nodes[q[k]].value \in Nat
  <2>1. \A k \in 1 .. n : q[k] \in Slots
    BY MaxIdAssumption DEF Linked, Ids, Slots
  <2>2. QED
    BY <2>1, NodeType
<1>2. PICK a \in 1 .. n : WalkStart(l, hint) = q[a]
  <2>1. CASE hint = 0 \/ LooksAbsent(l, hint)
    <3>1. WalkStart(l, hint) = q[1]
      BY <2>1 DEF WalkStart, Linked
    <3>2. QED
      BY <3>1
  <2>2. CASE ~(hint = 0 \/ LooksAbsent(l, hint))
    <3>1. hint \in Ids
      BY <2>2, MaxIdAssumption DEF Slots, Ids
    <3>2. \E a \in 1 .. n : q[a] = hint
      BY <2>2, <3>1 DEF Linked, LooksAbsent
    <3>3. QED
      BY <2>2, <3>2 DEF WalkStart
  <2>3. QED
    BY <2>1, <2>2
<1>3. PICK b \in 1 .. n : /\ b = n \/ b > m
                          /\ ForwardWalk(l, v, WalkStart(l, hint)) = q[b]
  <2>1. \E b \in 1 .. n : /\ a <= b /\ (b = n \/ b > m)
                          /\ ForwardWalk(l, v, q[a]) = q[b]
    BY ForwardWalkEnds
  <2>2. QED
    BY <1>2, <2>1
<1> DEFINE c == IF m = 0 THEN 1 ELSE m
<1>4. BackwardWalk(l, v, q[b]) = q[c]
  BY <1>3, BackwardWalkEnds
<1>5. Spot(l, v, hint) = q[c]
  BY <1>3, <1>4 DEF Spot
<1>6. ~GoesForward(l, v, q[b])
  <2>1. b = n => q[b] = l.tail
    BY DEF Linked
  <2>2. b > m => ~(l.nodes[q[b]].value < v)
    BY DEF PlaceOf
  <2>3. QED
    BY <1>3, <2>1, <2>2 DEF GoesForward
<1>7. ~GoesBackward(l, v, q[c])
  <2>1. m = 0 => q[c] = l.head
    BY DEF Linked
  <2>2. m # 0 => l.nodes[q[c]].value < v
    BY DEF PlaceOf
  <2>3. c \in 1 .. n
    OBVIOUS
  <2>4. QED
    BY <1>1, <2>1, <2>2, <2>3 DEF GoesBackward
<1>8. WalksStop(l, v, hint)
  BY <1>3, <1>4, <1>6, <1>7 DEF WalksStop
<1>9. QED
  BY <1>5, <1>8

-----------------------------------------------------------------------------
(* Inserting. *)

\* List k is list l with id, of value v, linked in after the first m of the
\* nodes q[1] .. q[n].
SplicedInto(l, n, q, m, id, v, k) ==
  /\ k.head = IF m = 0 THEN id ELSE l.head
  /\ k.tail = IF m = n THEN id ELSE l.tail
  /\ k.nodes[id].value = v
  /\ k.nodes[id].prev = IF m = 0 THEN 0 ELSE q[m]
  /\ k.nodes[id].next = IF m = n THEN 0 ELSE q[m + 1]
  /\ \A s \in Ids \ {id} :
       /\ k.nodes[s].value = l.nodes[s].value
       /\ k.nodes[s].next = IF m > 0 /\ s = q[m] THEN id ELSE l.nodes[s].next
       /\ k.nodes[s].prev = IF m < n /\ s = q[m + 1] THEN id ELSE l.nodes[s].prev

\* Each of the four cases of _insert links the node in at the place of its
\* value, whatever the hint.
LEMMA InsertSplices ==
  ASSUME NEW l \in ListType, NEW n \in Nat, NEW q, Linked(l, n, q),
         NEW v \in Nat, NEW m \in 0 .. n, PlaceOf(l, n, q, v, m), NEW hint \in Slots,
         NEW id \in Ids, \A k \in 1 .. n : q[k] # id
  PROVE  SplicedInto(l, n, q, m, id, v, Insert(l, id, v, hint))
<1> DEFINE Node == [value : Nat, prev : Slots, next : Slots]
           s == Spot(l, v, hint)
           c == IF m = 0 THEN 1 ELSE m
<1>1. /\ l.nodes \in [Slots -> Node]
      /\ id \in Slots /\ id # 0 /\ 0 \in Slots
      /\ \A i \in Ids : i \in Slots /\ i # 0
      /\ \A k \in 1 .. n : q[k] \in Ids
  <2>1. l.nodes \in [Slots -> Node]
    BY DEF ListType
  <2>2. \A k \in 1 .. n : q[k] \in Ids
    BY DEF Linked
  <2>3. 0 \in Slots /\ \A i \in Ids : i \in Slots /\ i # 0
    BY MaxIdAssumption DEF Ids, Slots
  <2>4. QED
    BY <2>1, <2>2, <2>3
<1>2. CASE n = 0
  <2>1. l.head = 0 /\ m = 0
    BY <1>2 DEF Linked
  <2>2. Insert(l, id, v, hint) = InsertFirst(l, id, v)
    BY <2>1 DEF Insert
  <2>3. SplicedInto(l, n, q, m, id, v, InsertFirst(l, id, v))
    BY <1>1, <1>2, <2>1 DEF SplicedInto, InsertFirst, NullNode
  <2>4. QED
    BY <2>2, <2>3
<1>3. CASE n # 0
  <2>1. l.head = q[1] /\ l.tail = q[n] /\ l.head # 0
    BY <1>1, <1>3 DEF Linked
  <2>2. s = q[c] /\ c \in 1 .. n
    <3>1. n \in Nat \ {0}
      BY <1>3
    <3>2. QED
      BY <3>1, WalksEndAtPlace
  <2>3. \A i, j \in 1 .. n : q[i] = q[j] => i = j
    BY DEF Linked
  <2>4. /\ s = l.head <=> c = 1
        /\ s = l.tail <=> c = n
        /\ l.nodes[s].value >= v <=> m = 0
    <3>1. s = l.head <=> c = 1
      BY <2>1, <2>2, <2>3, <1>3
    <3>2. s = l.tail <=> c = n
      BY <2>1, <2>2, <2>3, <1>3
    <3>3. l.nodes[q[c]].value < v <=> c <= m
      BY <2>2 DEF PlaceOf
    <3>4. l.nodes[q[c]].value \in Nat
      BY <1>1, <2>2, NodeType
    <3>5. QED
      BY <2>2, <3>1, <3>2, <3>3, <3>4
  <2>5. /\ l.nodes[s].next = IF c = n THEN 0 ELSE q[c + 1]
        /\ \A k \in 1 .. n : q[k] = l.nodes[s].next => k = c + 1
    <3>1. l.nodes[s].next = IF c = n THEN 0 ELSE q[c + 1]
      BY <2>2 DEF Linked
    <3>2. QED
      BY <1>1, <2>2, <2>3, <3>1
  <2> HIDE DEF s
  <2>6. CASE m = 0
    <3>1. Insert(l, id, v, hint) = InsertBeforeHead(l, id, v)
      BY <2>1, <2>4, <2>6 DEF Insert, s
    <3>2. l.nodes[q[1]] \in Node /\ q[1] \in Slots /\ q[1] # id
      BY <1>1, <1>3
    <3>3. SplicedInto(l, n, q, m, id, v, InsertBeforeHead(l, id, v))
      BY <1>1, <1>3, <2>1, <2>6, <3>2 DEF SplicedInto, InsertBeforeHead
    <3>4. QED
      BY <3>1, <3>3
  <2>7. CASE m > 1 /\ m = n
    <3>1. Insert(l, id, v, hint) = InsertAfterTail(l, id, v)
      BY <2>1, <2>4, <2>7 DEF Insert, s
    <3>2. l.nodes[q[n]] \in Node /\ q[n] \in Slots /\ q[n] # id
      BY <1>1, <1>3
    <3>3. SplicedInto(l, n, q, m, id, v, InsertAfterTail(l, id, v))
      BY <1>1, <1>3, <2>1, <2>7, <3>2 DEF SplicedInto, InsertAfterTail
    <3>4. QED
      BY <3>1, <3>3
  <2>8. CASE m > 0 /\ (m < n \/ m = 1)
    <3>1. Insert(l, id, v, hint) = InsertAfter(l, id, v, s)
      BY <2>1, <2>4, <2>8 DEF Insert, s
    <3>2. s = q[m] /\ s \in Ids /\ s # id
      BY <1>1, <2>2, <2>8
    <3>3. CASE m < n
      <4>1. /\ l.nodes[s].next = q[m + 1] /\ q[m + 1] \in Ids
            /\ q[m + 1] # id /\ q[m + 1] # q[m] /\ q[m + 1] # 0
        <5>1. m + 1 \in 1 .. n /\ m \in 1 .. n /\ c = m /\ c # n
          BY <2>8, <3>3
        <5>2. QED
          BY <1>1, <2>3, <2>5, <5>1
      <4> DEFINE next == q[m + 1]
                 nodes == [l.nodes EXCEPT ![s].next = id, ![next].prev = id,
                                          ![id] = [value |-> v, prev |-> s, next |-> next]]
      <4>2. InsertAfter(l, id, v, s) = [head |-> l.head, tail |-> l.tail, nodes |-> nodes]
        BY <4>1 DEF InsertAfter
      <4>3. /\ nodes[id] = [value |-> v, prev |-> s, next |-> next]
            /\ \A i \in Ids \ {id} :
                 /\ nodes[i].value = l.nodes[i].value
                 /\ nodes[i].next = IF i = s THEN id ELSE l.nodes[i].next
                 /\ nodes[i].prev = IF i = next THEN id ELSE l.nodes[i].prev
        <5> HIDE DEF next
        <5> QED BY <1>1, <3>2, <4>1 DEF next
      <4> HIDE DEF nodes
      <4>4. SplicedInto(l, n, q, m, id, v, InsertAfter(l, id, v, s))
        BY <2>8, <3>2, <3>3, <4>2, <4>3 DEF SplicedInto
      <4>5. QED
        BY <3>1, <4>4
    <3>4. CASE m = 1 /\ n = 1
      <4>1. l.nodes[s].next = 0 /\ s = l.head
        BY <2>4, <2>5, <3>4
      <4> DEFINE nodes == [l.nodes EXCEPT ![s].next = id, ![0].prev = @,
                                          ![id] = [value |-> v, prev |-> s, next |-> 0]]
      <4>2. InsertAfter(l, id, v, s) = [head |-> l.head, tail |-> id, nodes |-> nodes]
        BY <4>1 DEF InsertAfter
      <4>3. /\ nodes[id] = [value |-> v, prev |-> s, next |-> 0]
            /\ \A i \in Ids \ {id} :
                 /\ nodes[i].value = l.nodes[i].value
                 /\ nodes[i].next = IF i = s THEN id ELSE l.nodes[i].next
                 /\ nodes[i].prev = l.nodes[i].prev
        BY <1>1, <3>2
      <4> HIDE DEF nodes
      <4>4. SplicedInto(l, n, q, m, id, v, InsertAfter(l, id, v, s))
        BY <3>2, <3>4, <4>2, <4>3 DEF SplicedInto
      <4>5. QED
        BY <3>1, <4>4
    <3>5. QED
      BY <2>8, <3>3, <3>4
  <2>9. QED
    BY <2>6, <2>7, <2>8, <1>3
<1>4. QED
  BY <1>2, <1>3

\* A list into which a node is linked at the place of its value is linked.
LEMMA SplicedIsLinked ==
  ASSUME NEW l \in ListType, NEW n \in Nat, NEW q, Linked(l, n, q),
         NEW v \in Nat, NEW m \in 0 .. n, PlaceOf(l, n, q, v, m),
         NEW id \in Ids, \A k \in 1 .. n : q[k] # id,
         NEW k \in ListType, SplicedInto(l, n, q, m, id, v, k)
  PROVE  /\ Linked(k, n + 1, WithIdAt(n, q, m, id))
         /\ v > 0 /\ Positive(l, n, q) => Positive(k, n + 1, WithIdAt(n, q, m, id))
<1> DEFINE r == WithIdAt(n, q, m, id)
<1>1. /\ \A i \in 1 .. n : q[i] \in Ids /\ q[i] \in Ids \ {id}
      /\ \A i, j \in 1 .. n : q[i] = q[j] => i = j
  BY DEF Linked
<1>2. /\ \A i \in 1 .. m : r[i] = q[i]
      /\ r[m + 1] = id
      /\ \A i \in m + 2 .. n + 1 : r[i] = q[i - 1] /\ i - 1 \in 1 .. n
  BY DEF WithIdAt
<1>3. \A i \in 1 .. n + 1 : i \in 1 .. m \/ i = m + 1 \/ i \in m + 2 .. n + 1
  OBVIOUS
<1>4. r \in [1 .. n + 1 -> Ids]
  BY <1>1 DEF WithIdAt
<1> HIDE DEF r
<1>5. \A i, j \in 1 .. n + 1 : r[i] = r[j] => i = j
  <2> SUFFICES ASSUME NEW i \in 1 .. n + 1, NEW j \in 1 .. n + 1, r[i] = r[j]
               PROVE  i = j
    OBVIOUS
  <2>1. CASE i = m + 1 \/ j = m + 1
    BY <1>1, <1>2, <1>3, <2>1
  <2>2. CASE i # m + 1 /\ j # m + 1
    <3>1. PICK i0 \in 1 .. n : r[i] = q[i0] /\ i = IF i0 <= m THEN i0 ELSE i0 + 1
      BY <1>2, <1>3, <2>2
    <3>2. PICK j0 \in 1 .. n : r[j] = q[j0] /\ j = IF j0 <= m THEN j0 ELSE j0 + 1
      BY <1>2, <1>3, <2>2
    <3>3. QED
      BY <1>1, <3>1, <3>2
  <2>3. QED
    BY <2>1, <2>2
<1>6. k.head = r[1] /\ k.tail = r[n + 1]
  <2>1. k.head = r[1]
    <3>1. n > 0 => l.head = q[1]
      BY DEF Linked
    <3>2. QED
      BY <1>2, <3>1 DEF SplicedInto
  <2>2. k.tail = r[n + 1]
    <3>1. n > 0 => l.tail = q[n]
      BY DEF Linked
    <3>2. m # n => n + 1 \in m + 2 .. n + 1
      OBVIOUS
    <3>3. QED
      BY <1>2, <3>1, <3>2 DEF SplicedInto
  <2>3. QED
    BY <2>1, <2>2
<1>7. \A i \in 1 .. n + 1 : k.nodes[r[i]].prev = IF i = 1 THEN 0 ELSE r[i - 1]
  <2> SUFFICES ASSUME NEW i \in 1 .. n + 1
               PROVE  k.nodes[r[i]].prev = IF i = 1 THEN 0 ELSE r[i - 1]
    OBVIOUS
  <2>1. CASE i = m + 1
    <3>1. k.nodes[id].prev = IF m = 0 THEN 0 ELSE q[m]
      BY DEF SplicedInto
    <3>2. QED
      BY <1>2, <2>1, <3>1
  <2>2. CASE i \in 1 .. m
    <3>1. /\ k.nodes[q[i]].prev = IF m < n /\ q[i] = q[m + 1] THEN id ELSE l.nodes[q[i]].prev
          /\ l.nodes[q[i]].prev = IF i = 1 THEN 0 ELSE q[i - 1]
      BY <1>1, <2>2 DEF SplicedInto, Linked
    <3>2. m < n => q[i] # q[m + 1]
      BY <1>1, <2>2
    <3>3. i # 1 => i - 1 \in 1 .. m
      BY <2>2
    <3>4. QED
      BY <1>2, <2>2, <3>1, <3>2, <3>3
  <2>3. CASE i \in m + 2 .. n + 1
    <3>1. i - 1 \in 1 .. n /\ r[i] = q[i - 1] /\ m < n /\ i # 1 /\ m + 1 \in 1 .. n
      BY <1>2, <2>3
    <3>2. /\ k.nodes[q[i - 1]].prev = IF q[i - 1] = q[m + 1] THEN id ELSE l.nodes[q[i - 1]].prev
          /\ l.nodes[q[i - 1]].prev = IF i - 1 = 1 THEN 0 ELSE q[i - 1 - 1]
      BY <1>1, <3>1 DEF SplicedInto, Linked
    <3>3. CASE i = m + 2
      BY <1>2, <3>1, <3>2, <3>3
    <3>4. CASE i # m + 2
      <4>1. i - 1 # m + 1 /\ i - 1 \in m + 2 .. n + 1 /\ i - 1 # 1
        BY <2>3, <3>4
      <4>2. q[i - 1] # q[m + 1] /\ r[i - 1] = q[i - 1 - 1]
        BY <1>1, <1>2, <3>1, <4>1
      <4>3. QED
        BY <3>1, <3>2, <4>1, <4>2
    <3>5. QED
      BY <3>3, <3>4
  <2>4. QED
    BY <1>3, <2>1, <2>2, <2>3
<1>8. \A i \in 1 .. n + 1 : k.nodes[r[i]].next = IF i = n + 1 THEN 0 ELSE r[i + 1]
  <2> SUFFICES ASSUME NEW i \in 1 .. n + 1
               PROVE  k.nodes[r[i]].next = IF i = n + 1 THEN 0 ELSE r[i + 1]
    OBVIOUS
  <2>1. CASE i = m + 1
    <3>1. k.nodes[id].next = IF m = n THEN 0 ELSE q[m + 1]
      BY DEF SplicedInto
    <3>2. m # n => m + 2 \in m + 2 .. n + 1
      OBVIOUS
    <3>3. QED
      BY <1>2, <2>1, <3>1, <3>2
  <2>2. CASE i \in 1 .. m
    <3>1. i \in 1 .. n /\ m > 0
      BY <2>2
    <3>2. q[i] \in Ids \ {id}
      BY <3>1 DEF Linked
    <3>3. k.nodes[q[i]].next = IF q[i] = q[m] THEN id ELSE l.nodes[q[i]].next
      BY <3>1, <3>2 DEF SplicedInto
    <3>4. l.nodes[q[i]].next = IF i = n THEN 0 ELSE q[i + 1]
      BY <3>1 DEF Linked
    <3>5. /\ k.nodes[q[i]].next = IF q[i] = q[m] THEN id ELSE l.nodes[q[i]].next
          /\ l.nodes[q[i]].next = IF i = n THEN 0 ELSE q[i + 1]
      BY <3>3, <3>4
    <3>6. CASE i = m
      BY <1>2, <2>2, <3>5, <3>6
    <3>7. CASE i # m
      <4>1. q[i] # q[m] /\ i + 1 \in 1 .. m /\ i # n
        BY <1>1, <2>2, <3>7
      <4>2. QED
        BY <1>2, <2>2, <3>5, <4>1
    <3>8. QED
      BY <3>6, <3>7
  <2>3. CASE i \in m + 2 .. n + 1
    <3>1. i - 1 \in 1 .. n /\ r[i] = q[i - 1]
      BY <1>2, <2>3
    <3>2. m > 0 => q[i - 1] # q[m]
      BY <1>1, <2>3, <3>1
    <3>3. /\ k.nodes[q[i - 1]].next = l.nodes[q[i - 1]].next
          /\ l.nodes[q[i - 1]].next = IF i - 1 = n THEN 0 ELSE q[i - 1 + 1]
      BY <1>1, <3>1, <3>2 DEF SplicedInto, Linked
    <3>4. i # n + 1 => i + 1 \in m + 2 .. n + 1 /\ i + 1 - 1 = i
      BY <2>3
    <3>5. QED
      BY <1>2, <3>1, <3>3, <3>4
  <2>4. QED
    BY <1>3, <2>1, <2>2, <2>3
<1>9. \A i \in 1 .. n + 1 :
        k.nodes[r[i]].value = IF i = m + 1 THEN v ELSE IF i <= m THEN l.nodes[q[i]].value
                                                       ELSE l.nodes[q[i - 1]].value
  BY <1>1, <1>2, <1>3 DEF SplicedInto
<1>10. v > 0 /\ Positive(l, n, q) => Positive(k, n + 1, r)
  <2>1. SUFFICES ASSUME v > 0, Positive(l, n, q)
                 PROVE  \A i \in 1 .. n + 1 : k.nodes[r[i]].value > 0
    BY DEF Positive
  <2>2. \A i \in 1 .. n : l.nodes[q[i]].value > 0
    BY <2>1 DEF Positive
  <2>3. QED
    BY <1>2, <1>3, <1>9, <2>1, <2>2
<1>11. \A i, j \in 1 .. n + 1 : i <= j => k.nodes[r[i]].value <= k.nodes[r[j]].value
  <2>1. \A i, j \in 1 .. n : i <= j => l.nodes[q[i]].value <= l.nodes[q[j]].value
    BY DEF Linked
  <2>2. \A i \in 1 .. n : l.nodes[q[i]].value \in Nat /\ (l.nodes[q[i]].value < v <=> i <= m)
    <3>1. \A i \in 1 .. n : q[i] \in Slots
      BY <1>1, MaxIdAssumption DEF Ids, Slots
    <3>2. QED
      BY <3>1, NodeType DEF PlaceOf
  <2> SUFFICES ASSUME NEW i \in 1 .. n + 1, NEW j \in 1 .. n + 1, i <= j
               PROVE  k.nodes[r[i]].value <= k.nodes[r[j]].value
    OBVIOUS
  <2>3. CASE i = m + 1 \/ j = m + 1
    <3>1. i = m + 1 \/ i <= m => i = m + 1 \/ i \in 1 .. n
      OBVIOUS
    <3>2. j # m + 1 /\ i = m + 1 => j - 1 \in 1 .. n /\ ~(j - 1 <= m) /\ ~(j <= m)
      OBVIOUS
    <3>3. QED
      BY <1>9, <2>2, <2>3, <3>1, <3>2
  <2>4. CASE i # m + 1 /\ j # m + 1
    <3> DEFINE i0 == IF i <= m THEN i ELSE i - 1
               j0 == IF j <= m THEN j ELSE j - 1
    <3>1. i0 \in 1 .. n /\ j0 \in 1 .. n /\ i0 <= j0
      BY <2>4
    <3>2. k.nodes[r[i]].value = l.nodes[q[i0]].value /\ k.nodes[r[j]].value = l.nodes[q[j0]].value
      BY <1>9, <2>4
    <3> HIDE DEF i0, j0
    <3>3. QED
      BY <2>1, <3>1, <3>2
  <2>5. QED
    BY <2>3, <2>4
<1>12. ASSUME NEW s \in Ids, \A i \in 1 .. n + 1 : r[i] # s
       PROVE  k.nodes[s] = NullNode
  <2>1. m + 1 \in 1 .. n + 1 /\ s # id
    BY <1>2, <1>12
  <2>2. \A i \in 1 .. n : q[i] # s
    <3>1. \A i \in 1 .. n : i \in 1 .. m \/ (i + 1 \in m + 2 .. n + 1 /\ i + 1 - 1 = i)
      OBVIOUS
    <3>2. QED
      BY <1>2, <1>12, <3>1
  <2>3. l.nodes[s] = NullNode
    BY <2>2 DEF Linked
  <2>4. (m > 0 => q[m] # s) /\ (m < n => q[m + 1] # s)
    BY <2>2
  <2>5. /\ k.nodes[s].value = 0 /\ k.nodes[s].prev = 0 /\ k.nodes[s].next = 0
    BY <2>1, <2>3, <2>4 DEF SplicedInto, NullNode
  <2>6. k.nodes[s] \in [value : Nat, prev : Slots, next : Slots]
    BY NodeType, MaxIdAssumption DEF Ids, Slots
  <2>7. QED
    BY <2>5, <2>6 DEF NullNode
<1>13. QED
  BY <1>4, <1>5, <1>6, <1>7, <1>8, <1>10, <1>11, <1>12 DEF Linked, r

-----------------------------------------------------------------------------
(* Removing. *)

\* List k is list l with id, the j-th of the nodes q[1] .. q[n], taken out.
TakenOut(l, n, q, j, id, k) ==
  /\ k.head = IF j = 1 THEN IF n = 1 THEN 0 ELSE q[2] ELSE l.head
  /\ k.tail = IF j = n THEN IF n = 1 THEN 0 ELSE q[n - 1] ELSE l.tail
  /\ k.nodes[id] = NullNode
  /\ \A s \in Ids \ {id} :
       /\ k.nodes[s].value = l.nodes[s].value
       /\ k.nodes[s].next = IF j > 1 /\ s = q[j - 1] THEN IF j = n THEN 0 ELSE q[j + 1]
                                                     ELSE l.nodes[s].next
       /\ k.nodes[s].prev = IF j < n /\ s = q[j + 1] THEN IF j = 1 THEN 0 ELSE q[j - 1]
                                                     ELSE l.nodes[s].prev

\* _remove takes the node out, and writes to no other node but its neighbours.
LEMMA UnlinkTakesOut ==
  ASSUME NEW l \in ListType, NEW n \in Nat, NEW q, Linked(l, n, q), NEW j \in 1 .. n
  PROVE  TakenOut(l, n, q, j, q[j], Unlink(l, q[j]))
<1> DEFINE Node == [value : Nat, prev : Slots, next : Slots]
           id == q[j]
           p == l.nodes[id].prev
           x == l.nodes[id].next
           fromPrev == IF p = 0 THEN [l.nodes EXCEPT ![x].prev = 0]
                                ELSE [l.nodes EXCEPT ![p].next = x, ![x].prev = p]
           fromNext == IF x = 0 THEN [fromPrev EXCEPT ![p].next = 0]
                                ELSE [fromPrev EXCEPT ![x].prev = p, ![p].next = x]
           nodes == [fromNext EXCEPT ![id] = NullNode]
<1>1. /\ l.nodes \in [Slots -> Node]
      /\ \A k \in 1 .. n : q[k] \in Ids
      /\ \A i, k \in 1 .. n : q[i] = q[k] => i = k
      /\ \A i \in Ids : i \in Slots /\ i # 0
      /\ 0 \in Slots
  <2>1. l.nodes \in [Slots -> Node]
    BY DEF ListType
  <2>2. /\ \A k \in 1 .. n : q[k] \in Ids
        /\ \A i, k \in 1 .. n : q[i] = q[k] => i = k
    BY DEF Linked
  <2>3. QED
    BY <2>1, <2>2, MaxIdAssumption DEF Ids, Slots
<1>2. /\ p = IF j = 1 THEN 0 ELSE q[j - 1]
      /\ x = IF j = n THEN 0 ELSE q[j + 1]
  BY DEF Linked
<1>3. /\ j # 1 => p \in Ids /\ p # id
      /\ j # n => x \in Ids /\ x # id
      /\ j = 1 => p = 0
      /\ j = n => x = 0
      /\ id \in Ids
      /\ j # 1 /\ j # n => p # x
  <2>1. j # 1 => j - 1 \in 1 .. n
    OBVIOUS
  <2>2. j # n => j + 1 \in 1 .. n
    OBVIOUS
  <2>3. QED
    BY <1>1, <1>2, <2>1, <2>2
<1>4. Unlink(l, id) = [head  |-> IF p = 0 THEN x ELSE l.head,
                       tail  |-> IF x = 0 THEN p ELSE l.tail,
                       nodes |-> nodes]
  BY DEF Unlink
<1> HIDE DEF p, x, id
<1>5. /\ fromPrev \in [Slots -> Node]
      /\ \A s \in Ids : /\ fromPrev[s].value = l.nodes[s].value
                        /\ fromPrev[s].next = IF s = p THEN x ELSE l.nodes[s].next
                        /\ fromPrev[s].prev = IF s = x THEN p ELSE l.nodes[s].prev
  <2>1. p \in Slots /\ x \in Slots
    BY <1>1, <1>3
  <2>2. CASE p = 0
    BY <1>1, <2>1, <2>2
  <2>3. CASE p # 0
    BY <1>1, <1>3, <2>1, <2>3
  <2>4. QED
    BY <2>2, <2>3
<1> HIDE DEF fromPrev
<1>6. /\ fromNext \in [Slots -> Node]
      /\ \A s \in Ids : /\ fromNext[s].value = l.nodes[s].value
                        /\ fromNext[s].next = IF s = p THEN x ELSE l.nodes[s].next
                        /\ fromNext[s].prev = IF s = x THEN p ELSE l.nodes[s].prev
  <2>1. p \in Slots /\ x \in Slots
    BY <1>1, <1>3
  <2>2. CASE x = 0
    BY <1>1, <1>5, <2>1, <2>2
  <2>3. CASE x # 0
    <3>1. fromNext = [fromPrev EXCEPT ![x].prev = p, ![p].next = x]
      BY <2>3
    <3>2. p # 0 => p \in Ids
      BY <1>3
    <3>3. p # x
      BY <1>3, <2>3
    <3> HIDE DEF fromNext
    <3>4. fromNext \in [Slots -> Node]
      BY <1>5, <2>1, <3>1
    <3>5. ASSUME NEW s \in Ids
          PROVE  /\ fromNext[s].value = fromPrev[s].value
                 /\ fromNext[s].next = IF s = p THEN x ELSE fromPrev[s].next
                 /\ fromNext[s].prev = IF s = x THEN p ELSE fromPrev[s].prev
      <4>1. s \in Slots
        BY <1>1
      <4>2. QED
        BY <1>5, <2>1, <3>1, <3>3, <4>1
    <3>6. QED
      BY <1>5, <3>4, <3>5
  <2>4. QED
    BY <2>2, <2>3
<1> HIDE DEF fromNext
<1>7. /\ nodes[id] = NullNode
      /\ \A s \in Ids \ {id} : nodes[s] = fromNext[s]
  BY <1>1, <1>3, <1>6
<1> HIDE DEF nodes
<1> DEFINE k == Unlink(l, id)
<1>8. /\ k.head = IF p = 0 THEN x ELSE l.head
      /\ k.tail = IF x = 0 THEN p ELSE l.tail
      /\ k.nodes = nodes
  BY <1>4
<1> HIDE DEF k
<1>9. /\ k.head = IF j = 1 THEN IF n = 1 THEN 0 ELSE q[2] ELSE l.head
      /\ k.tail = IF j = n THEN IF n = 1 THEN 0 ELSE q[n - 1] ELSE l.tail
  BY <1>1, <1>2, <1>3, <1>8
<1>10. ASSUME NEW s \in Ids \ {id}
       PROVE  /\ k.nodes[s].value = l.nodes[s].value
              /\ k.nodes[s].next = IF j > 1 /\ s = q[j - 1] THEN IF j = n THEN 0 ELSE q[j + 1]
                                                            ELSE l.nodes[s].next
              /\ k.nodes[s].prev = IF j < n /\ s = q[j + 1] THEN IF j = 1 THEN 0 ELSE q[j - 1]
                                                            ELSE l.nodes[s].prev
  <2>1. /\ k.nodes[s].value = l.nodes[s].value
        /\ k.nodes[s].next = IF s = p THEN x ELSE l.nodes[s].next
        /\ k.nodes[s].prev = IF s = x THEN p ELSE l.nodes[s].prev
    BY <1>6, <1>7, <1>8
  <2>2. s # 0
    BY <1>1
  <2>3. s = p <=> j > 1 /\ s = q[j - 1]
    BY <1>2, <2>2
  <2>4. s = x <=> j < n /\ s = q[j + 1]
    BY <1>2, <2>2
  <2>5. QED
    BY <1>2, <2>1, <2>3, <2>4
<1>11. QED
  BY <1>7, <1>8, <1>9, <1>10 DEF TakenOut, k, id

\* A list from which a node is taken out is linked.
LEMMA TakenOutIsLinked ==
  ASSUME NEW l \in ListType, NEW n \in Nat, NEW q, Linked(l, n, q), NEW j \in 1 .. n,
         NEW k \in ListType, TakenOut(l, n, q, j, q[j], k)
  PROVE  /\ Linked(k, n - 1, WithoutIdAt(n, q, j))
         /\ Positive(l, n, q) => Positive(k, n - 1, WithoutIdAt(n, q, j))
<1> DEFINE r == WithoutIdAt(n, q, j)
           id == q[j]
<1>1. /\ \A i \in 1 .. n : q[i] \in Ids
      /\ \A i, m \in 1 .. n : q[i] = q[m] => i = m
      /\ \A i \in 1 .. n : i # j => q[i] \in Ids \ {id}
  BY DEF Linked
<1>2. \A i \in 1 .. n - 1 :
        /\ i < j => r[i] = q[i] /\ i \in 1 .. n /\ r[i] # id
        /\ ~(i < j) => r[i] = q[i + 1] /\ i + 1 \in 1 .. n /\ r[i] # id
  BY <1>1 DEF WithoutIdAt
<1>3. r \in [1 .. n - 1 -> Ids]
  BY <1>1 DEF WithoutIdAt
<1> HIDE DEF r
<1>4. \A i, m \in 1 .. n - 1 : r[i] = r[m] => i = m
  <2> SUFFICES ASSUME NEW i \in 1 .. n - 1, NEW m \in 1 .. n - 1, r[i] = r[m]
               PROVE  i = m
    OBVIOUS
  <2> DEFINE i0 == IF i < j THEN i ELSE i + 1
             m0 == IF m < j THEN m ELSE m + 1
  <2>1. i0 \in 1 .. n /\ m0 \in 1 .. n /\ r[i] = q[i0] /\ r[m] = q[m0]
    BY <1>2
  <2>2. i0 = m0
    <3> HIDE DEF i0, m0
    <3> QED BY <1>1, <2>1
  <2>3. QED
    BY <2>2
<1>5. n - 1 = 0 => k.head = 0 /\ k.tail = 0
  BY DEF TakenOut
<1>6. n - 1 > 0 => k.head = r[1] /\ k.tail = r[n - 1]
  <2>1. l.head = q[1] /\ l.tail = q[n]
    BY DEF Linked
  <2>2. QED
    BY <1>2, <2>1 DEF TakenOut
<1>7. \A i \in 1 .. n - 1 : k.nodes[r[i]].prev = IF i = 1 THEN 0 ELSE r[i - 1]
  <2> SUFFICES ASSUME NEW i \in 1 .. n - 1
               PROVE  k.nodes[r[i]].prev = IF i = 1 THEN 0 ELSE r[i - 1]
    OBVIOUS
  <2>1. CASE i < j
    <3>1. /\ k.nodes[q[i]].prev = IF j < n /\ q[i] = q[j + 1] THEN IF j = 1 THEN 0 ELSE q[j - 1]
                                                              ELSE l.nodes[q[i]].prev
          /\ l.nodes[q[i]].prev = IF i = 1 THEN 0 ELSE q[i - 1]
      BY <1>1, <1>2, <2>1 DEF TakenOut, Linked
    <3>2. j < n => q[i] # q[j + 1]
      BY <1>1, <2>1
    <3>3. i # 1 => i - 1 \in 1 .. n - 1 /\ i - 1 < j
      BY <2>1
    <3>4. QED
      BY <1>2, <2>1, <3>1, <3>2, <3>3
  <2>2. CASE i = j
    <3>1. i + 1 \in 1 .. n /\ r[i] = q[i + 1] /\ j < n
      BY <1>2, <2>2
    <3>2. k.nodes[q[i + 1]].prev = IF j = 1 THEN 0 ELSE q[j - 1]
      BY <1>1, <2>2, <3>1 DEF TakenOut
    <3>3. i # 1 => i - 1 \in 1 .. n - 1 /\ i - 1 < j
      BY <2>2
    <3>4. QED
      BY <1>2, <2>2, <3>1, <3>2, <3>3
  <2>3. CASE i > j
    <3>1. i + 1 \in 1 .. n /\ r[i] = q[i + 1] /\ i + 1 # j
      BY <1>2, <2>3
    <3>2. /\ k.nodes[q[i + 1]].prev = IF j < n /\ q[i + 1] = q[j + 1]
                                        THEN IF j = 1 THEN 0 ELSE q[j - 1]
                                        ELSE l.nodes[q[i + 1]].prev
          /\ l.nodes[q[i + 1]].prev = IF i + 1 = 1 THEN 0 ELSE q[i + 1 - 1]
      BY <1>1, <3>1 DEF TakenOut, Linked
    <3>3. j < n => q[i + 1] # q[j + 1]
      BY <1>1, <2>3, <3>1
    <3>4. i # 1 /\ i - 1 \in 1 .. n - 1 /\ ~(i - 1 < j) /\ i + 1 - 1 = i - 1 + 1
      BY <2>3
    <3>5. QED
      BY <1>2, <3>1, <3>2, <3>3, <3>4
  <2>4. QED
    BY <2>1, <2>2, <2>3
<1>8. \A i \in 1 .. n - 1 : k.nodes[r[i]].next = IF i = n - 1 THEN 0 ELSE r[i + 1]
  <2> SUFFICES ASSUME NEW i \in 1 .. n - 1
               PROVE  k.nodes[r[i]].next = IF i = n - 1 THEN 0 ELSE r[i + 1]
    OBVIOUS
  <2>1. CASE i < j - 1
    <3>1. /\ k.nodes[q[i]].next = IF j > 1 /\ q[i] = q[j - 1] THEN IF j = n THEN 0 ELSE q[j + 1]
                                                              ELSE l.nodes[q[i]].next
          /\ l.nodes[q[i]].next = IF i = n THEN 0 ELSE q[i + 1]
      BY <1>1, <1>2, <2>1 DEF TakenOut, Linked
    <3>2. q[i] # q[j - 1]
      BY <1>1, <2>1
    <3>3. i # n - 1 /\ i + 1 \in 1 .. n - 1 /\ i + 1 < j /\ i # n /\ i < j
      BY <2>1
    <3>4. QED
      BY <1>2, <3>1, <3>2, <3>3
  <2>2. CASE i = j - 1
    <3>1. r[i] = q[i] /\ q[i] \in Ids \ {id} /\ j > 1
      BY <1>1, <1>2, <2>2
    <3>2. k.nodes[q[i]].next = IF j = n THEN 0 ELSE q[j + 1]
      BY <2>2, <3>1 DEF TakenOut
    <3>3. i # n - 1 => i + 1 \in 1 .. n - 1 /\ ~(i + 1 < j) /\ i + 1 = j /\ j # n
      BY <2>2
    <3>4. QED
      BY <1>2, <2>2, <3>1, <3>2, <3>3
  <2>3. CASE i > j - 1
    <3>1. i + 1 \in 1 .. n /\ r[i] = q[i + 1] /\ i + 1 # j
      BY <1>2, <2>3
    <3>2. /\ k.nodes[q[i + 1]].next = IF j > 1 /\ q[i + 1] = q[j - 1]
                                        THEN IF j = n THEN 0 ELSE q[j + 1]
                                        ELSE l.nodes[q[i + 1]].next
          /\ l.nodes[q[i + 1]].next = IF i + 1 = n THEN 0 ELSE q[i + 1 + 1]
      BY <1>1, <3>1 DEF TakenOut, Linked
    <3>3. j > 1 => q[i + 1] # q[j - 1]
      BY <1>1, <2>3, <3>1
    <3>4. i # n - 1 => i + 1 \in 1 .. n - 1 /\ ~(i + 1 < j)
      BY <2>3
    <3>5. QED
      BY <1>2, <3>1, <3>2, <3>3, <3>4
  <2>4. QED
    BY <2>1, <2>2, <2>3
<1>9. \A i \in 1 .. n - 1 : k.nodes[r[i]].value = l.nodes[r[i]].value
  BY <1>2, <1>3 DEF TakenOut
<1>10. Positive(l, n, q) => Positive(k, n - 1, r)
  <2>1. SUFFICES ASSUME Positive(l, n, q)
                 PROVE  \A i \in 1 .. n - 1 : k.nodes[r[i]].value > 0
    BY DEF Positive
  <2>2. \A i \in 1 .. n : l.nodes[q[i]].value > 0
    BY <2>1 DEF Positive
  <2>3. QED
    BY <1>2, <1>9, <2>2
<1>11. \A i, m \in 1 .. n - 1 : i <= m => k.nodes[r[i]].value <= k.nodes[r[m]].value
  <2>1. \A i, m \in 1 .. n : i <= m => l.nodes[q[i]].value <= l.nodes[q[m]].value
    BY DEF Linked
  <2> SUFFICES ASSUME NEW i \in 1 .. n - 1, NEW m \in 1 .. n - 1, i <= m
               PROVE  k.nodes[r[i]].value <= k.nodes[r[m]].value
    OBVIOUS
  <2> DEFINE i0 == IF i < j THEN i ELSE i + 1
             m0 == IF m < j THEN m ELSE m + 1
  <2>2. i0 \in 1 .. n /\ m0 \in 1 .. n /\ i0 <= m0 /\ r[i] = q[i0] /\ r[m] = q[m0]
    BY <1>2
  <2> HIDE DEF i0, m0
  <2>3. QED
    BY <1>9, <2>1, <2>2
<1>12. ASSUME NEW s \in Ids, \A i \in 1 .. n - 1 : r[i] # s
       PROVE  k.nodes[s] = NullNode
  <2>1. CASE s = id
    BY <2>1 DEF TakenOut
  <2>2. CASE s # id
    <3>1. ASSUME NEW i \in 1 .. n
          PROVE  q[i] # s
      <4>1. CASE i < j
        <5>1. i \in 1 .. n - 1
          BY <4>1
        <5>2. QED
          BY <1>2, <1>12, <4>1, <5>1
      <4>2. CASE i = j
        BY <2>2, <4>2
      <4>3. CASE i > j
        <5>1. i - 1 \in 1 .. n - 1 /\ ~(i - 1 < j) /\ i - 1 + 1 = i
          BY <4>3
        <5>2. QED
          BY <1>2, <1>12, <5>1
      <4>4. QED
        BY <4>1, <4>2, <4>3
    <3>2. l.nodes[s] = NullNode
      BY <3>1 DEF Linked
    <3>3. (j > 1 => q[j - 1] # s) /\ (j < n => q[j + 1] # s)
      BY <3>1
    <3>4. /\ k.nodes[s].value = 0 /\ k.nodes[s].prev = 0 /\ k.nodes[s].next = 0
      BY <2>2, <3>2, <3>3 DEF TakenOut, NullNode
    <3>5. k.nodes[s] \in [value : Nat, prev : Slots, next : Slots]
      BY NodeType, MaxIdAssumption DEF Ids, Slots
    <3>6. QED
      BY <3>4, <3>5 DEF NullNode
  <2>3. QED
    BY <2>1, <2>2
<1> HIDE DEF id
<1>13. QED
  BY <1>3, <1>4, <1>5, <1>6, <1>7, <1>8, <1>10, <1>11, <1>12 DEF Linked, r

-----------------------------------------------------------------------------
(* Reading. *)

\* Following next from the head visits the nodes of a linked list in order, and
\* then the null slot.
LEMMA ReachOfLinked ==
  ASSUME NEW l \in ListType, NEW n \in Nat, NEW q, Linked(l, n, q),
         NEW k \in 0 .. MaxId + 1
  PROVE  Reach(l)[k] = IF k < n THEN q[k + 1] ELSE 0
<1> DEFINE step == [s \in Slots |-> IF s = 0 THEN 0 ELSE l.nodes[s].next]
           F(f) == [i \in 0 .. MaxId + 1 |->
                      IF i = 0 THEN l.head
                      ELSE IF f[i - 1] = 0 THEN 0 ELSE l.nodes[f[i - 1]].next]
           at == CHOOSE f : f = F(f)
<1>1. PICK bound \in Nat : bound = MaxId + 1
  BY MaxIdAssumption
<1>2. step \in [Slots -> Slots] /\ l.head \in Slots /\ 0 \in Slots
  <2>1. 0 \in Slots
    BY MaxIdAssumption DEF Slots
  <2>2. QED
    BY <2>1, NodeType
<1>3. PICK f \in [0 .. bound -> Slots] : f[0] = l.head /\ \A i \in 1 .. bound : f[i] = step[f[i - 1]]
  <2> HIDE DEF step, F, at
  <2> QED BY ONLY <1>2, bound \in Nat, IterationExists
<1>4. f = F(f)
  <2>1. \A i \in 0 .. bound : i # 0 => i \in 1 .. bound /\ i - 1 \in 0 .. bound /\ f[i - 1] \in Slots
    BY <1>1, <1>3
  <2>2. \A i \in 0 .. bound : f[i] = F(f)[i]
    BY <1>1, <1>3, <2>1
  <2>3. QED
    BY <1>1, <1>3, <2>2
<1>5. at = F(at)
  <2> HIDE DEF F
  <2> QED BY <1>4
<1> HIDE DEF at
<1>6. at[0] = l.head /\ \A i \in 1 .. bound :
         at[i] = IF at[i - 1] = 0 THEN 0 ELSE l.nodes[at[i - 1]].next
  BY <1>1, <1>5
<1> DEFINE G == {i \in 0 .. bound : at[i] = IF i < n THEN q[i + 1] ELSE 0}
<1>7. 0 \in G
  <2>1. l.head = IF 0 < n THEN q[1] ELSE 0
    BY DEF Linked
  <2>2. QED
    BY <1>6, <2>1
<1>8. ASSUME NEW i \in 1 .. bound, i - 1 \in G
      PROVE  i \in G
  <2>1. at[i - 1] = IF i - 1 < n THEN q[i - 1 + 1] ELSE 0
    BY <1>8
  <2>2. CASE i <= n
    <3>1. i \in 1 .. n /\ i - 1 + 1 = i /\ at[i - 1] = q[i]
      BY <2>1, <2>2
    <3>2. q[i] # 0 /\ l.nodes[q[i]].next = IF i = n THEN 0 ELSE q[i + 1]
      BY <3>1, MaxIdAssumption DEF Linked, Ids
    <3>3. QED
      BY <1>6, <2>2, <3>1, <3>2
  <2>3. CASE ~(i <= n)
    <3>1. at[i - 1] = 0
      BY <2>1, <2>3
    <3>2. QED
      BY <1>6, <2>3, <3>1
  <2>4. QED
    BY <2>2, <2>3
<1>9. \A i \in 0 .. bound : i \in G
  <2>1. \A i \in 1 .. bound : i - 1 \in G => i \in G
    BY <1>8
  <2> HIDE DEF G
  <2>2. QED
    BY <1>7, <2>1, IntervalInduction
<1>10. at[k] = IF k < n THEN q[k + 1] ELSE 0
  BY <1>1, <1>9
<1>11. QED
  BY <1>10 DEF Reach, at

\* The chain of a linked list is the sequence of its nodes.
LEMMA ChainOfLinked ==
  ASSUME NEW l \in ListType, NEW n \in Nat, NEW q, Linked(l, n, q)
  PROVE  /\ Chain(l) = q
         /\ Members(l) = {q[k] : k \in 1 .. n}
         /\ IsFiniteSet(Members(l)) /\ Cardinality(Members(l)) = n
<1>1. PICK at : at = Reach(l)
  OBVIOUS
<1>2. /\ q \in [1 .. n -> Ids]
      /\ \A i, j \in 1 .. n : q[i] = q[j] => i = j
      /\ \A k \in 1 .. n : q[k] \in Ids /\ q[k] # 0
      /\ n <= MaxId /\ MaxId \in Nat
  <2>1. q \in [1 .. n -> Ids] /\ \A i, j \in 1 .. n : q[i] = q[j] => i = j
    BY DEF Linked
  <2>2. n <= MaxId
    BY <2>1, RoomForNodes
  <2>3. \A id \in Ids : id # 0
    BY DEF Ids
  <2>4. QED
    BY <2>1, <2>2, <2>3, MaxIdAssumption
<1>3. \A k \in 0 .. MaxId : at[k] = IF k < n THEN q[k + 1] ELSE 0
  <2>1. \A k \in 0 .. MaxId + 1 : Reach(l)[k] = IF k < n THEN q[k + 1] ELSE 0
    BY ReachOfLinked
  <2>2. QED
    BY <1>1, <1>2, <2>1
<1>4. Cardinality({j \in 0 .. MaxId : at[j] # 0}) = n
  <2>1. {j \in 0 .. MaxId : at[j] # 0} = 0 .. n - 1
    <3>1. \A j \in 0 .. MaxId : at[j] # 0 <=> j < n
      BY <1>2, <1>3
    <3>2. QED
      BY <1>2, <3>1
  <2>2. 0 \in Int /\ n - 1 \in Int
    OBVIOUS
  <2>3. Cardinality(0 .. n - 1) = IF 0 > n - 1 THEN 0 ELSE n - 1 - 0 + 1
    BY <2>2, FS_Interval
  <2>4. Cardinality(0 .. n - 1) = n
    BY <2>3
  <2>5. QED
    BY <2>1, <2>4, Zenon
<1>5. Chain(l) = [k \in 1 .. n |-> at[k - 1]]
  BY <1>1, <1>4 DEF Chain
<1>6. \A k \in 1 .. n : at[k - 1] = q[k]
  <2>1. \A k \in 1 .. n : k - 1 \in 0 .. MaxId /\ k - 1 < n /\ k - 1 + 1 = k
    BY <1>2
  <2>2. QED
    BY <1>3, <2>1
<1>7. Chain(l) = q
  BY <1>2, <1>5, <1>6
<1>8. Members(l) = {q[k] : k \in 1 .. n}
  <2>1. Members(l) = {at[k] : k \in 0 .. MaxId} \ {0}
    BY <1>1 DEF Members
  <2>2. ASSUME NEW k \in 0 .. MaxId, at[k] # 0
        PROVE  at[k] \in {q[i] : i \in 1 .. n}
    <3>1. k + 1 \in 1 .. n /\ at[k] = q[k + 1]
      BY <1>2, <1>3, <2>2
    <3>2. QED
      BY <3>1
  <2>3. ASSUME NEW k \in 1 .. n
        PROVE  q[k] \in {at[i] : i \in 0 .. MaxId} \ {0}
    <3>1. k - 1 \in 0 .. MaxId /\ at[k - 1] = q[k] /\ q[k] # 0
      BY <1>2, <1>6
    <3>2. QED
      BY <3>1
  <2>4. QED
    BY <2>1, <2>2, <2>3
<1>9. IsFiniteSet(Members(l)) /\ Cardinality(Members(l)) = n
  <2>1. q \in Bijection(1 .. n, Members(l))
    <3>1. q \in [1 .. n -> Members(l)]
      BY <1>2, <1>8
    <3>2. q \in Injection(1 .. n, Members(l))
      BY <1>2, <3>1 DEF Injection, IsInjective
    <3>3. q \in Surjection(1 .. n, Members(l))
      BY <1>8, <3>1 DEF Surjection
    <3>4. QED
      BY <3>2, <3>3 DEF Bijection
  <2>2. 1 \in Int /\ n \in Int
    OBVIOUS
  <2>3. IsFiniteSet(1 .. n) /\ Cardinality(1 .. n) = IF 1 > n THEN 0 ELSE n - 1 + 1
    BY <2>2, FS_Interval
  <2>4. ExistsBijection(1 .. n, Members(l))
    BY <2>1 DEF ExistsBijection
  <2>5. IsFiniteSet(Members(l)) /\ Cardinality(Members(l)) = Cardinality(1 .. n)
    BY <2>3, <2>4, FS_Bijection
  <2>6. QED
    BY <2>3, <2>5
<1>10. QED
  BY <1>7, <1>8, <1>9

-----------------------------------------------------------------------------
(* Operations on a linked list, of whatever nodes. *)

\* The nodes of list k are r[1] .. r[m]: the nodes q[1] .. q[n] of list l, with or
\* without id, and but for id they have the values of l.
Relinked(l, n, q, id, k, m, r) ==
  /\ Linked(k, m, r)
  /\ \A i \in 1 .. m : r[i] = id \/ \E j \in 1 .. n : r[i] = q[j]
  /\ \A j \in 1 .. n : q[j] = id \/ \E i \in 1 .. m : r[i] = q[j]
  /\ \A s \in Ids \ {id} : k.nodes[s].value = l.nodes[s].value

\* Taking a node out of a linked list leaves the others linked, with their values.
LEMMA RemovedRelinks ==
  ASSUME NEW l \in ListType, NEW n \in Nat, NEW q, Linked(l, n, q), HeadSeen(l), NEW id \in Ids
  PROVE  \E m \in Nat : \E r :
           /\ Relinked(l, n, q, id, Removed(l, id), m, r)
           /\ \A i \in 1 .. m : r[i] # id
           /\ (\E j \in 1 .. n : q[j] = id) => m = n - 1
           /\ Positive(l, n, q) => Positive(Removed(l, id), m, r)
<1>1. CASE \A k \in 1 .. n : q[k] # id
  <2>1. Removed(l, id) = l
    BY <1>1, AbsenceOfLinked DEF Removed
  <2>2. QED
    BY <1>1, <2>1 DEF Relinked
<1>2. CASE \E j \in 1 .. n : q[j] = id
  <2>1. PICK j \in 1 .. n : q[j] = id
    BY <1>2
  <2> DEFINE k == Unlink(l, id)
             r == WithoutIdAt(n, q, j)
  <2>2. Removed(l, id) = k
    BY <2>1, AbsenceOfLinked DEF Removed
  <2>3. TakenOut(l, n, q, j, id, k)
    BY <2>1, UnlinkTakesOut
  <2>4. k \in ListType
    BY <2>2, RemovedType
  <2> HIDE DEF k
  <2>5. Linked(k, n - 1, r) /\ n - 1 \in Nat /\ (Positive(l, n, q) => Positive(k, n - 1, r))
    BY <2>1, <2>3, <2>4, TakenOutIsLinked
  <2>6. \A i, m \in 1 .. n : q[i] = q[m] => i = m
    BY DEF Linked
  <2>7. \A i \in 1 .. n - 1 : /\ i \in 1 .. n /\ i + 1 \in 1 .. n
                              /\ r[i] = IF i < j THEN q[i] ELSE q[i + 1]
    BY DEF WithoutIdAt
  <2> HIDE DEF r
  <2>8. \A i \in 1 .. n - 1 : r[i] # id /\ \E i0 \in 1 .. n : r[i] = q[i0]
    <3>1. TAKE i \in 1 .. n - 1
    <3>2. CASE i < j
      BY <2>1, <2>6, <2>7, <3>2
    <3>3. CASE ~(i < j)
      BY <2>1, <2>6, <2>7, <3>3
    <3>4. QED
      BY <3>2, <3>3
  <2>9. \A i0 \in 1 .. n : q[i0] = id \/ \E i \in 1 .. n - 1 : r[i] = q[i0]
    <3>1. TAKE i0 \in 1 .. n
    <3>2. CASE i0 < j
      <4>1. i0 \in 1 .. n - 1
        BY <3>2
      <4>2. QED
        BY <2>7, <3>2, <4>1
    <3>3. CASE i0 > j
      <4>1. i0 - 1 \in 1 .. n - 1 /\ ~(i0 - 1 < j) /\ (i0 - 1) + 1 = i0
        BY <3>3
      <4>2. QED
        BY <2>7, <4>1
    <3>4. QED
      BY <2>1, <3>2, <3>3
  <2>10. \A s \in Ids \ {id} : k.nodes[s].value = l.nodes[s].value
    BY <2>3 DEF TakenOut
  <2>11. QED
    BY <2>2, <2>5, <2>8, <2>9, <2>10 DEF Relinked
<1>3. QED
  BY <1>1, <1>2

\* A node moves to the place of its new value, or is linked in there.
LEMMA UpsertedRelinks ==
  ASSUME NEW l \in ListType, NEW n \in Nat, NEW q, Linked(l, n, q), HeadSeen(l), NEW id \in Ids,
         NEW v \in Nat, NEW hint \in Slots, NEW k, k = Upserted(l, id, v, hint)
  PROVE  \E m \in Nat : \E r :
           /\ Relinked(l, n, q, id, k, m, r)
           /\ k.nodes[id].value = v
           /\ \E i \in 1 .. m : r[i] = id
<1> DEFINE l1 == Removed(l, id)
<1>1. l1 \in ListType
  BY RemovedType
<1>2. PICK n1 \in Nat : \E q1 :
         Relinked(l, n, q, id, l1, n1, q1) /\ \A i \in 1 .. n1 : q1[i] # id
  BY RemovedRelinks
<1>3. PICK q1 : Relinked(l, n, q, id, l1, n1, q1) /\ \A i \in 1 .. n1 : q1[i] # id
  BY <1>2
<1>4. /\ Linked(l1, n1, q1)
      /\ \A i \in 1 .. n1 : q1[i] # id /\ \E j \in 1 .. n : q1[i] = q[j]
      /\ \A j \in 1 .. n : q[j] = id \/ \E i \in 1 .. n1 : q1[i] = q[j]
      /\ \A s \in Ids \ {id} : l1.nodes[s].value = l.nodes[s].value
  BY <1>3 DEF Relinked
<1>5. k = Insert(l1, id, v, hint)
  BY DEF Upserted
<1> HIDE DEF l1
<1>6. PICK m \in 0 .. n1 : PlaceOf(l1, n1, q1, v, m)
  BY <1>1, <1>4, PlaceExists
<1>7. SplicedInto(l1, n1, q1, m, id, v, k)
  BY <1>1, <1>4, <1>5, <1>6, InsertSplices
<1>8. k \in ListType
  BY <1>1, <1>5, InsertType
<1> DEFINE r == WithIdAt(n1, q1, m, id)
<1>9. Linked(k, n1 + 1, r)
  BY <1>1, <1>4, <1>6, <1>7, <1>8, SplicedIsLinked
<1>10. \A i \in 1 .. n1 + 1 : r[i] = IF i <= m THEN q1[i] ELSE IF i = m + 1 THEN id ELSE q1[i - 1]
  BY DEF WithIdAt
<1> HIDE DEF r
<1>11. \A i \in 1 .. n1 + 1 : r[i] = id \/ \E j \in 1 .. n : r[i] = q[j]
  <2>1. TAKE i \in 1 .. n1 + 1
  <2>2. CASE i <= m
    <3>1. i \in 1 .. n1
      BY <2>2
    <3>2. QED
      BY <1>4, <1>10, <2>2, <3>1
  <2>3. CASE ~(i <= m) /\ i # m + 1
    <3>1. i - 1 \in 1 .. n1
      BY <2>3
    <3>2. r[i] = q1[i - 1]
      BY <1>10, <2>3
    <3>3. QED
      BY <1>4, <3>1, <3>2
  <2>4. QED
    BY <1>10, <2>2, <2>3
<1>12. \A j \in 1 .. n : q[j] = id \/ \E i \in 1 .. n1 + 1 : r[i] = q[j]
  <2>1. ASSUME NEW i \in 1 .. n1
        PROVE  \E i0 \in 1 .. n1 + 1 : r[i0] = q1[i]
    <3>1. CASE i <= m
      <4>1. i \in 1 .. n1 + 1
        OBVIOUS
      <4>2. QED
        BY <1>10, <3>1, <4>1
    <3>2. CASE ~(i <= m)
      <4>1. i + 1 \in 1 .. n1 + 1 /\ ~(i + 1 <= m) /\ i + 1 # m + 1 /\ (i + 1) - 1 = i
        BY <3>2
      <4>2. QED
        BY <1>10, <4>1
    <3>3. QED
      BY <3>1, <3>2
  <2>2. TAKE j \in 1 .. n
  <2>3. CASE q[j] # id
    <3>1. PICK i \in 1 .. n1 : q1[i] = q[j]
      BY <1>4, <2>3
    <3>2. QED
      BY <2>1, <3>1
  <2>4. QED
    BY <2>3
<1>13. /\ k.nodes[id].value = v
       /\ \A s \in Ids \ {id} : k.nodes[s].value = l.nodes[s].value
  BY <1>4, <1>7 DEF SplicedInto
<1>14. m + 1 \in 1 .. n1 + 1 /\ r[m + 1] = id /\ n1 + 1 \in Nat
  <2>1. m + 1 \in 1 .. n1 + 1 /\ n1 + 1 \in Nat /\ ~(m + 1 <= m)
    OBVIOUS
  <2>2. QED
    BY <1>10, <2>1
<1>15. QED
  BY <1>9, <1>11, <1>12, <1>13, <1>14 DEF Relinked
=============================================================================
