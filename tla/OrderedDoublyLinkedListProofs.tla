-------------------- MODULE OrderedDoublyLinkedListProofs --------------------
(***************************************************************************)
(* The list contract keeps its nodes linked, takes any hint, and           *)
(* implements the sorted queue: for any number of nodes and any positive   *)
(* values.  Values are positive because the code takes the only node, if   *)
(* its value is 0, for a node that is not in the list.                     *)
(***************************************************************************)
EXTENDS OrderedDoublyLinkedList, OrderedListProofs, SequenceTheorems

\* The inductive invariant: the nodes are some sequence of ids.
LinkedInv ==
  /\ list \in ListType
  /\ \E n \in 0 .. MaxId : \E q \in [1 .. n -> Ids] : LinkedAs(list, n, q)

\* The entries of the nodes q[1] .. q[n].
QueueOf(l, n, q) == [k \in 1 .. n |-> [id |-> q[k], value |-> l.nodes[q[k]].value]]

Entry == [id : Ids, value : Nat]

\* What QueueOf yields is a sequence of entries, one per node.
LEMMA QueueOfType ==
  ASSUME NEW l \in ListType, NEW n \in Nat, NEW q, LinkedAs(l, n, q)
  PROVE  /\ QueueOf(l, n, q) \in Seq(Entry)
         /\ Len(QueueOf(l, n, q)) = n
         /\ \A k \in 1 .. n : /\ QueueOf(l, n, q)[k].id = q[k]
                              /\ QueueOf(l, n, q)[k].value = l.nodes[q[k]].value
<1>1. \A k \in 1 .. n : q[k] \in Ids /\ l.nodes[q[k]].value \in Nat
  <2>1. \A k \in 1 .. n : q[k] \in Ids /\ q[k] \in Slots
    BY MaxIdAssumption DEF LinkedAs, Linked, Positive, Ids, Slots
  <2>2. QED
    BY <2>1, NodeType
<1>2. QueueOf(l, n, q) \in [1 .. n -> Entry]
  BY <1>1 DEF QueueOf, Entry
<1>3. QueueOf(l, n, q) \in Seq(Entry)
  BY <1>2
<1>4. Len(QueueOf(l, n, q)) = n
  BY <1>2, <1>3
<1>5. QED
  BY <1>3, <1>4 DEF QueueOf

\* What a sequence without its j-th element is, element by element.
LEMMA CutOut ==
  ASSUME NEW S, NEW s \in Seq(S), NEW j \in 1 .. Len(s)
  PROVE  LET t == SubSeq(s, 1, j - 1) \o SubSeq(s, j + 1, Len(s))
         IN  /\ t \in Seq(S)
             /\ Len(t) = Len(s) - 1
             /\ \A k \in 1 .. Len(s) - 1 : t[k] = IF k < j THEN s[k] ELSE s[k + 1]
<1> DEFINE a == SubSeq(s, 1, j - 1)
           b == SubSeq(s, j + 1, Len(s))
<1>1. PICK n \in Nat : n = Len(s)
  BY LenProperties
<1>0. j \in 1 .. n
  BY <1>1
<1>2. \A k \in 1 .. n : s[k] \in S
  BY <1>1, ElementOfSeq
<1>3. /\ a \in Seq(S) /\ Len(a) = j - 1
      /\ \A k \in 1 .. j - 1 : a[k] = s[k]
  <2>1. 1 \in Int /\ j - 1 \in Int /\ \A k \in 1 .. j - 1 : s[k] \in S
    BY <1>1, <1>2
  <2>2. /\ a \in Seq(S) /\ Len(a) = IF 1 <= j - 1 THEN j - 1 - 1 + 1 ELSE 0
        /\ \A k \in 1 .. j - 1 - 1 + 1 : a[k] = s[1 + k - 1]
    BY <2>1, SubSeqProperties
  <2> HIDE DEF a
  <2>3. QED
    BY <1>1, <2>2
<1>4. /\ b \in Seq(S) /\ Len(b) = n - j
      /\ \A k \in 1 .. n - j : b[k] = s[j + k]
  <2>1. j + 1 \in Int /\ n \in Int /\ \A k \in j + 1 .. n : s[k] \in S
    BY <1>1, <1>2
  <2>2. /\ b \in Seq(S) /\ Len(b) = IF j + 1 <= n THEN n - (j + 1) + 1 ELSE 0
        /\ \A k \in 1 .. n - (j + 1) + 1 : b[k] = s[j + 1 + k - 1]
    BY <1>1, <2>1, SubSeqProperties
  <2> HIDE DEF b
  <2>3. QED
    BY <1>0, <2>2
<1> HIDE DEF a, b
<1>5. /\ a \o b \in Seq(S)
      /\ Len(a \o b) = n - 1
      /\ \A k \in 1 .. n - 1 : (a \o b)[k] = IF k <= j - 1 THEN a[k] ELSE b[k - (j - 1)]
  <2>1. /\ a \o b \in Seq(S)
        /\ Len(a \o b) = Len(a) + Len(b)
        /\ \A k \in 1 .. Len(a) + Len(b) :
             (a \o b)[k] = IF k <= Len(a) THEN a[k] ELSE b[k - Len(a)]
    BY <1>3, <1>4, ConcatProperties
  <2>2. Len(a) + Len(b) = n - 1
    BY <1>0, <1>3, <1>4
  <2>3. QED
    BY <1>3, <2>1, <2>2
<1>6. ASSUME NEW k \in 1 .. n - 1
      PROVE  (a \o b)[k] = IF k < j THEN s[k] ELSE s[k + 1]
  <2>2. CASE k < j
    BY <1>0, <1>3, <1>5, <2>2
  <2>3. CASE ~(k < j)
    <3>1. k - (j - 1) \in 1 .. n - j /\ j + (k - (j - 1)) = k + 1 /\ ~(k <= j - 1)
      BY <1>0, <2>3
    <3>2. QED
      BY <1>4, <1>5, <2>3, <3>1
  <2>4. QED
    BY <2>2, <2>3
<1>7. QED
  BY <1>1, <1>5, <1>6 DEF a, b

\* What a sequence with e after its m-th element is, element by element.
LEMMA PutIn ==
  ASSUME NEW S, NEW s \in Seq(S), NEW m \in 0 .. Len(s), NEW e \in S,
         NEW t, t = SubSeq(s, 1, m) \o <<e>> \o SubSeq(s, m + 1, Len(s))
  PROVE  /\ t \in Seq(S)
         /\ Len(t) = Len(s) + 1
         /\ \A k \in 1 .. Len(s) + 1 :
              t[k] = IF k <= m THEN s[k] ELSE IF k = m + 1 THEN e ELSE s[k - 1]
<1> DEFINE a == SubSeq(s, 1, m)
           b == SubSeq(s, m + 1, Len(s))
           c == a \o <<e>>
<1>1. PICK n \in Nat : n = Len(s)
  BY LenProperties
<1>0. m \in 0 .. n
  BY <1>1
<1>2. \A k \in 1 .. n : s[k] \in S
  BY <1>1, ElementOfSeq
<1>3. /\ a \in Seq(S) /\ Len(a) = m
      /\ \A k \in 1 .. m : a[k] = s[k]
  <2>1. 1 \in Int /\ m \in Int /\ \A k \in 1 .. m : s[k] \in S
    BY <1>1, <1>2
  <2>2. /\ a \in Seq(S) /\ Len(a) = IF 1 <= m THEN m - 1 + 1 ELSE 0
        /\ \A k \in 1 .. m - 1 + 1 : a[k] = s[1 + k - 1]
    BY <2>1, SubSeqProperties
  <2> HIDE DEF a
  <2>3. QED
    BY <1>1, <2>2
<1>4. /\ b \in Seq(S) /\ Len(b) = n - m
      /\ \A k \in 1 .. n - m : b[k] = s[m + k]
  <2>1. m + 1 \in Int /\ n \in Int /\ \A k \in m + 1 .. n : s[k] \in S
    BY <1>1, <1>2
  <2>2. /\ b \in Seq(S) /\ Len(b) = IF m + 1 <= n THEN n - (m + 1) + 1 ELSE 0
        /\ \A k \in 1 .. n - (m + 1) + 1 : b[k] = s[m + 1 + k - 1]
    BY <1>1, <2>1, SubSeqProperties
  <2> HIDE DEF b
  <2>3. QED
    BY <1>0, <2>2
<1> HIDE DEF a, b
<1>5. <<e>> \in Seq(S) /\ Len(<<e>>) = 1 /\ <<e>>[1] = e
  OBVIOUS
<1>6. /\ c \in Seq(S) /\ Len(c) = m + 1
      /\ \A k \in 1 .. m + 1 : c[k] = IF k <= m THEN a[k] ELSE e
  <2>1. /\ c \in Seq(S) /\ Len(c) = Len(a) + Len(<<e>>)
        /\ \A k \in 1 .. Len(a) + Len(<<e>>) : c[k] = IF k <= Len(a) THEN a[k] ELSE <<e>>[k - Len(a)]
    BY <1>3, <1>5, ConcatProperties
  <2> HIDE DEF c
  <2>2. QED
    BY <1>3, <1>5, <2>1
<1> HIDE DEF c
<1>7. /\ c \o b \in Seq(S)
      /\ Len(c \o b) = n + 1
      /\ \A k \in 1 .. n + 1 : (c \o b)[k] = IF k <= m + 1 THEN c[k] ELSE b[k - (m + 1)]
  <2>1. /\ c \o b \in Seq(S)
        /\ Len(c \o b) = Len(c) + Len(b)
        /\ \A k \in 1 .. Len(c) + Len(b) :
             (c \o b)[k] = IF k <= Len(c) THEN c[k] ELSE b[k - Len(c)]
    BY <1>4, <1>6, ConcatProperties
  <2>2. Len(c) + Len(b) = n + 1
    BY <1>0, <1>4, <1>6
  <2>3. QED
    BY <1>6, <2>1, <2>2
<1>8. ASSUME NEW k \in 1 .. n + 1
      PROVE  (c \o b)[k] = IF k <= m THEN s[k] ELSE IF k = m + 1 THEN e ELSE s[k - 1]
  <2>2. CASE k <= m + 1
    BY <1>0, <1>3, <1>6, <1>7, <2>2
  <2>3. CASE ~(k <= m + 1)
    <3>1. k - (m + 1) \in 1 .. n - m /\ m + (k - (m + 1)) = k - 1
      BY <1>0, <2>3
    <3>2. (c \o b)[k] = b[k - (m + 1)]
      BY <1>7, <2>3
    <3>3. b[k - (m + 1)] = s[k - 1]
      BY <1>4, <3>1
    <3>4. ~(k <= m) /\ k # m + 1
      BY <1>0, <2>3
    <3>5. QED
      BY <3>2, <3>3, <3>4
  <2>4. QED
    BY <2>2, <2>3
<1>9. QED
  BY <1>1, <1>7, <1>8 DEF a, b, c

-----------------------------------------------------------------------------
(* The operations, on linked lists and on their entries. *)

\* Removing an id leaves a linked list without it, and the queue without its
\* entry; removing an id that is not in the list changes nothing.
LEMMA RemovedIsLinked ==
  ASSUME NEW l \in ListType, NEW n \in Nat, NEW q, LinkedAs(l, n, q), NEW id \in Ids
  PROVE  \E j \in Nat : \E r \in [1 .. j -> Ids] :
           /\ LinkedAs(Removed(l, id), j, r)
           /\ \A k \in 1 .. j : r[k] # id
           /\ QueueOf(Removed(l, id), j, r) = Sorted!Without(QueueOf(l, n, q), id)
<1> DEFINE s == QueueOf(l, n, q)
<1>1. /\ s \in Seq(Entry) /\ Len(s) = n /\ DOMAIN s = 1 .. n
      /\ \A k \in 1 .. n : s[k].id = q[k] /\ s[k].value = l.nodes[q[k]].value
  BY QueueOfType DEF QueueOf
<1>2. q \in [1 .. n -> Ids]
  BY DEF LinkedAs, Linked, Positive
<1>3. Sorted!PlacesOf(s, id) = {k \in 1 .. n : q[k] = id}
  BY <1>1 DEF Sorted!PlacesOf
<1> HIDE DEF s
<1>4. CASE \A k \in 1 .. n : q[k] # id
  <2>1. Removed(l, id) = l
    BY <1>4, AbsenceIsExact DEF Removed
  <2>2. Sorted!Without(s, id) = s
    BY <1>3, <1>4 DEF Sorted!Without
  <2>3. QED
    BY <1>2, <1>4, <2>1, <2>2 DEF s
<1>5. ASSUME NEW i \in 1 .. n, q[i] = id
      PROVE  \E j \in Nat : \E r \in [1 .. j -> Ids] :
               /\ LinkedAs(Removed(l, id), j, r)
               /\ \A k \in 1 .. j : r[k] # id
               /\ QueueOf(Removed(l, id), j, r) = Sorted!Without(s, id)
  <2> DEFINE u == Unlink(l, id)
             r == WithoutIdAt(n, q, i)
             t == SubSeq(s, 1, i - 1) \o SubSeq(s, i + 1, Len(s))
  <2>1. Removed(l, id) = u
    BY <1>5, AbsenceIsExact DEF Removed
  <2>2. u \in ListType
    BY <2>1, RemovedType
  <2>3. TakenOut(l, n, q, i, id, u)
    BY <1>5, UnlinkTakesOut DEF LinkedAs
  <2> HIDE DEF u
  <2>4. LinkedAs(u, n - 1, r)
    BY <1>5, <2>2, <2>3, TakenOutIsLinked DEF LinkedAs
  <2>5. r \in [1 .. n - 1 -> Ids] /\ n - 1 \in Nat
    BY <2>4 DEF LinkedAs, Linked, Positive
  <2>6. \A a, b \in 1 .. n : q[a] = q[b] => a = b
    BY DEF LinkedAs, Linked, Positive
  <2>7. \A k \in 1 .. n - 1 :
          /\ r[k] = IF k < i THEN q[k] ELSE q[k + 1]
          /\ r[k] # id
    BY <1>5, <2>6 DEF WithoutIdAt
  <2> HIDE DEF r
  <2>8. Sorted!Without(s, id) = t
    <3>1. Sorted!PlacesOf(s, id) = {i}
      BY <1>3, <1>5, <2>6
    <3>2. (CHOOSE k \in {i} : TRUE) = i
      OBVIOUS
    <3>3. QED
      BY <3>1, <3>2 DEF Sorted!Without
  <2>9. /\ t \in Seq(Entry) /\ Len(t) = n - 1
        /\ \A k \in 1 .. n - 1 : t[k] = IF k < i THEN s[k] ELSE s[k + 1]
    BY <1>1, CutOut
  <2> HIDE DEF t
  <2>10. /\ QueueOf(u, n - 1, r) \in Seq(Entry) /\ Len(QueueOf(u, n - 1, r)) = n - 1
         /\ \A k \in 1 .. n - 1 :
              QueueOf(u, n - 1, r)[k] = [id |-> r[k], value |-> u.nodes[r[k]].value]
    BY <2>2, <2>4, <2>5, QueueOfType DEF QueueOf
  <2>11. ASSUME NEW k \in 1 .. n - 1
         PROVE  QueueOf(u, n - 1, r)[k] = t[k]
    <3>1. u.nodes[r[k]].value = l.nodes[r[k]].value
      BY <2>3, <2>5, <2>7 DEF TakenOut
    <3>2. \A m \in 1 .. n : s[m] = [id |-> q[m], value |-> l.nodes[q[m]].value]
      BY DEF s, QueueOf
    <3>3. k \in 1 .. n /\ k + 1 \in 1 .. n
      OBVIOUS
    <3>4. QueueOf(u, n - 1, r)[k] = [id |-> r[k], value |-> l.nodes[r[k]].value]
      BY <2>10, <3>1
    <3>5. CASE k < i
      <4>1. r[k] = q[k] /\ t[k] = s[k]
        BY <2>7, <2>9, <3>5
      <4>2. QED
        BY <3>2, <3>3, <3>4, <4>1
    <3>6. CASE ~(k < i)
      <4>1. r[k] = q[k + 1] /\ t[k] = s[k + 1]
        BY <2>7, <2>9, <3>6
      <4>2. QED
        BY <3>2, <3>3, <3>4, <4>1
    <3>7. QED
      BY <3>5, <3>6
  <2>12. QueueOf(u, n - 1, r) = t
    BY <2>9, <2>10, <2>11, SeqEqual
  <2>13. QED
    BY <2>1, <2>4, <2>5, <2>7, <2>8, <2>12
<1>6. QED
  BY <1>4, <1>5 DEF s

\* Inserting an id that is not in a linked list leaves a linked list and puts
\* its entry at its place in the queue; both walks stop, and the hint makes no
\* difference.
LEMMA InsertedIsLinked ==
  ASSUME NEW l \in ListType, NEW n \in Nat, NEW q, LinkedAs(l, n, q),
         NEW id \in Ids, \A k \in 1 .. n : q[k] # id,
         NEW v \in Nat \ {0}, NEW hint \in Slots
  PROVE  /\ WalksStop(l, v, hint)
         /\ Insert(l, id, v, hint) = Insert(l, id, v, 0)
         /\ \E r \in [1 .. n + 1 -> Ids] :
              /\ LinkedAs(Insert(l, id, v, hint), n + 1, r)
              /\ QueueOf(Insert(l, id, v, hint), n + 1, r)
                   = Sorted!Placed(QueueOf(l, n, q), id, v)
<1> DEFINE s == QueueOf(l, n, q)
           u == Insert(l, id, v, hint)
           e == [id |-> id, value |-> v]
<1>1. PICK m \in 0 .. n : PlaceOf(l, n, q, v, m)
  BY PlaceExists DEF LinkedAs
<1> DEFINE r == WithIdAt(n, q, m, id)
           t == SubSeq(s, 1, m) \o <<e>> \o SubSeq(s, m + 1, Len(s))
<1>2. 0 \in Slots
  BY MaxIdAssumption DEF Slots
<1>3. WalksStop(l, v, hint) /\ Insert(l, id, v, hint) = Insert(l, id, v, 0)
  <2>1. CASE n = 0
    <3>1. l.head = 0
      BY <2>1 DEF LinkedAs, Linked, Positive
    <3>2. QED
      BY <3>1 DEF WalksStop, Insert
  <2>2. CASE n # 0
    <3>1. n \in Nat \ {0} /\ v \in Nat
      BY <2>2
    <3>2. WalksStop(l, v, hint) /\ Spot(l, v, hint) = q[IF m = 0 THEN 1 ELSE m]
      BY <1>1, <3>1, WalksEndAtPlace DEF LinkedAs
    <3>3. Spot(l, v, 0) = q[IF m = 0 THEN 1 ELSE m]
      BY <1>1, <1>2, <3>1, WalksEndAtPlace DEF LinkedAs
    <3>4. Spot(l, v, hint) = Spot(l, v, 0)
      BY <3>2, <3>3
    <3>5. QED
      BY <3>2, <3>4 DEF Insert
  <2>3. QED
    BY <2>1, <2>2
<1>4. u \in ListType /\ SplicedInto(l, n, q, m, id, v, u)
  BY <1>1, InsertType, InsertSplices DEF LinkedAs
<1> HIDE DEF u
<1>5. LinkedAs(u, n + 1, r)
  BY <1>1, <1>4, SplicedIsLinked DEF LinkedAs
<1>6. r \in [1 .. n + 1 -> Ids] /\ n + 1 \in Nat
  BY <1>5 DEF LinkedAs, Linked, Positive
<1>7. /\ s \in Seq(Entry) /\ Len(s) = n /\ DOMAIN s = 1 .. n
      /\ \A k \in 1 .. n : s[k] = [id |-> q[k], value |-> l.nodes[q[k]].value]
  BY QueueOfType DEF QueueOf
<1> HIDE DEF s
<1>8. Sorted!Placed(s, id, v) = t
  <2>1. Sorted!Smaller(s, v) = 1 .. m
    BY <1>1, <1>7 DEF Sorted!Smaller, PlaceOf
  <2>2. 1 \in Int /\ m \in Int
    OBVIOUS
  <2>3. Cardinality(1 .. m) = IF 1 > m THEN 0 ELSE m - 1 + 1
    BY <2>2, FS_Interval
  <2>4. Cardinality(1 .. m) = m
    BY <2>3
  <2>5. Cardinality(Sorted!Smaller(s, v)) = m
    BY <2>1, <2>4, Zenon
  <2>6. Sorted!Cardinality(Sorted!Smaller(s, v)) = m
    BY <2>5 DEF Sorted!Cardinality, Cardinality
  <2>7. QED
    BY <2>6 DEF Sorted!Placed
<1>9. /\ t \in Seq(Entry) /\ Len(t) = n + 1
      /\ \A k \in 1 .. n + 1 :
           t[k] = IF k <= m THEN s[k] ELSE IF k = m + 1 THEN e ELSE s[k - 1]
  <2>1. e \in Entry /\ m \in 0 .. Len(s)
    BY <1>7 DEF Entry
  <2>2. s \in Seq(Entry) /\ Len(s) = n
    BY <1>7
  <2>3. /\ t \in Seq(Entry) /\ Len(t) = Len(s) + 1
        /\ \A k \in 1 .. Len(s) + 1 :
             t[k] = IF k <= m THEN s[k] ELSE IF k = m + 1 THEN e ELSE s[k - 1]
    <3>1. PICK c : c = t
      OBVIOUS
    <3>2. c = SubSeq(s, 1, m) \o <<e>> \o SubSeq(s, m + 1, Len(s))
      BY <3>1
    <3> HIDE DEF e, t
    <3>3. QED
      BY ONLY <2>1, <2>2, <3>1, <3>2, PutIn
  <2> HIDE DEF t
  <2>4. QED
    BY <2>2, <2>3
<1> HIDE DEF t
<1>10. /\ QueueOf(u, n + 1, r) \in Seq(Entry) /\ Len(QueueOf(u, n + 1, r)) = n + 1
       /\ \A k \in 1 .. n + 1 :
            QueueOf(u, n + 1, r)[k] = [id |-> r[k], value |-> u.nodes[r[k]].value]
  <2> HIDE DEF r
  <2>1. QueueOf(u, n + 1, r) \in Seq(Entry) /\ Len(QueueOf(u, n + 1, r)) = n + 1
    BY ONLY <1>4, <1>5, <1>6, QueueOfType
  <2>2. QED
    BY <2>1 DEF QueueOf
<1>11. ASSUME NEW k \in 1 .. n + 1
       PROVE  QueueOf(u, n + 1, r)[k] = t[k]
  <2>1. r[k] = IF k <= m THEN q[k] ELSE IF k = m + 1 THEN id ELSE q[k - 1]
    BY DEF WithIdAt
  <2>2. \A i \in 1 .. n : q[i] \in Ids \ {id}
    BY DEF LinkedAs, Linked, Positive
  <2>3. u.nodes[id].value = v /\ \A i \in Ids \ {id} : u.nodes[i].value = l.nodes[i].value
    BY <1>4 DEF SplicedInto
  <2> HIDE DEF r
  <2>4. CASE k <= m
    <3>1. k \in 1 .. n /\ r[k] = q[k] /\ t[k] = s[k]
      BY <1>9, <2>1, <2>4
    <3>2. u.nodes[q[k]].value = l.nodes[q[k]].value
      BY <2>2, <2>3, <3>1
    <3>3. QueueOf(u, n + 1, r)[k] = [id |-> r[k], value |-> u.nodes[r[k]].value]
      BY <1>10
    <3>4. QED
      BY <1>7, <3>1, <3>2, <3>3
  <2>5. CASE k = m + 1
    <3>1. r[k] = id /\ t[k] = e
      BY <1>9, <2>1, <2>5
    <3>2. QED
      BY <1>10, <2>3, <3>1
  <2>6. CASE k > m + 1
    <3>1. k - 1 \in 1 .. n /\ r[k] = q[k - 1] /\ t[k] = s[k - 1]
      BY <1>9, <2>1, <2>6
    <3>2. u.nodes[q[k - 1]].value = l.nodes[q[k - 1]].value
      BY <2>2, <2>3, <3>1
    <3>3. QueueOf(u, n + 1, r)[k] = [id |-> r[k], value |-> u.nodes[r[k]].value]
      BY <1>10
    <3>4. QED
      BY <1>7, <3>1, <3>2, <3>3
  <2>7. QED
    BY <2>4, <2>5, <2>6
<1>12. QueueOf(u, n + 1, r) = t
  <2> HIDE DEF r
  <2>1. QED
    BY <1>9, <1>10, <1>11, SeqEqual
<1>13. QED
  BY <1>3, <1>5, <1>6, <1>8, <1>12 DEF s, u

-----------------------------------------------------------------------------
(* The theorems. *)

\* A linked list without any id has room for it, and so does one from which it
\* was removed.
LEMMA UpsertedIsLinked ==
  ASSUME NEW l \in ListType, NEW n \in Nat, NEW q, LinkedAs(l, n, q),
         NEW id \in Ids, NEW v \in Nat \ {0}, NEW hint \in Slots
  PROVE  /\ CanUpsert(l, id, v, hint)
         /\ Upserted(l, id, v, hint) = Upserted(l, id, v, 0)
         /\ \E j \in Nat : \E r \in [1 .. j -> Ids] :
              /\ LinkedAs(Upserted(l, id, v, hint), j, r)
              /\ QueueOf(Upserted(l, id, v, hint), j, r)
                   = Sorted!Placed(Sorted!Without(QueueOf(l, n, q), id), id, v)
<1>1. PICK x \in ListType : x = Removed(l, id)
  BY RemovedType
<1>2. PICK j \in Nat : \E r \in [1 .. j -> Ids] :
        /\ LinkedAs(x, j, r)
        /\ \A k \in 1 .. j : r[k] # id
        /\ QueueOf(x, j, r) = Sorted!Without(QueueOf(l, n, q), id)
  BY <1>1, RemovedIsLinked
<1>3. PICK r \in [1 .. j -> Ids] :
        /\ LinkedAs(x, j, r)
        /\ \A k \in 1 .. j : r[k] # id
        /\ QueueOf(x, j, r) = Sorted!Without(QueueOf(l, n, q), id)
  BY <1>2
<1>4. /\ WalksStop(x, v, hint)
      /\ Insert(x, id, v, hint) = Insert(x, id, v, 0)
      /\ \E z \in [1 .. j + 1 -> Ids] :
           /\ LinkedAs(Insert(x, id, v, hint), j + 1, z)
           /\ QueueOf(Insert(x, id, v, hint), j + 1, z) = Sorted!Placed(QueueOf(x, j, r), id, v)
  BY <1>3, InsertedIsLinked
<1>5. CanUpsert(l, id, v, hint) /\ Upserted(l, id, v, hint) = Upserted(l, id, v, 0)
  BY <1>1, <1>4 DEF CanUpsert, Upserted
<1>6. Upserted(l, id, v, hint) = Insert(x, id, v, hint)
  BY <1>1 DEF Upserted
<1>7. j + 1 \in Nat
  OBVIOUS
<1>8. QED
  BY <1>3, <1>4, <1>5, <1>6, <1>7

\* The list of a contract that was just deployed is linked.
LEMMA ListInit == Init => LinkedInv
<1> SUFFICES ASSUME Init PROVE LinkedInv
  OBVIOUS
<1>1. list = EmptyList /\ EmptyList \in ListType
  BY EmptyListType DEF Init
<1> DEFINE q == [k \in 1 .. 0 |-> 0]
<1>2. q \in [1 .. 0 -> Ids] /\ 0 \in 0 .. MaxId
  BY MaxIdAssumption
<1>3. LinkedAs(EmptyList, 0, q)
  <2>1. \A id \in Ids : EmptyList.nodes[id] = NullNode
    BY MaxIdAssumption DEF EmptyList, Ids, Slots
  <2>2. EmptyList.head = 0 /\ EmptyList.tail = 0
    BY DEF EmptyList
  <2> HIDE DEF q
  <2>3. QED
    BY <1>2, <2>1, <2>2 DEF LinkedAs, Linked, Positive
<1>4. QED
  BY <1>1, <1>2, <1>3 DEF LinkedInv

\* Every call keeps the list linked.
LEMMA ListStep == ASSUME 0 \notin Values PROVE LinkedInv /\ [Next]_list => LinkedInv'
<1> SUFFICES ASSUME LinkedInv, [Next]_list PROVE LinkedInv'
  OBVIOUS
<1>1. PICK l \in ListType : l = list
  BY DEF LinkedInv
<1>2. PICK n \in 0 .. MaxId : \E q \in [1 .. n -> Ids] : LinkedAs(l, n, q)
  BY <1>1 DEF LinkedInv
<1>3. PICK q \in [1 .. n -> Ids] : LinkedAs(l, n, q)
  BY <1>2
<1>4. n \in Nat
  BY MaxIdAssumption
<1>5. ASSUME NEW k \in ListType, list' = k,
             \E j \in Nat : \E r \in [1 .. j -> Ids] : LinkedAs(k, j, r)
      PROVE  LinkedInv'
  <2>1. PICK j \in Nat : \E r \in [1 .. j -> Ids] : LinkedAs(k, j, r)
    BY <1>5
  <2>2. PICK r \in [1 .. j -> Ids] : LinkedAs(k, j, r)
    BY <2>1
  <2>3. j <= MaxId
    <3>1. \A a, b \in 1 .. j : r[a] = r[b] => a = b
      BY <2>2 DEF LinkedAs, Linked, Positive
    <3>2. QED
      BY <3>1, RoomForNodes
  <2>4. j \in 0 .. MaxId
    BY <2>3, MaxIdAssumption
  <2>5. QED
    BY <1>5, <2>2, <2>4 DEF LinkedInv
<1>6. CASE list' = list
  BY <1>1, <1>3, <1>4, <1>5, <1>6
<1>7. ASSUME NEW id \in Ids, NEW v \in Values, NEW hint \in Slots, Upsert(id, v, hint)
      PROVE  LinkedInv'
  <2>1. v \in Nat \ {0}
    BY ValuesAssumption
  <2>2. PICK k \in ListType : k = Upserted(l, id, v, hint)
    BY <2>1, UpsertedType
  <2>3. list' = k
    BY <1>1, <1>7, <2>2 DEF Upsert
  <2>4. \E j \in Nat : \E r \in [1 .. j -> Ids] : LinkedAs(k, j, r)
    BY <1>3, <1>4, <2>1, <2>2, UpsertedIsLinked
  <2>5. QED
    BY <1>5, <2>3, <2>4
<1>8. ASSUME NEW id \in Ids, Remove(id)
      PROVE  LinkedInv'
  <2>1. PICK k \in ListType : k = Removed(l, id)
    BY RemovedType
  <2>2. list' = k
    BY <1>1, <1>8, <2>1 DEF Remove
  <2>3. \E j \in Nat : \E r \in [1 .. j -> Ids] : LinkedAs(k, j, r)
    BY <1>3, <1>4, <2>1, RemovedIsLinked
  <2>4. QED
    BY <1>5, <2>2, <2>3
<1>9. QED
  BY <1>6, <1>7, <1>8 DEF Next

\* A linked list is well linked when it is read from its head.
LEMMA LinkedIsWellLinked == LinkedInv => WellLinked
<1> SUFFICES ASSUME LinkedInv PROVE WellLinked
  OBVIOUS
<1>1. PICK l \in ListType : l = list
  BY DEF LinkedInv
<1>2. PICK n \in 0 .. MaxId : \E q \in [1 .. n -> Ids] : LinkedAs(l, n, q)
  BY <1>1 DEF LinkedInv
<1>3. PICK q \in [1 .. n -> Ids] : LinkedAs(l, n, q)
  BY <1>2
<1>4. n \in Nat /\ n <= MaxId
  BY MaxIdAssumption
<1>5. /\ Chain(l) = q
      /\ Members(l) = {q[k] : k \in 1 .. n}
      /\ Cardinality(Members(l)) = n
  BY <1>3, <1>4, ChainOfLinked DEF LinkedAs
<1>6. Len(q) = n
  BY <1>4
<1>7. n = 0 => l.head = 0 /\ l.tail = 0
  BY <1>3 DEF LinkedAs, Linked, Positive
<1>8. n > 0 => q[n] = l.tail /\ l.nodes[l.head].prev = 0
  BY <1>3, <1>4 DEF LinkedAs, Linked, Positive
<1>9. \A k \in 1 .. n - 1 : l.nodes[q[k + 1]].prev = q[k]
  <2>1. \A k \in 1 .. n : l.nodes[q[k]].prev = IF k = 1 THEN 0 ELSE q[k - 1]
    BY <1>3 DEF LinkedAs, Linked, Positive
  <2>2. \A k \in 1 .. n - 1 : k + 1 \in 1 .. n /\ k + 1 # 1 /\ k + 1 - 1 = k
    BY <1>4
  <2>3. QED
    BY <2>1, <2>2
<1>10. \A id \in Ids : id \in Members(l) <=> ~LooksAbsent(l, id)
  <2>1. \A id \in Ids : LooksAbsent(l, id) <=> \A k \in 1 .. n : q[k] # id
    BY <1>3, <1>4, AbsenceIsExact
  <2>2. QED
    BY <1>5, <2>1
<1>11. QED
  BY <1>1, <1>4, <1>5, <1>6, <1>7, <1>8, <1>9, <1>10 DEF WellLinked

\* With positive values the links always form one chain from head to tail that
\* prev retraces, and the test for absence is exact (library/
\* OrderedDoublyLinkedList.sol: upsert and remove, with any hints).
THEOREM AlwaysWellLinked == ASSUME 0 \notin Values PROVE Spec => []WellLinked
BY ListInit, ListStep, LinkedIsWellLinked, PTL DEF Spec

\* In a linked list every upsert succeeds and gives the same list for all hints.
LEMMA LinkedTakesAnyHint == ASSUME 0 \notin Values PROVE LinkedInv => HintIsOnlyAHint
<1> SUFFICES ASSUME LinkedInv, NEW id \in Ids, NEW v \in Values, NEW hint \in Slots
             PROVE  /\ CanUpsert(list, id, v, hint)
                    /\ Upserted(list, id, v, hint) = Upserted(list, id, v, 0)
  BY DEF HintIsOnlyAHint
<1>1. PICK l \in ListType : l = list
  BY DEF LinkedInv
<1>2. PICK n \in 0 .. MaxId : \E q \in [1 .. n -> Ids] : LinkedAs(l, n, q)
  BY <1>1 DEF LinkedInv
<1>3. PICK q \in [1 .. n -> Ids] : LinkedAs(l, n, q)
  BY <1>2
<1>4. n \in Nat /\ v \in Nat \ {0}
  BY MaxIdAssumption, ValuesAssumption
<1>5. QED
  BY <1>1, <1>3, <1>4, UpsertedIsLinked

\* With positive values any hint, also one that names a node that is not in the
\* list, makes _insert stop, and at the same place as the walk from the head.
THEOREM HintsNeverMatter == ASSUME 0 \notin Values PROVE Spec => []HintIsOnlyAHint
BY ListInit, ListStep, LinkedTakesAnyHint, PTL DEF Spec

\* The entries of a linked list are what the refinement mapping shows.
LEMMA QueueOfLinked ==
  ASSUME NEW l \in ListType, NEW n \in Nat, NEW q, LinkedAs(l, n, q)
  PROVE  LET chain == Chain(l)
         IN  [k \in DOMAIN chain |-> [id |-> chain[k], value |-> l.nodes[chain[k]].value]]
               = QueueOf(l, n, q)
<1>1. Chain(l) = q
  BY ChainOfLinked DEF LinkedAs
<1>2. DOMAIN q = 1 .. n
  BY DEF LinkedAs, Linked, Positive
<1>3. QED
  BY <1>1, <1>2 DEF QueueOf

\* A contract that was just deployed shows the empty queue.
LEMMA ImplementsInit == Init => Sorted!Init
<1> SUFFICES ASSUME Init PROVE Queue = <<>>
  BY DEF Sorted!Init
<1>1. PICK l \in ListType : l = list /\ l = EmptyList
  BY EmptyListType DEF Init
<1>2. LinkedInv
  BY ListInit
<1>3. PICK n \in 0 .. MaxId : \E q \in [1 .. n -> Ids] : LinkedAs(l, n, q)
  BY <1>1, <1>2 DEF LinkedInv
<1>4. PICK q \in [1 .. n -> Ids] : LinkedAs(l, n, q)
  BY <1>3
<1>5. n \in Nat /\ n = 0
  <2>1. n \in Nat /\ l.head = 0
    BY <1>1, MaxIdAssumption DEF EmptyList
  <2>2. n > 0 => q[1] \in Ids /\ l.head = q[1]
    BY <1>4, <2>1 DEF LinkedAs, Linked, Positive
  <2>3. QED
    BY <2>1, <2>2, MaxIdAssumption DEF Ids
<1>6. Queue = QueueOf(l, n, q)
  BY <1>1, <1>4, <1>5, QueueOfLinked DEF Queue
<1>7. QueueOf(l, n, q) = <<>>
  BY <1>5 DEF QueueOf
<1>8. QED
  BY <1>6, <1>7

\* Every call is a step of the sorted queue.
LEMMA ImplementsStep ==
  ASSUME 0 \notin Values
  PROVE  LinkedInv /\ LinkedInv' /\ [Next]_list => [Sorted!Next]_Queue
<1> SUFFICES ASSUME LinkedInv, LinkedInv', [Next]_list
             PROVE  [Sorted!Next]_Queue
  OBVIOUS
<1>1. PICK l \in ListType : l = list
  BY DEF LinkedInv
<1>2. PICK n \in 0 .. MaxId : \E q \in [1 .. n -> Ids] : LinkedAs(l, n, q)
  BY <1>1 DEF LinkedInv
<1>3. PICK q \in [1 .. n -> Ids] : LinkedAs(l, n, q)
  BY <1>2
<1>4. n \in Nat
  BY MaxIdAssumption
<1>5. PICK s : s = QueueOf(l, n, q)
  OBVIOUS
<1>6. Queue = s
  BY <1>1, <1>3, <1>4, <1>5, QueueOfLinked DEF Queue
<1>7. ASSUME NEW k \in ListType, list' = k, NEW j \in Nat, NEW r \in [1 .. j -> Ids],
             LinkedAs(k, j, r)
      PROVE  Queue' = QueueOf(k, j, r)
  BY <1>7, QueueOfLinked DEF Queue
<1>8. CASE list' = list
  BY <1>8 DEF Queue
<1>9. ASSUME NEW id \in Ids, NEW v \in Values, NEW hint \in Slots, Upsert(id, v, hint)
      PROVE  Sorted!Next
  <2>1. v \in Nat \ {0}
    BY ValuesAssumption
  <2>2. PICK k \in ListType : k = Upserted(l, id, v, hint)
    BY <2>1, UpsertedType
  <2>3. list' = k
    BY <1>1, <1>9, <2>2 DEF Upsert
  <2>4. PICK j \in Nat : \E r \in [1 .. j -> Ids] :
          LinkedAs(k, j, r) /\ QueueOf(k, j, r) = Sorted!Placed(Sorted!Without(s, id), id, v)
    BY <1>3, <1>4, <1>5, <2>1, <2>2, UpsertedIsLinked
  <2>5. PICK r \in [1 .. j -> Ids] :
          LinkedAs(k, j, r) /\ QueueOf(k, j, r) = Sorted!Placed(Sorted!Without(s, id), id, v)
    BY <2>4
  <2>6. Queue' = Sorted!Placed(Sorted!Without(s, id), id, v)
    BY <1>7, <2>3, <2>5
  <2>7. Sorted!Upsert(id, v)
    BY <1>6, <2>6 DEF Sorted!Upsert
  <2>8. QED
    BY <2>7 DEF Sorted!Next
<1>10. ASSUME NEW id \in Ids, Remove(id)
       PROVE  Sorted!Next
  <2>1. PICK k \in ListType : k = Removed(l, id)
    BY RemovedType
  <2>2. list' = k
    BY <1>1, <1>10, <2>1 DEF Remove
  <2>3. PICK j \in Nat : \E r \in [1 .. j -> Ids] :
          LinkedAs(k, j, r) /\ QueueOf(k, j, r) = Sorted!Without(s, id)
    BY <1>3, <1>4, <1>5, <2>1, RemovedIsLinked
  <2>4. PICK r \in [1 .. j -> Ids] :
          LinkedAs(k, j, r) /\ QueueOf(k, j, r) = Sorted!Without(s, id)
    BY <2>3
  <2>5. Queue' = Sorted!Without(s, id)
    BY <1>7, <2>2, <2>4
  <2>6. Sorted!Remove(id)
    BY <1>6, <2>5 DEF Sorted!Remove
  <2>7. QED
    BY <2>6 DEF Sorted!Next
<1>11. QED
  BY <1>8, <1>9, <1>10 DEF Next

\* With positive values the contract implements the sorted queue: what is read
\* from its head is in ascending order, the last in first among equals, and each
\* call changes only the entry of the id it is given.
THEOREM ListImplementsQueue == ASSUME 0 \notin Values PROVE Spec => ImplementsSortedQueue
BY ListInit, ListStep, ImplementsInit, ImplementsStep, PTL
DEF Spec, ImplementsSortedQueue, Sorted!Spec
=============================================================================
