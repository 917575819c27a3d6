---------------------------- MODULE SortedQueue ----------------------------
(***************************************************************************)
(* What an IDoublyLinkedList promises its owner: a queue of entries in     *)
(* ascending order of value, each id at most once, in which an entry is    *)
(* placed before the entries of the same value that are already there (the *)
(* last in is the first out).  There are no pointers and no hints.         *)
(***************************************************************************)
EXTENDS Naturals, Sequences, FiniteSets

CONSTANTS Ids, Values

VARIABLE queue

PlacesOf(q, id) == {k \in DOMAIN q : q[k].id = id}
Smaller(q, v)   == {k \in DOMAIN q : q[k].value < v}

Without(q, id) ==
  IF PlacesOf(q, id) = {} THEN q
  ELSE LET k == CHOOSE k \in PlacesOf(q, id) : TRUE
       IN  SubSeq(q, 1, k - 1) \o SubSeq(q, k + 1, Len(q))

Placed(q, id, v) ==
  LET n == Cardinality(Smaller(q, v))
  IN  SubSeq(q, 1, n) \o <<[id |-> id, value |-> v]>> \o SubSeq(q, n + 1, Len(q))

Init == queue = <<>>

Upsert(id, v) == queue' = Placed(Without(queue, id), id, v)
Remove(id)    == queue' = Without(queue, id)

Next == \E id \in Ids : Remove(id) \/ \E v \in Values : Upsert(id, v)

Spec == Init /\ [][Next]_queue
=============================================================================
