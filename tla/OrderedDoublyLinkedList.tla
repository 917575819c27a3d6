---------------------- MODULE OrderedDoublyLinkedList ----------------------
(***************************************************************************)
(* The contract library/OrderedDoublyLinkedList.sol: its owner calls       *)
(* upsert and remove, in any order and with any hint, also one that names  *)
(* a node that is not in the list, or is in it far from the right place.   *)
(***************************************************************************)
EXTENDS OrderedList, Sequences

CONSTANT Values    \* the values the owner gives to nodes

ASSUME ValuesAssumption == Values \subseteq Nat

VARIABLE list

Init == list = EmptyList

Upsert(id, v, hint) ==
  /\ CanUpsert(list, id, v, hint)
  /\ list' = Upserted(list, id, v, hint)

Remove(id) == list' = Removed(list, id)

Next ==
  \/ \E id \in Ids, v \in Values, hint \in Slots : Upsert(id, v, hint)
  \/ \E id \in Ids : Remove(id)

Spec == Init /\ [][Next]_list

-----------------------------------------------------------------------------

\* Head and tail are the ends of one chain: following next from head visits
\* every node once and ends at tail, prev is its inverse, and a node that is
\* not on the chain is the null node, so the code's test for absence is exact.
WellLinked ==
  LET chain == Chain(list)
      size  == Len(chain)
  IN  /\ size <= MaxId /\ Cardinality(Members(list)) = size
      /\ (size = 0) => (list.head = 0 /\ list.tail = 0)
      /\ (size > 0) => (chain[size] = list.tail /\ list.nodes[list.head].prev = 0)
      /\ \A k \in 1 .. size - 1 : list.nodes[chain[k + 1]].prev = chain[k]
      /\ \A id \in Ids : (id \in Members(list)) <=> ~LooksAbsent(list, id)

\* Whatever the hint, the two walks of _insert stop, and they stop where the
\* walk from the head stops: a hint can cost gas but never a position.
HintIsOnlyAHint ==
  \A id \in Ids, v \in Values, hint \in Slots :
    /\ CanUpsert(list, id, v, hint)
    /\ Upserted(list, id, v, hint) = Upserted(list, id, v, 0)

\* The list read from its head is the sorted queue with last-in-first-out ties.
Queue ==
  LET chain == Chain(list)
  IN  [k \in DOMAIN chain |-> [id |-> chain[k], value |-> list.nodes[chain[k]].value]]

Sorted == INSTANCE SortedQueue WITH queue <- Queue

\* Every call of the contract is one step of SortedQueue: the nodes, the two
\* walks and the null slot implement the ordered queue that the CDP relies on.
ImplementsSortedQueue == Sorted!Spec
=============================================================================
