---------------------------- MODULE OrderedList ----------------------------
(***************************************************************************)
(* The data structure of library/OrderedDoublyLinkedList.sol as operators  *)
(* on list values, so that the contract itself (OrderedDoublyLinkedList)   *)
(* and StableBaseCDP, which owns two such lists, use the same definitions. *)
(* A list keeps head, tail and the Solidity mapping of nodes.  A mapping   *)
(* has a value at every key: the slot of id 0, the null pointer, exists,   *)
(* and the code does write to it.                                          *)
(***************************************************************************)
EXTENDS Naturals, FiniteSets

CONSTANT MaxId    \* the ids of nodes (of Safes) are 1 .. MaxId

ASSUME MaxIdAssumption == MaxId \in Nat \ {0}

Ids   == 1 .. MaxId
Slots == 0 .. MaxId

NullNode  == [value |-> 0, prev |-> 0, next |-> 0]
EmptyList == [head |-> 0, tail |-> 0, nodes |-> [s \in Slots |-> NullNode]]

ListType ==
  [head : Slots, tail : Slots,
   nodes : [Slots -> [value : Nat, prev : Slots, next : Slots]]]

\* (With a mistake, to see that a property notices it: the value is not looked at.)
LooksUnlinked(l, id) == l.nodes[id].prev = 0 /\ l.nodes[id].next = 0

\* The code's test for "this node is not in the list".
LooksAbsent(l, id) == l.nodes[id] = NullNode

-----------------------------------------------------------------------------
(* _insert: two walks from the hint to the position of the new value. *)

\* (With a mistake, to see that a property notices it: the hint is trusted to be in the list.)
WalkStartTrusting(l, hint) == IF hint = 0 THEN l.head ELSE hint

\* A hint of 0, or of a node that looks absent, starts at the head.
WalkStart(l, hint) == IF hint = 0 \/ LooksAbsent(l, hint) THEN l.head ELSE hint

GoesForward(l, v, s)  == s # l.tail /\ l.nodes[s].value < v
GoesBackward(l, v, s) == s # l.head /\ l.nodes[s].value >= v

\* Where each walk stands after at most MaxId + 1 iterations; a walk that has
\* not stopped by then has revisited a slot and never stops.
ForwardWalk(l, v, start) ==
  LET at[k \in 0 .. MaxId + 1] ==
        IF k = 0 THEN start
        ELSE LET s == at[k - 1]
             IN  IF GoesForward(l, v, s) THEN l.nodes[s].next ELSE s
  IN  at[MaxId + 1]

BackwardWalk(l, v, start) ==
  LET at[k \in 0 .. MaxId + 1] ==
        IF k = 0 THEN start
        ELSE LET s == at[k - 1]
             IN  IF GoesBackward(l, v, s) THEN l.nodes[s].prev ELSE s
  IN  at[MaxId + 1]

Spot(l, v, hint) == BackwardWalk(l, v, ForwardWalk(l, v, WalkStart(l, hint)))

\* Both loops stop: otherwise the transaction runs out of gas and reverts.
WalksStop(l, v, hint) ==
  \/ l.head = 0
  \/ LET ahead == ForwardWalk(l, v, WalkStart(l, hint))
     IN  /\ ~GoesForward(l, v, ahead)
         /\ ~GoesBackward(l, v, BackwardWalk(l, v, ahead))

InsertFirst(l, id, v) ==
  [head |-> id, tail |-> id, nodes |-> [l.nodes EXCEPT ![id] = [NullNode EXCEPT !.value = v]]]

InsertBeforeHead(l, id, v) ==
  [head |-> id, tail |-> l.tail,
   nodes |-> [l.nodes EXCEPT ![l.head].prev = id,
                             ![id] = [value |-> v, prev |-> 0, next |-> l.head]]]

InsertAfterTail(l, id, v) ==
  [head |-> l.head, tail |-> id,
   nodes |-> [l.nodes EXCEPT ![l.tail].next = id,
                             ![id] = [value |-> v, prev |-> l.tail, next |-> 0]]]

InsertAfter(l, id, v, s) ==
  LET next == l.nodes[s].next
  IN  [head |-> l.head,
       tail |-> IF s = l.head /\ next = 0 THEN id ELSE l.tail,
       nodes |-> [l.nodes EXCEPT ![s].next = id,
                                 ![next].prev = IF s = l.head /\ next = 0 THEN @ ELSE id,
                                 ![id] = [value |-> v, prev |-> s, next |-> next]]]

Insert(l, id, v, hint) ==
  LET s == Spot(l, v, hint)
  IN  CASE l.head = 0                                   -> InsertFirst(l, id, v)
        [] l.head # 0 /\ s = l.head /\ l.nodes[s].value >= v -> InsertBeforeHead(l, id, v)
        [] l.head # 0 /\ s # l.head /\ s = l.tail       -> InsertAfterTail(l, id, v)
        [] OTHER                                        -> InsertAfter(l, id, v, s)

-----------------------------------------------------------------------------
(* _remove: the order of the writes matters when prev or next is the null slot. *)

\* (With a mistake, to see that a property notices it: the tail is left alone.)
UnlinkKeepingTail(l, id) ==
  LET node == l.nodes[id]
  IN  [head  |-> IF node.prev = 0 THEN node.next ELSE l.head,
       tail  |-> l.tail,
       nodes |-> [l.nodes EXCEPT ![node.prev].next = node.next, ![node.next].prev = node.prev,
                                 ![id] = NullNode]]

Unlink(l, id) ==
  LET node     == l.nodes[id]
      fromPrev == IF node.prev = 0
                    THEN [l.nodes EXCEPT ![node.next].prev = 0]
                    ELSE [l.nodes EXCEPT ![node.prev].next = node.next,
                                         ![node.next].prev = node.prev]
      fromNext == IF node.next = 0
                    THEN [fromPrev EXCEPT ![node.prev].next = 0]
                    ELSE [fromPrev EXCEPT ![node.next].prev = node.prev,
                                          ![node.prev].next = node.next]
  IN  [head  |-> IF node.prev = 0 THEN node.next ELSE l.head,
       tail  |-> IF node.next = 0 THEN node.prev ELSE l.tail,
       nodes |-> [fromNext EXCEPT ![id] = NullNode]]

Removed(l, id) == IF LooksAbsent(l, id) THEN l ELSE Unlink(l, id)

\* upsert: insert a new node, or _update: take the node out and insert it again.
CanUpsert(l, id, v, hint) == WalksStop(Removed(l, id), v, hint)

\* (With a mistake, to see that a property notices it: a node that is in the list keeps its place.)
UpsertedInPlace(l, id, v, hint) ==
  IF LooksAbsent(l, id) THEN Insert(l, id, v, hint) ELSE [l EXCEPT !.nodes[id].value = v]

Upserted(l, id, v, hint) == Insert(Removed(l, id), id, v, hint)

-----------------------------------------------------------------------------
(* Reading a list from its head, as a user of the contract does. *)

\* The slot reached after k steps from the head along next.
Reach(l) ==
  LET at[k \in 0 .. MaxId + 1] ==
        IF k = 0 THEN l.head
        ELSE LET s == at[k - 1] IN IF s = 0 THEN 0 ELSE l.nodes[s].next
  IN  at

Members(l) ==
  LET at == Reach(l) IN {at[k] : k \in 0 .. MaxId} \ {0}

\* The ids in list order.
Chain(l) ==
  LET at == Reach(l)
  IN  [k \in 1 .. Cardinality({j \in 0 .. MaxId : at[j] # 0}) |-> at[k - 1]]
=============================================================================
