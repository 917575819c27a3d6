-------------------- MODULE MCOrderedDoublyLinkedList --------------------
(* Instances of OrderedDoublyLinkedList for TLC. *)
EXTENDS OrderedDoublyLinkedList

\* Ratios and weights that are positive.
PositiveValues == 1 .. 2
==========================================================================
