-------------------------------- MODULE BNode --------------------------------
(***************************************************************************)
(* The nodes of the B+-tree (src/node): LeafNode, InnerNode and the Node   *)
(* that holds either.  A node is a record of                               *)
(*                                                                         *)
(*   id        its id in the node storage;                                 *)
(*   leaf      whether it is a leaf;                                       *)
(*   keys      its keys in ascending order; for an inner node, the largest *)
(*             key below each child;                                       *)
(*   ptrs      the value ids of a leaf, the child ids of an inner node;    *)
(*   next      the ids of the neighbour leaves, Nil (the code's size_t -1) *)
(*   prev      at the ends of the list and in inner nodes;                 *)
(*   deleted   the is_deleted flag, which exists only in memory.           *)
(*                                                                         *)
(* Positions in keys and ptrs count from 1, from 0 in the code.            *)
(***************************************************************************)
EXTENDS Integers, Sequences, FiniteSets, SequencesExt

Nil == -1

Leaf(id, keys, ptrs, next, prev) ==
    [id |-> id, leaf |-> TRUE, keys |-> keys, ptrs |-> ptrs,
     next |-> next, prev |-> prev, deleted |-> FALSE]

Inner(id, keys, ptrs) ==
    [id |-> id, leaf |-> FALSE, keys |-> keys, ptrs |-> ptrs,
     next |-> Nil, prev |-> Nil, deleted |-> FALSE]

Size(node) == Len(node.keys)

GetMax(node) == Last(node.keys)

\* BaseNodeClass::find, std::lower_bound: the first position whose key is not
\* less than key, Size(node) + 1 when every key is less.
LowerBound(node, key) ==
    Cardinality({i \in DOMAIN node.keys : node.keys[i] < key}) + 1

-------------------------------------------------------------------------------
\* split: two new nodes with the given ids share the keys; the halves of a
\* leaf are linked to each other and to the neighbours of the whole.

Middle(node) == Size(node) \div 2

LowerHalf(node, s) == SubSeq(s, 1, Middle(node))

UpperHalfOfEven(node, s) ==                     \* mutant of UpperHalf
    SubSeq(s, Size(node) - Middle(node) + 1, Size(node))

UpperHalf(node, s) == SubSeq(s, Middle(node) + 1, Size(node))

SplitLeaf(node, idL, idR) ==
    << Leaf(idL, LowerHalf(node, node.keys), LowerHalf(node, node.ptrs),
            idR, node.prev),
       Leaf(idR, UpperHalf(node, node.keys), UpperHalf(node, node.ptrs),
            node.next, idL) >>

SplitInner(node, idL, idR) ==
    << Inner(idL, LowerHalf(node, node.keys), LowerHalf(node, node.ptrs)),
       Inner(idR, UpperHalf(node, node.keys), UpperHalf(node, node.ptrs)) >>

Split(node, idL, idR) ==
    IF node.leaf THEN SplitLeaf(node, idL, idR) ELSE SplitInner(node, idL, idR)

\* join: node takes over the keys of its right neighbour other and, a leaf,
\* its place in the list.
JoinInner(node, other) ==
    [node EXCEPT !.keys = @ \o other.keys, !.ptrs = @ \o other.ptrs]

JoinLeaf(node, other) == [JoinInner(node, other) EXCEPT !.next = other.next]

Join(node, other) ==
    IF node.leaf THEN JoinLeaf(node, other) ELSE JoinInner(node, other)

-------------------------------------------------------------------------------
\* LeafNode::addKey and InnerNode::addKey, deleteKey of both (the value that a
\* leaf also stores or erases is the tree's business).
AddKey(node, index, key, ptr) ==
    [node EXCEPT !.keys = InsertAt(@, index, key),
                 !.ptrs = InsertAt(@, index, ptr)]

DeleteKey(node, index) ==
    [node EXCEPT !.keys = RemoveAt(@, index), !.ptrs = RemoveAt(@, index)]

UpdateKey(node, index, key) == [node EXCEPT !.keys[index] = key]

SetChild(node, index, child) == [node EXCEPT !.ptrs[index] = child]

\* toBinary, and the constructor that reads it back: everything but the
\* deleted flag survives.
Stored(node) == [node EXCEPT !.deleted = FALSE]

===============================================================================
