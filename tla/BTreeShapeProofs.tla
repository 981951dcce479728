--------------------------- MODULE BTreeShapeProofs ---------------------------
(***************************************************************************)
(* Proofs about module BTree, for any node size of 2 at least, any integer *)
(* keys, any values and calls: its types, that a short child has a         *)
(* sibling, that the commits are contiguous and fit their blocks, that the *)
(* tree keeps its shape and the order of its keys, that its pairs match    *)
(* the values one to one, and that what is committed is the tree.  They    *)
(* rest on one invariant: the buffer is current, and at every step the     *)
(* nodes in memory and in the storage are linked as a tree with its keys   *)
(* in order (module BTreeLemmas), in which only the node at work may be    *)
(* too large or too small, and the frames lead to that node.               *)
(***************************************************************************)
EXTENDS BTreeLemmas

-------------------------------------------------------------------------------
(* The buffer *)

IsMemory(m) == m = [changes |-> m.changes, buffer |-> m.buffer]

\* No node in the buffer of m is older than the committed one.
Current(m) ==
    /\ IsMemory(m)
    /\ \A id \in DOMAIN m.buffer : m.buffer[id] = nodeStorage[id]

-------------------------------------------------------------------------------
\* The nodes that a step reads are read from the storage, the nodes it changes
\* do not enter the buffer.
LEMMA BufferedCurrent ==
    ASSUME NEW m, NEW id, Current(m)
    PROVE  Current(Buffered(m, id))
<1> DEFINE b == Put(m.buffer, id, nodeStorage[id])
<1>1. CASE id \in DOMAIN m.changes \cup DOMAIN m.buffer
  BY <1>1 DEF Buffered
<1>2. CASE id \notin DOMAIN m.changes \cup DOMAIN m.buffer
  <2>1. Buffered(m, id) = [changes |-> m.changes, buffer |-> b]
    BY <1>2 DEF Buffered, Current, IsMemory
  <2>2. \A x \in DOMAIN b : b[x] = nodeStorage[x]
    BY DEF Put, Current
  <2>3. QED
    BY <2>1, <2>2 DEF Current, IsMemory
<1>3. QED
  BY <1>1, <1>2

LEMMA SaveNodeCurrent ==
    ASSUME NEW m, NEW n, Current(m)
    PROVE  Current(SaveNode(m, n))
<1>1. SaveNode(m, n) = [changes |-> Put(m.changes, n.id, n), buffer |-> m.buffer]
  BY DEF SaveNode, Current, IsMemory
<1>2. QED
  BY <1>1 DEF Current, IsMemory

LEMMA DelNodeCurrent ==
    ASSUME NEW m, NEW n, Current(m)
    PROVE  Current(DelNode(m, n))
BY SaveNodeCurrent DEF DelNode

LEMMA InsertIntoListCurrent ==
    ASSUME NEW m, NEW n, Current(m)
    PROVE  Current(InsertIntoList(m, n))
<1>1. Current(LinkNext(m, n))
  BY BufferedCurrent, SaveNodeCurrent DEF LinkNext
<1>2. ASSUME NEW l, Current(l) PROVE Current(LinkPrev(l, n))
  BY <1>2, BufferedCurrent, SaveNodeCurrent DEF LinkPrev
<1>3. QED
  BY <1>1, <1>2 DEF InsertIntoList

LEMMA SavePairCurrent ==
    ASSUME NEW m, NEW pair, Current(m)
    PROVE  Current(SavePair(m, pair))
<1> DEFINE saved == SaveNode(SaveNode(m, pair[1]), pair[2])
<1>1. Current(saved)
  BY SaveNodeCurrent
<1> HIDE DEF saved
<1>2. Current(InsertIntoList(InsertIntoList(saved, pair[1]), pair[2]))
  BY <1>1, InsertIntoListCurrent
<1>3. QED
  BY <1>1, <1>2 DEF SavePair, saved

LEMMA OverflowCurrent ==
    ASSUME NEW m, NEW parent, NEW index, Current(m)
    PROVE  Current(NormalizeNodeOverflow(m, parent, index).memory)
BY SavePairCurrent, SaveNodeCurrent, Zenon DEF NormalizeNodeOverflow

LEMMA ShortageCurrent ==
    ASSUME NEW m, NEW parent, NEW index, Current(m)
    PROVE  Current(NormalizeNodeShortage(m, parent, index).memory)
BY BufferedCurrent, SavePairCurrent, SaveNodeCurrent, DelNodeCurrent,
   InsertIntoListCurrent DEF NormalizeNodeShortage

-------------------------------------------------------------------------------
LEMMA MemoryCurrent == ASSUME pc # "commit", BufferIsCurrent PROVE Current(Memory)
BY DEF Current, IsMemory, Memory, BufferIsCurrent

\* A step that remembers such a memory and writes nothing keeps the invariant.
LEMMA Remembered ==
    ASSUME NEW m, Current(m), Remember(m), UNCHANGED nodeStorage
    PROVE  BufferIsCurrent'
BY DEF Current, Remember, BufferIsCurrent

\* As does one that leaves the buffer and the storage alone.
LEMMA BufferKept ==
    ASSUME BufferIsCurrent, pc # "commit", UNCHANGED <<buffer, nodeStorage>>
    PROVE  BufferIsCurrent'
BY DEF BufferIsCurrent

LEMMA DownInv ==
    ASSUME BufferIsCurrent,
           DescendSet \/ DescendDel \/ KeyDoesNotExist \/ SetLeafAdd \/ SetLeafReplace \/ DelLeaf
    PROVE  BufferIsCurrent'
<1>0. Current(Memory)
  BY MemoryCurrent DEF DescendSet, DescendDel, KeyDoesNotExist, SetLeafAdd, SetLeafReplace,
                       DelLeaf
<1>1. ASSUME NEW index, Enter(index) PROVE BufferIsCurrent'
  <2>1. Current(Buffered(Memory, node.ptrs[index]))
    BY <1>0, BufferedCurrent
  <2>2. Remember(Buffered(Memory, node.ptrs[index])) /\ UNCHANGED nodeStorage
    BY <1>1 DEF Enter, storages
  <2>3. QED
    BY <2>1, <2>2, Remembered
<1>2. CASE DescendSet \/ DescendDel
  BY <1>1, <1>2 DEF DescendSet, DescendDel
<1>3. CASE KeyDoesNotExist
  BY <1>3, BufferKept DEF KeyDoesNotExist, Return, storages, scratch
<1>4. CASE SetLeafAdd
  <2> DEFINE n == AddKey(node, Position, call.key, nextValueId)
  <2>1. Remember(SaveNode(Memory, n)) /\ UNCHANGED nodeStorage
    BY <1>4 DEF SetLeafAdd
  <2>2. QED
    BY <1>0, <2>1, SaveNodeCurrent, Remembered
<1>5. CASE SetLeafReplace
  <2>1. Remember(SaveNode(Memory, node)) /\ UNCHANGED nodeStorage
    BY <1>5 DEF SetLeafReplace
  <2>2. QED
    BY <1>0, <2>1, SaveNodeCurrent, Remembered
<1>6. CASE DelLeaf
  <2>1. Remember(SaveNode(Memory, DeleteKey(node, FindKey))) /\ UNCHANGED nodeStorage
    BY <1>6 DEF DelLeaf
  <2>2. QED
    BY <1>0, <2>1, SaveNodeCurrent, Remembered
<1>7. QED
  BY <1>2, <1>3, <1>4, <1>5, <1>6

LEMMA UpInv ==
    ASSUME BufferIsCurrent, AscendPlain \/ SetOverflow \/ DelShortage
    PROVE  BufferIsCurrent'
<1>0. Current(AfterRead)
  BY MemoryCurrent, BufferedCurrent DEF AscendPlain, SetOverflow, DelShortage, AfterRead
<1>1. ASSUME NEW parent, NEW m, Current(m), Ascend(parent, m)
      PROVE  BufferIsCurrent'
  BY <1>1, Remembered DEF Ascend, storages
<1>2. CASE AscendPlain
  BY <1>0, <1>1, <1>2, SaveNodeCurrent DEF AscendPlain
<1>3. CASE SetOverflow
  BY <1>0, <1>1, <1>3, OverflowCurrent DEF SetOverflow
<1>4. CASE DelShortage
  BY <1>0, <1>1, <1>4, ShortageCurrent DEF DelShortage
<1>5. QED
  BY <1>2, <1>3, <1>4

LEMMA RootInv ==
    ASSUME BufferIsCurrent, RootStays \/ RootSplit \/ RootCollapse
    PROVE  BufferIsCurrent'
<1>0. Current(Memory) /\ UNCHANGED nodeStorage
  BY MemoryCurrent DEF RootStays, RootSplit, RootCollapse, StartCommit, storages
<1>1. CASE RootStays
  BY <1>1, <1>0, BufferKept DEF RootStays, StartCommit, scratch
<1>2. CASE RootSplit
  BY <1>2, <1>0, SaveNodeCurrent, Remembered DEF RootSplit
<1>3. CASE RootCollapse
  BY <1>3, <1>0, BufferedCurrent, DelNodeCurrent, Remembered DEF RootCollapse
<1>4. QED
  BY <1>1, <1>2, <1>3

LEMMA StepInv == BufferIsCurrent /\ [Next]_vars => BufferIsCurrent'
<1> SUFFICES ASSUME BufferIsCurrent, [Next]_vars PROVE BufferIsCurrent'
  OBVIOUS
<1>1. ASSUME NEW c \in Calls, Invoke(c) PROVE BufferIsCurrent'
  BY <1>1, BufferKept DEF Invoke, storages, scratch
<1>2. CASE CommitNode
  BY <1>2 DEF CommitNode, BufferIsCurrent
<1>3. CASE ClearBuffer
  BY <1>3 DEF ClearBuffer, Remember, Cleared, Empty, BufferIsCurrent
<1>4. CASE FindNode \/ GetRangeNextLeaf
  BY <1>4, BufferKept DEF FindNode, GetRangeNextLeaf, storages, scratch
<1>5. CASE Get \/ GetRangeEnd
  BY <1>5, BufferKept DEF Get, GetRangeEnd, Return, storages, scratch
<1>6. CASE UNCHANGED vars
  BY <1>6 DEF vars, storages, scratch, BufferIsCurrent
<1>7. QED
  BY <1>1, <1>2, <1>3, <1>4, <1>5, <1>6, DownInv, UpInv, RootInv
  DEF Next, Step, QuietStep

\* No call works on a stale copy: what earlier calls left in the buffer, also
\* those that threw, is what the node storage holds.
THEOREM BufferCurrent == Spec => []BufferIsCurrent
<1>1. Init => BufferIsCurrent
  BY DEF Init, Empty, BufferIsCurrent
<1>2. QED
  BY <1>1, StepInv, PTL DEF Spec

-------------------------------------------------------------------------------
\* Positions and keys of a node.
LEMMA PositionRange ==
    ASSUME NEW n, n \in NodeRecords, NEW key
    PROVE  LowerBound(n, key) \in 1 .. Size(n) + 1
<1> DEFINE below == {i \in DOMAIN n.keys : n.keys[i] < key}
<1>1. DOMAIN n.keys = 1 .. Size(n) /\ Size(n) \in Nat
  BY NodeFacts, LenProperties DEF Size
<1>2. IsFiniteSet(1 .. Size(n)) /\ Cardinality(1 .. Size(n)) = Size(n)
  BY <1>1, FS_Interval
<1>3. below \in SUBSET (1 .. Size(n))
  BY <1>1
<1> HIDE DEF below
<1>4. IsFiniteSet(below) /\ Cardinality(below) <= Size(n)
  BY <1>2, <1>3, FS_Subset
<1>5. Cardinality(below) \in Nat
  BY <1>4, FS_CardinalityType
<1>6. Cardinality(below) + 1 \in 1 .. Size(n) + 1
  BY <1>1, <1>4, <1>5
<1>7. QED
  BY <1>6 DEF LowerBound, below

LEMMA GetMaxIsKey ==
    ASSUME NEW n, n \in NodeRecords, Size(n) > 0
    PROVE  GetMax(n) \in Keys
<1>1. n.keys \in Seq(Keys) /\ Len(n.keys) \in Nat /\ Len(n.keys) > 0
  BY NodeFacts, LenProperties DEF Size
<1>2. Len(n.keys) \in 1 .. Len(n.keys)
  BY <1>1
<1>3. n.keys[Len(n.keys)] \in Keys
  BY <1>1, <1>2, ElementOfSeq
<1>4. QED
  BY <1>3 DEF GetMax, Last

\* findKey is the position of a key that is there.
LEMMA FindKeyRange ==
    ASSUME node \in NodeRecords, FindKey # Nil
    PROVE  FindKey = Position /\ FindKey \in 1 .. Size(node)
<1>1. Position \in 1 .. Size(node) + 1 /\ Size(node) \in Nat
  BY PositionRange, NodeFacts DEF Position
<1>2. FindKey = Position /\ Position <= Size(node)
  BY DEF FindKey
<1>3. QED
  BY <1>1, <1>2

LEMMA MinProperties ==
    ASSUME NEW S \in SUBSET Nat, S # {}
    PROVE  Min(S) \in S /\ \A y \in S : Min(S) <= y
<1> DEFINE R == OpToRel(<, Nat)
<1>1. IsWellFoundedOn(R, Nat)
  BY NatLessThanWellFounded
<1>2. \A x, y \in Nat : x < y => <<x, y>> \in R
  BY DEF OpToRel
<1> HIDE DEF R
<1>3. \E x \in S : \A y \in S : ~ (<<y, x>> \in R)
  BY <1>1, WFMin
<1>4. \E x \in S : \A y \in S : x <= y
  <2>1. \A x, y \in S : <<y, x>> \notin R => x <= y
    BY <1>2
  <2>2. QED
    BY <2>1, <1>3
<1>5. QED
  BY <1>4 DEF Min

-------------------------------------------------------------------------------
(* Nodes in memory *)

Copies(f, ids, values) == \A x \in DOMAIN f : NodeOK(f[x], ids, values) /\ f[x].id = x

Known(m) == DOMAIN m.changes \cup DOMAIN nodeStorage

\* The newest copy of node x when f are the changed ones and the root has not
\* been replaced.
At(f, x) == IF x \in DOMAIN f THEN f[x] ELSE IF x = 0 THEN root ELSE nodeStorage[x]

MemoryOK(m, ids, values) ==
    /\ Current(m)
    /\ Copies(m.changes, ids, values) /\ Copies(m.buffer, ids, values)
    /\ Copies(nodeStorage, ids, values)
    /\ NodeOK(root, ids, values) /\ root.id = 0

\* The nodes of m are those of the heap g, up to neighbours.
SavedAs(m, ids, values, g) ==
    /\ MemoryOK(m, ids, values) /\ Known(m) = 0 .. ids - 1
    /\ \A x \in 0 .. ids - 1 : SameBody(At(m.changes, x), g[x])

LEMMA AtOK ==
    ASSUME NEW m, NEW ids \in Int, NEW values, MemoryOK(m, ids, values), NEW x \in Known(m)
    PROVE  NodeOK(At(m.changes, x), ids, values) /\ At(m.changes, x).id = x
BY DEF MemoryOK, Copies, Known, At

LEMMA GetNodeOK ==
    ASSUME NEW m, NEW ids \in Int, NEW values, MemoryOK(m, ids, values), NEW x \in Known(m)
    PROVE  /\ NodeOK(GetNode(m, x), ids, values) /\ GetNode(m, x).id = x
           /\ x # 0 \/ x \in DOMAIN m.changes => GetNode(m, x) = At(m.changes, x)
<1>1. x \in DOMAIN m.changes \/ x \in DOMAIN nodeStorage
  BY DEF Known
<1>2. \A y \in DOMAIN m.buffer : m.buffer[y] = nodeStorage[y]
  BY DEF MemoryOK, Current
<1>3. CASE x \in DOMAIN m.changes
  BY <1>3 DEF GetNode, At, MemoryOK, Copies
<1>4. CASE x \notin DOMAIN m.changes
  <2>1. GetNode(m, x) = nodeStorage[x]
    BY <1>2, <1>4 DEF GetNode
  <2>2. NodeOK(nodeStorage[x], ids, values) /\ nodeStorage[x].id = x
    BY <1>1, <1>4 DEF MemoryOK, Copies
  <2>3. QED
    BY <2>1, <2>2, <1>4 DEF At
<1>5. QED
  BY <1>3, <1>4

LEMMA BufferedOK ==
    ASSUME NEW m, NEW ids \in Int, NEW values, MemoryOK(m, ids, values), NEW x \in Known(m)
    PROVE  /\ MemoryOK(Buffered(m, x), ids, values)
           /\ Buffered(m, x).changes = m.changes
<1>1. Current(Buffered(m, x))
  BY BufferedCurrent DEF MemoryOK
<1>2. CASE x \in DOMAIN m.changes \cup DOMAIN m.buffer
  BY <1>2 DEF Buffered
<1>3. CASE x \notin DOMAIN m.changes \cup DOMAIN m.buffer
  <2> DEFINE b == Put(m.buffer, x, nodeStorage[x])
  <2>1. Buffered(m, x) = [changes |-> m.changes, buffer |-> b]
    BY <1>3 DEF Buffered, MemoryOK, Current, IsMemory
  <2>2. x \in DOMAIN nodeStorage
    BY <1>3 DEF Known
  <2>3. Copies(b, ids, values)
    BY <2>2 DEF Put, MemoryOK, Copies
  <2> HIDE DEF b
  <2>4. QED
    BY <1>1, <2>1, <2>3 DEF MemoryOK
<1>4. QED
  BY <1>2, <1>3

Saved(s, m, n, ids, values) ==
    /\ MemoryOK(s, ids, values)
    /\ s.changes = Put(m.changes, n.id, n) /\ DOMAIN s.changes = DOMAIN m.changes \cup {n.id}
    /\ Known(s) = Known(m) \cup {n.id}
    /\ At(s.changes, n.id) = n
    /\ \A x : x # n.id => At(s.changes, x) = At(m.changes, x)

LEMMA SaveNodeOK ==
    ASSUME NEW m, NEW ids \in Int, NEW values, MemoryOK(m, ids, values),
           NEW n, NodeOK(n, ids, values)
    PROVE  Saved(SaveNode(m, n), m, n, ids, values)
<1> DEFINE ch == Put(m.changes, n.id, n)
<1>1. SaveNode(m, n) = [changes |-> ch, buffer |-> m.buffer]
  BY DEF SaveNode, MemoryOK, Current, IsMemory
<1>2. Current(SaveNode(m, n))
  BY SaveNodeCurrent DEF MemoryOK
<1>3. /\ DOMAIN ch = DOMAIN m.changes \cup {n.id} /\ ch[n.id] = n
      /\ \A x \in DOMAIN m.changes : x # n.id => ch[x] = m.changes[x]
  BY DEF Put
<1> HIDE DEF ch
<1>4. Copies(ch, ids, values)
  BY <1>3 DEF MemoryOK, Copies
<1>5. MemoryOK(SaveNode(m, n), ids, values)
  BY <1>1, <1>2, <1>4 DEF MemoryOK
<1>6. Known(SaveNode(m, n)) = Known(m) \cup {n.id}
  BY <1>1, <1>3 DEF Known
<1>7. At(ch, n.id) = n /\ \A x : x # n.id => At(ch, x) = At(m.changes, x)
  BY <1>3 DEF At
<1>8. QED
  BY <1>1, <1>3, <1>5, <1>6, <1>7 DEF ch, Saved

\* Saving a node that the heap g has.
LEMMA SaveAs ==
    ASSUME NEW m, NEW ids \in Int, NEW values, MemoryOK(m, ids, values),
           NEW n, NodeOK(n, ids, values), Known(m) \cup {n.id} = 0 .. ids - 1,
           NEW g, SameBody(n, g[n.id]),
           \A x \in 0 .. ids - 1 : x # n.id => SameBody(At(m.changes, x), g[x])
    PROVE  SavedAs(SaveNode(m, n), ids, values, g)
<1> DEFINE s == SaveNode(m, n)
<1>0. Saved(s, m, n, ids, values)
  BY SaveNodeOK
<1> HIDE DEF s
<1>1. /\ MemoryOK(s, ids, values) /\ Known(s) = Known(m) \cup {n.id}
      /\ At(s.changes, n.id) = n
      /\ \A x : x # n.id => At(s.changes, x) = At(m.changes, x)
  BY <1>0 DEF Saved
<1>2. \A x \in 0 .. ids - 1 : SameBody(At(s.changes, x), g[x])
  BY <1>1
<1>3. SavedAs(s, ids, values, g)
  BY <1>1, <1>2 DEF SavedAs
<1>4. QED
  BY <1>3 DEF s

-------------------------------------------------------------------------------
\* Telling the neighbours of a leaf about it changes no node's body.
Neighbour(n, ids, values) == NodeOK(n, ids, values) /\ n.id \in 1 .. ids - 1

LEMMA NewNeighbour ==
    ASSUME NEW n, NEW ids \in Int, NEW values, NodeOK(n, ids, values), NEW x \in 1 .. ids - 1
    PROVE  /\ NodeOK([n EXCEPT !.prev = x], ids, values)
           /\ NodeOK([n EXCEPT !.next = x], ids, values)
           /\ SameBody([n EXCEPT !.prev = x], n) /\ SameBody([n EXCEPT !.next = x], n)
           /\ [n EXCEPT !.prev = x].id = n.id /\ [n EXCEPT !.next = x].id = n.id
<1>1. n \in NodeRecords
  BY DEF NodeOK
<1>2. /\ [n EXCEPT !.prev = x] \in NodeRecords /\ [n EXCEPT !.next = x] \in NodeRecords
  <2>1. x \in Int
    OBVIOUS
  <2>2. [n EXCEPT !.prev = x] \in NodeRecords
    BY <2>1, <1>1 DEF NodeRecords
  <2>3. [n EXCEPT !.next = x] \in NodeRecords
    BY <2>1, <1>1 DEF NodeRecords
  <2>4. QED
    BY <2>2, <2>3
<1>3. ASSUME NEW k, k \in {[n EXCEPT !.prev = x], [n EXCEPT !.next = x]}
      PROVE  /\ k.id = n.id /\ k.leaf = n.leaf /\ k.keys = n.keys /\ k.ptrs = n.ptrs
             /\ k.deleted = n.deleted
             /\ k.next \in {n.next, x} /\ k.prev \in {n.prev, x}
  <2>1. DOMAIN n = {"id", "leaf", "keys", "ptrs", "next", "prev", "deleted"}
    BY <1>1 DEF NodeRecords
  <2>2. CASE k = [n EXCEPT !.prev = x]
    BY <2>1, <2>2
  <2>3. CASE k = [n EXCEPT !.next = x]
    BY <2>1, <2>3
  <2>4. QED
    BY <2>2, <2>3, <1>3
<1>4. ASSUME NEW k, k \in {[n EXCEPT !.prev = x], [n EXCEPT !.next = x]}
      PROVE  NodeOK(k, ids, values) /\ SameBody(k, n)
  <2>1. Kids(k) = Kids(n) /\ Size(k) = Size(n) /\ \A i : Kid(k, i) = Kid(n, i)
    BY <1>3, <1>4 DEF Kids, Size, Kid
  <2>2. k.leaf = n.leaf /\ k.deleted = n.deleted /\ k.id = n.id
        /\ k.next \in {n.next, x} /\ k.prev \in {n.prev, x}
    BY <1>3, <1>4
  <2>3. k \in NodeRecords
    BY <1>2, <1>4
  <2>4. QED
    BY <1>3, <1>4, <2>1, <2>2, <2>3 DEF NodeOK, SameBody, SameCore
<1>5. QED
  BY <1>3, <1>4

LEMMA LinkNextOK ==
    ASSUME NEW m, NEW ids \in Int, NEW values, NEW g, SavedAs(m, ids, values, g),
           NEW n, Neighbour(n, ids, values)
    PROVE  SavedAs(LinkNext(m, n), ids, values, g)
<1> DEFINE x == n.next
           k == [GetNode(m, x) EXCEPT !.prev = n.id]
           b == Buffered(m, x)
<1>1. CASE x = Nil
  BY <1>1 DEF LinkNext
<1>2. CASE x # Nil
  <2>1. x \in 1 .. ids - 1 /\ n.id \in 1 .. ids - 1
    BY <1>2 DEF Neighbour, NodeOK
  <2>2. /\ MemoryOK(m, ids, values) /\ Known(m) = 0 .. ids - 1
        /\ \A y \in 0 .. ids - 1 : SameBody(At(m.changes, y), g[y])
    BY DEF SavedAs
  <2> HIDE DEF x
  <2>3. x \in Known(m) /\ x # 0 /\ x \in 0 .. ids - 1
    BY <2>1, <2>2
  <2>4. /\ NodeOK(GetNode(m, x), ids, values) /\ GetNode(m, x).id = x
        /\ GetNode(m, x) = At(m.changes, x)
    BY <2>2, <2>3, GetNodeOK
  <2>5. /\ NodeOK(k, ids, values) /\ k.id = x /\ SameBody(k, GetNode(m, x))
    BY <2>1, <2>4, NewNeighbour
  <2>6. MemoryOK(b, ids, values) /\ b.changes = m.changes
    BY <2>2, <2>3, BufferedOK
  <2> HIDE DEF k, b
  <2>7. SameBody(k, g[x])
    BY <2>2, <2>3, <2>4, <2>5, SameBodyTransitive
  <2>8. Known(b) \cup {k.id} = 0 .. ids - 1
    BY <2>2, <2>3, <2>5, <2>6 DEF Known
  <2>9. SavedAs(SaveNode(b, k), ids, values, g)
    BY <2>2, <2>5, <2>6, <2>7, <2>8, SaveAs
  <2>10. QED
    BY <2>9, <1>2 DEF LinkNext, b, k, x
<1>3. QED
  BY <1>1, <1>2

LEMMA LinkPrevOK ==
    ASSUME NEW m, NEW ids \in Int, NEW values, NEW g, SavedAs(m, ids, values, g),
           NEW n, Neighbour(n, ids, values)
    PROVE  SavedAs(LinkPrev(m, n), ids, values, g)
<1> DEFINE x == n.prev
           k == [GetNode(m, x) EXCEPT !.next = n.id]
           b == Buffered(m, x)
<1>1. CASE x = Nil
  BY <1>1 DEF LinkPrev
<1>2. CASE x # Nil
  <2>1. x \in 1 .. ids - 1 /\ n.id \in 1 .. ids - 1
    BY <1>2 DEF Neighbour, NodeOK
  <2>2. /\ MemoryOK(m, ids, values) /\ Known(m) = 0 .. ids - 1
        /\ \A y \in 0 .. ids - 1 : SameBody(At(m.changes, y), g[y])
    BY DEF SavedAs
  <2> HIDE DEF x
  <2>3. x \in Known(m) /\ x # 0 /\ x \in 0 .. ids - 1
    BY <2>1, <2>2
  <2>4. /\ NodeOK(GetNode(m, x), ids, values) /\ GetNode(m, x).id = x
        /\ GetNode(m, x) = At(m.changes, x)
    BY <2>2, <2>3, GetNodeOK
  <2>5. /\ NodeOK(k, ids, values) /\ k.id = x /\ SameBody(k, GetNode(m, x))
    BY <2>1, <2>4, NewNeighbour
  <2>6. MemoryOK(b, ids, values) /\ b.changes = m.changes
    BY <2>2, <2>3, BufferedOK
  <2> HIDE DEF k, b
  <2>7. SameBody(k, g[x])
    BY <2>2, <2>3, <2>4, <2>5, SameBodyTransitive
  <2>8. Known(b) \cup {k.id} = 0 .. ids - 1
    BY <2>2, <2>3, <2>5, <2>6 DEF Known
  <2>9. SavedAs(SaveNode(b, k), ids, values, g)
    BY <2>2, <2>5, <2>6, <2>7, <2>8, SaveAs
  <2>10. QED
    BY <2>9, <1>2 DEF LinkPrev, b, k, x
<1>3. QED
  BY <1>1, <1>2

LEMMA InsertIntoListOK ==
    ASSUME NEW m, NEW ids \in Int, NEW values, NEW g, SavedAs(m, ids, values, g),
           NEW n, Neighbour(n, ids, values)
    PROVE  SavedAs(InsertIntoList(m, n), ids, values, g)
BY LinkNextOK, LinkPrevOK DEF InsertIntoList

LEMMA SavePairOK ==
    ASSUME NEW m, NEW ids \in Int, NEW values, MemoryOK(m, ids, values), NEW pair,
           Neighbour(pair[1], ids, values), Neighbour(pair[2], ids, values),
           pair[1].id # pair[2].id,
           Known(m) \cup {pair[1].id} = 0 .. ids - 1, NEW g,
           SameBody(pair[1], g[pair[1].id]), SameBody(pair[2], g[pair[2].id]),
           \A x \in 0 .. ids - 1 :
                x \notin {pair[1].id, pair[2].id} => SameBody(At(m.changes, x), g[x])
    PROVE  SavedAs(SavePair(m, pair), ids, values, g)
<1> DEFINE a == pair[1]
           b == pair[2]
           f == [x \in 0 .. ids - 1 |-> IF x = b.id THEN At(m.changes, x) ELSE g[x]]
           first == SaveNode(m, a)
           saved == SaveNode(first, b)
<1>1. /\ Neighbour(a, ids, values) /\ Neighbour(b, ids, values) /\ a.id # b.id
      /\ NodeOK(a, ids, values) /\ NodeOK(b, ids, values)
      /\ Known(m) \cup {a.id} = 0 .. ids - 1
      /\ SameBody(a, g[a.id]) /\ SameBody(b, g[b.id])
      /\ \A x \in 0 .. ids - 1 : x \notin {a.id, b.id} => SameBody(At(m.changes, x), g[x])
  BY DEF Neighbour
<1> HIDE DEF a, b
<1>2. a.id \in 0 .. ids - 1 /\ b.id \in 0 .. ids - 1 /\ 0 \notin 1 .. ids - 1
  BY <1>1 DEF Neighbour
<1>3. SameBody(a, f[a.id])
  BY <1>1, <1>2
<1>4. \A x \in 0 .. ids - 1 : x # a.id => SameBody(At(m.changes, x), f[x])
  <2>1. \A n : SameBody(n, n)
    BY SameBodyOfItself
  <2>2. QED
    BY <2>1, <1>1
<1> HIDE DEF f
<1>5. SavedAs(first, ids, values, f)
  BY <1>1, <1>3, <1>4, SaveAs
<1>6. /\ MemoryOK(first, ids, values) /\ Known(first) = 0 .. ids - 1
      /\ \A x \in 0 .. ids - 1 : SameBody(At(first.changes, x), f[x])
  BY <1>5 DEF SavedAs
<1> HIDE DEF first
<1>7. \A x \in 0 .. ids - 1 : x # b.id => SameBody(At(first.changes, x), g[x])
  BY <1>6 DEF f
<1>8. Known(first) \cup {b.id} = 0 .. ids - 1
  BY <1>2, <1>6
<1>9. SavedAs(saved, ids, values, g)
  BY <1>1, <1>6, <1>7, <1>8, SaveAs
<1> HIDE DEF saved
<1>10. SavedAs(InsertIntoList(InsertIntoList(saved, a), b), ids, values, g)
  BY <1>1, <1>2, <1>9, InsertIntoListOK
<1>11. QED
  BY <1>9, <1>10 DEF SavePair, saved, first, a, b

-------------------------------------------------------------------------------
(* A caller normalizes a child and saves its own node. *)

\* The nodes of memory m.
HeapOf(m, ids) == [x \in 0 .. ids - 1 |-> At(m.changes, x)]

LEMMA SavedTree ==
    ASSUME NEW m, NEW ids \in Int, NEW values, NEW g, SavedAs(m, ids, values, g),
           DOMAIN g = 0 .. ids - 1, NEW q, NEW less \in Nat, NEW more \in Nat, NEW k, NEW E,
           TreeAt(g, q, less, more, k, E)
    PROVE  TreeAt(HeapOf(m, ids), q, less, more, k, E)
<1> DEFINE h == HeapOf(m, ids)
<1>1. DOMAIN h = DOMAIN g /\ \A x \in DOMAIN g : SameBody(h[x], g[x])
  BY DEF SavedAs, HeapOf
<1> HIDE DEF h
<1>2. TreeAt(h, q, less, more, k, E)
  BY <1>1, SameInOrder
<1>3. QED
  BY <1>2 DEF h

LEMMA MemoryGrows ==
    ASSUME NEW m, NEW ids \in Int, NEW values \in Int, MemoryOK(m, ids, values),
           NEW ids2 \in Int, NEW values2 \in Int, ids <= ids2, values <= values2
    PROVE  MemoryOK(m, ids2, values2)
<1>1. ASSUME NEW f, Copies(f, ids, values)
      PROVE  Copies(f, ids2, values2)
  BY <1>1, NodeGrows DEF Copies
<1>2. QED
  BY <1>1, NodeGrows DEF MemoryOK

\* The caller's copy of its node, with the largest key of the child updated.
IsParent(parent, h, q, ids, values) ==
    /\ NodeOK(parent, ids, values) /\ parent.id = q[Len(q)].node.id
    /\ IsRefreshed(parent, h, q)

\* What the caller leaves to its own caller.
Ascended(parent, m, q, ids, values, less, more, key, E) ==
    /\ MemoryOK(m, ids, values) /\ Known(m) = 0 .. ids - 1
    /\ TreeAt(HeapOf(m, ids), Front(q), less, more, key, E)
    /\ NodeOK(parent, ids, values)
    /\ Cur(Front(q)) \in DOMAIN m.changes /\ At(m.changes, Cur(Front(q))) = parent

\* The family of the child, in terms of the caller's copy.
ParentIn(parent, m, h, q, i, c, ids, values) ==
    /\ parent.id \in DOMAIN h /\ parent.leaf = FALSE /\ h[parent.id].leaf = FALSE
    /\ parent.deleted = FALSE
    /\ SameCore(parent, h[parent.id])
    /\ Kids(parent) \in Nat /\ Kids(parent) >= 2 /\ Kids(h[parent.id]) = Kids(parent)
    /\ i \in 1 .. Kids(parent) /\ c = Kid(parent, i) /\ c = Kid(h[parent.id], i)
    /\ \A j \in 1 .. Kids(parent) :
            /\ Kid(parent, j) = Kid(h[parent.id], j)
            /\ Kid(parent, j) \in 1 .. ids - 1
            /\ NodeOK(GetNode(m, Kid(parent, j)), ids, values)
            /\ GetNode(m, Kid(parent, j)) = h[Kid(parent, j)]
            /\ GetNode(m, Kid(parent, j)).id = Kid(parent, j)
    /\ Cur(Front(q)) = parent.id

LEMMA ParentProperties ==
    ASSUME NEW m, NEW ids \in Int, NEW values \in Int, ids >= 1,
           MemoryOK(m, ids, values), Known(m) = 0 .. ids - 1,
           NEW q, q # <<>>, NEW less \in Nat, NEW more \in Nat,
           ShapeAt(HeapOf(m, ids), q, less, more),
           NEW parent, IsParent(parent, HeapOf(m, ids), q, ids, values)
    PROVE  ParentIn(parent, m, HeapOf(m, ids), q, q[Len(q)].index, Cur(q), ids, values)
<1> DEFINE h == HeapOf(m, ids)
           p == q[Len(q)].node.id
           i == q[Len(q)].index
           c == Cur(q)
           old == q[Len(q)].node
<1>1. Family(h, q, p, i, c, less, more)
  BY FamilyOfPath
<1>2. parent.id = p /\ SameCore(parent, old) /\ NodeOK(parent, ids, values)
  BY DEF IsParent, IsRefreshed
<1>3. p \in DOMAIN h /\ h[p].leaf = FALSE /\ SameCore(old, h[p])
      /\ i \in 1 .. Kids(h[p]) /\ c = Kid(h[p], i)
      /\ Kids(h[p]) \in Nat /\ Kids(h[p]) >= 2 /\ Cur(Front(q)) = p
  BY <1>1 DEF Family
<1>4. \A x \in 0 .. ids - 1 : h[x] = At(m.changes, x)
  BY DEF HeapOf
<1>5. \E live, height, up, pos : Linked(h, live, height, up, pos) /\ p \in live
  <2>1. PICK live, height, up, pos : /\ Linked(h, live, height, up, pos)
                                     /\ Chain(q, h, live, height)
    BY DEF ShapeAt, ShapeOn
  <2>2. LastFrame(h, q, live, height, up, pos, p, i, c)
    BY <2>1, LastFrameProperties
  <2> HIDE DEF h, p, i, c
  <2>3. p \in live
    BY <2>2 DEF LastFrame
  <2>4. QED
    BY <2>1, <2>3
<1> HIDE DEF h, p, i, c, old
<1>6. ~h[p].deleted
  BY <1>5 DEF Linked, LinkedAt
<1>7. SameCore(parent, h[p])
  BY <1>2, <1>3, SameCoreTransitive
<1>8. Kids(parent) = Kids(h[p]) /\ parent.leaf = FALSE /\ ~parent.deleted
      /\ \A j \in 1 .. Kids(h[p]) : Kid(parent, j) = Kid(h[p], j)
  BY <1>3, <1>6, <1>7 DEF SameCore
<1>9. parent.deleted = FALSE
  BY <1>2, <1>8, NodeFacts DEF NodeOK
<1>10. ASSUME NEW j \in 1 .. Kids(parent)
       PROVE  /\ Kid(parent, j) \in 1 .. ids - 1
              /\ NodeOK(GetNode(m, Kid(parent, j)), ids, values)
              /\ GetNode(m, Kid(parent, j)) = h[Kid(parent, j)]
              /\ GetNode(m, Kid(parent, j)).id = Kid(parent, j)
  <2> DEFINE k == Kid(parent, j)
  <2>1. k \in 1 .. ids - 1
    BY <1>2, <1>8 DEF NodeOK, Handed
  <2> HIDE DEF k
  <2>2. k \in Known(m) /\ k # 0 /\ k \in 0 .. ids - 1
    BY <2>1
  <2>3. NodeOK(GetNode(m, k), ids, values) /\ GetNode(m, k).id = k
        /\ GetNode(m, k) = At(m.changes, k)
    BY <2>2, GetNodeOK
  <2>4. QED
    BY <2>1, <2>2, <2>3, <1>4 DEF k
<1>11. ParentIn(parent, m, h, q, i, c, ids, values)
  BY <1>2, <1>3, <1>7, <1>8, <1>9, <1>10 DEF ParentIn
<1>12. QED
  BY <1>11 DEF h, i, c

Halves(pair, n, idL, idR, ids, values) ==
    /\ NodeOK(pair[1], ids, values) /\ NodeOK(pair[2], ids, values)
    /\ pair[1].id = idL /\ pair[2].id = idR
    /\ pair[1].leaf = n.leaf /\ pair[2].leaf = n.leaf
    /\ ~pair[1].deleted /\ ~pair[2].deleted
    /\ Middle(n) \in 0 .. Kids(n)
    /\ 2 * Middle(n) = Kids(n) \/ 2 * Middle(n) + 1 = Kids(n)
    /\ Shared(pair, n, Middle(n)) /\ KeysShared(pair, n, Middle(n))

LEMMA SplitHalves ==
    ASSUME NEW n, NEW ids \in Int, NEW values \in Int, NodeOK(n, ids, values),
           NEW idL \in 1 .. ids - 1, NEW idR \in 1 .. ids - 1
    PROVE  Halves(Split(n, idL, idR), n, idL, idR, ids, values)
BY SplitProperties, SplitKeys DEF Halves

\* normalizeNodeOverflow: the nodes of the caller's memory m are those of h, and
\* the child c at i has been shared. pair are its halves, grown is the caller's
\* copy with both, and the nodes of the new memory are those of g, up to links.
Overflown(parent, m, h, q, i, c, result, ids, values, pair, grown, g) ==
    /\ result.parent = grown /\ result.memory = SaveNode(SavePair(m, pair), grown)
    /\ pair = Split(h[c], ids, c) /\ h[c].id = c /\ NodeOK(h[c], ids, values)
    /\ Neighbour(pair[1], ids + 1, values) /\ Neighbour(pair[2], ids + 1, values)
    /\ NodeOK(grown, ids + 1, values) /\ grown.id = parent.id /\ IsInner(grown)
    /\ parent.id = q[Len(q)].node.id /\ parent.id \in 0 .. ids - 1 /\ parent.id # c
    /\ c \in 1 .. ids - 1 /\ Cur(Front(q)) = parent.id
    /\ MemoryOK(m, ids + 1, values) /\ SavedAs(result.memory, ids + 1, values, g)
    /\ parent.id \in DOMAIN result.memory.changes
    /\ At(result.memory.changes, parent.id) = grown
    /\ DOMAIN g = 0 .. ids
    /\ IsSplit(h, g, DOMAIN h, parent.id, i, c, ids, ids, c, NodeSize)
    /\ KeysShared(<<g[ids], g[c]>>, h[c], NodeSize)
    /\ KeysGrown(g[parent.id], parent, i, Key(h[c], NodeSize))
    /\ \A x \in DOMAIN h \ {parent.id, c} : SameBody(g[x], h[x])
    /\ \A x \in DOMAIN g : Kids(g[x]) = Size(g[x])

LEMMA OverflowHeap ==
    ASSUME NEW m, NEW ids \in Int, NEW values \in Int, ids >= 1, nextNodeId = ids,
           MemoryOK(m, ids, values), Known(m) = 0 .. ids - 1,
           NEW q, q # <<>>, NEW key \in Int, NEW E, TreeAt(HeapOf(m, ids), q, 0, 1, key, E),
           NEW parent, IsParent(parent, HeapOf(m, ids), q, ids, values),
           Size(HeapOf(m, ids)[Cur(q)]) = 2 * NodeSize,
           NEW result, result = NormalizeNodeOverflow(m, parent, q[Len(q)].index)
    PROVE  \E pair, grown, g :
               Overflown(parent, m, HeapOf(m, ids), q, q[Len(q)].index, Cur(q), result, ids,
                         values, pair, grown, g)
<1> DEFINE h == HeapOf(m, ids)
           p == parent.id
           i == q[Len(q)].index
           c == Cur(q)
           child == GetNode(m, parent.ptrs[i])
           pair == Split(child, ids, child.id)
           grown == AddKey(parent, i, GetMax(pair[1]), pair[1].id)
           f == [x \in 0 .. ids |-> IF x = ids THEN pair[1]
                                    ELSE IF x = c THEN pair[2] ELSE At(m.changes, x)]
           g == [x \in 0 .. ids |-> IF x = p THEN grown ELSE f[x]]
<1>1. result = [parent |-> grown, memory |-> SaveNode(SavePair(m, pair), grown)]
  BY DEF NormalizeNodeOverflow
<1>2. ParentIn(parent, m, h, q, i, c, ids, values) /\ ShapeAt(h, q, 0, 1)
  <2>1. ShapeAt(HeapOf(m, ids), q, 0, 1)
    BY TreeHasShape
  <2>2. QED
    BY <2>1, ParentProperties, 0 \in Nat, 1 \in Nat
<1>3. /\ DOMAIN h = 0 .. ids - 1 /\ \A x \in 0 .. ids - 1 : h[x] = At(m.changes, x)
      /\ Size(h[c]) = 2 * NodeSize /\ TreeAt(h, q, 0, 1, key, E)
  BY DEF HeapOf
<1>4. child = GetNode(m, Kid(parent, i))
  BY DEF Kid
<1>5. /\ parent.id = q[Len(q)].node.id /\ NodeOK(parent, ids, values)
      /\ IsRefreshed(parent, h, q)
  BY DEF IsParent
<1> HIDE DEF h, i, c, child
<1>6. /\ p \in 0 .. ids - 1 /\ c \in 1 .. ids - 1 /\ c = Kid(h[p], i)
      /\ i \in 1 .. Kids(parent) /\ i \in 1 .. Kids(h[p]) /\ Kids(h[p]) \in Nat
      /\ child = h[c] /\ child.id = c /\ NodeOK(child, ids, values)
      /\ parent.leaf = FALSE /\ h[p].leaf = FALSE /\ parent.deleted = FALSE
      /\ SameCore(parent, h[p]) /\ Cur(Front(q)) = p
  BY <1>2, <1>3, <1>4 DEF ParentIn
<1>7. p # c
  <2>1. Family(h, q, p, i, c, 0, 1)
    BY <1>2, <1>5, FamilyOfPath, 0 \in Nat, 1 \in Nat DEF i, c
  <2> HIDE DEF p
  <2>2. QED
    BY <2>1 DEF Family
<1>8. /\ NodeOK(child, ids + 1, values) /\ NodeOK(parent, ids + 1, values)
      /\ MemoryOK(m, ids + 1, values)
  BY <1>5, <1>6, NodeGrows, MemoryGrows
<1>9. /\ NodeOK(pair[1], ids + 1, values) /\ NodeOK(pair[2], ids + 1, values)
      /\ pair[1].id = ids /\ pair[2].id = c
      /\ pair[1].leaf = child.leaf /\ pair[2].leaf = child.leaf
      /\ ~pair[1].deleted /\ ~pair[2].deleted
      /\ Middle(child) \in 0 .. Kids(child)
      /\ 2 * Middle(child) = Kids(child) \/ 2 * Middle(child) + 1 = Kids(child)
      /\ Shared(pair, child, Middle(child)) /\ KeysShared(pair, child, Middle(child))
  <2>1. ids \in 1 .. ids + 1 - 1 /\ child.id \in 1 .. ids + 1 - 1 /\ ids + 1 \in Int
    BY <1>6
  <2>2. Halves(pair, child, ids, child.id, ids + 1, values)
    BY <2>1, <1>8, SplitHalves
  <2>3. QED
    BY <2>2, <1>6 DEF Halves
<1> HIDE DEF pair, p
<1>10. /\ Middle(child) = NodeSize /\ Kids(child) = 2 * NodeSize
       /\ Kids(pair[1]) = NodeSize
  <2>1. Kids(child) = Size(h[c])
    BY <1>6 DEF NodeOK
  <2>2. Kids(pair[1]) = Middle(child)
    BY <1>9 DEF Shared
  <2>3. Middle(child) \in Int
    BY <1>9, <2>1, <1>3, NodeSizeAssumption
  <2>4. QED
    BY <2>1, <2>2, <2>3, <1>3, <1>9, NodeSizeAssumption
<1>11. GetMax(pair[1]) \in Keys /\ GetMax(pair[1]) = Key(h[c], NodeSize)
  <2>1. pair[1] \in NodeRecords /\ Size(pair[1]) = NodeSize
    BY <1>9, <1>10 DEF NodeOK
  <2>2. QED
    <3>1. GetMax(pair[1]) \in Keys
      BY <2>1, NodeSizeAssumption, GetMaxIsKey
    <3>2. GetMax(pair[1]) = Key(pair[1], NodeSize)
      BY <1>9, <1>10, NodeSizeAssumption, MostIsLast DEF Most
    <3>3. NodeSize \in 1 .. NodeSize
      BY NodeSizeAssumption
    <3>4. Key(pair[1], NodeSize) = Key(child, NodeSize)
      BY <3>3, <1>9, <1>10 DEF KeysShared
    <3>5. QED
      BY <3>1, <3>2, <3>4, <1>6
<1>12. /\ NodeOK(grown, ids + 1, values) /\ Kept(grown, parent)
       /\ Grown(grown, parent, i, ids) /\ KeysGrown(grown, parent, i, Key(h[c], NodeSize))
  <2>1. /\ i \in 1 .. Kids(parent) + 1 /\ ids \in Handed(parent.leaf, ids + 1, values)
        /\ ids + 1 \in Int
    <3>1. Kids(parent) \in Nat
      BY <1>5, NodeFacts DEF NodeOK
    <3>2. QED
      BY <3>1, <1>6 DEF Handed
  <2>2. QED
    <3>1. /\ NodeOK(grown, ids + 1, values) /\ Kept(grown, parent)
          /\ Grown(grown, parent, i, ids)
      BY <2>1, <1>8, <1>9, <1>11, AddKeyProperties
    <3>2. KeysGrown(grown, parent, i, GetMax(pair[1]))
      BY <2>1, <1>8, <1>11, AddKeyKeys
    <3>3. QED
      BY <3>1, <3>2, <1>11
<1> HIDE DEF grown
<1>13. grown.id = p /\ grown.leaf = FALSE /\ grown.deleted = FALSE
  BY <1>6, <1>12 DEF Kept, p
<1>14. Doubled(grown, h[p], i, ids, c)
  BY <1>6, <1>12, DoubledByGrowth
<1>15. /\ DOMAIN f = 0 .. ids /\ f[ids] = pair[1] /\ f[c] = pair[2]
       /\ \A x \in 0 .. ids : x \notin {ids, c} => f[x] = At(m.changes, x)
  BY <1>6
<1>16. /\ DOMAIN g = 0 .. ids /\ g[p] = grown /\ g[ids] = pair[1] /\ g[c] = pair[2]
       /\ \A x \in 0 .. ids : x # p => g[x] = f[x]
       /\ \A x \in 0 .. ids - 1 : x \notin {p, c} => g[x] = h[x]
  <2> HIDE DEF f
  <2>1. ids # p /\ p \in 0 .. ids /\ ids \in 0 .. ids /\ c \in 0 .. ids
    BY <1>6
  <2>2. DOMAIN g = 0 .. ids /\ g[p] = grown /\ \A x \in 0 .. ids : x # p => g[x] = f[x]
    BY <2>1
  <2>3. g[ids] = pair[1] /\ g[c] = pair[2]
    BY <2>1, <2>2, <1>7, <1>15
  <2>4. \A x \in 0 .. ids - 1 : x \in 0 .. ids /\ x # ids
    OBVIOUS
  <2>5. QED
    BY <2>2, <2>3, <2>4, <1>3, <1>15
<1> HIDE DEF f, g
<1>17. SavedAs(SavePair(m, pair), ids + 1, values, f)
  <2>1. /\ Neighbour(pair[1], ids + 1, values) /\ Neighbour(pair[2], ids + 1, values)
        /\ pair[1].id # pair[2].id /\ ids + 1 \in Int
    <3>1. ids + 1 \in Int /\ ids \in 1 .. ids + 1 - 1 /\ c \in 1 .. ids + 1 - 1 /\ ids # c
      BY <1>6
    <3>2. QED
      BY <3>1, <1>9 DEF Neighbour
  <2>2. Known(m) \cup {pair[1].id} = 0 .. ids + 1 - 1
    BY <1>9
  <2>3. \A n : SameBody(n, n)
    BY SameBodyOfItself
  <2>4. /\ SameBody(pair[1], f[pair[1].id]) /\ SameBody(pair[2], f[pair[2].id])
    BY <2>3, <1>9, <1>15
  <2>5. \A x \in 0 .. ids + 1 - 1 :
            x \notin {pair[1].id, pair[2].id} => SameBody(At(m.changes, x), f[x])
    <3>1. 0 .. ids + 1 - 1 = 0 .. ids
      OBVIOUS
    <3>2. QED
      BY <3>1, <2>3, <1>9, <1>15
  <2>6. QED
    BY <2>1, <2>2, <2>4, <2>5, <1>8, SavePairOK
<1>18. /\ SavedAs(result.memory, ids + 1, values, g) /\ p \in DOMAIN result.memory.changes
       /\ At(result.memory.changes, p) = grown
  <2> DEFINE s == SavePair(m, pair)
  <2>1. 0 .. ids + 1 - 1 = 0 .. ids
    OBVIOUS
  <2>2. /\ MemoryOK(s, ids + 1, values) /\ Known(s) = 0 .. ids
        /\ \A x \in 0 .. ids : SameBody(At(s.changes, x), f[x])
    BY <1>17, <2>1 DEF SavedAs
  <2> HIDE DEF s
  <2>3. Known(s) \cup {grown.id} = 0 .. ids + 1 - 1
    BY <2>1, <2>2, <1>6, <1>13
  <2>4. SameBody(grown, g[grown.id])
    BY <1>13, <1>16, SameBodyOfItself
  <2>5. \A x \in 0 .. ids + 1 - 1 : x # grown.id => SameBody(At(s.changes, x), g[x])
    BY <2>1, <2>2, <1>13, <1>16
  <2>6. SavedAs(SaveNode(s, grown), ids + 1, values, g)
    BY <2>2, <2>3, <2>4, <2>5, <1>12, SaveAs
  <2>7. Saved(SaveNode(s, grown), s, grown, ids + 1, values)
    BY <2>2, <1>12, SaveNodeOK
  <2>8. result.memory = SaveNode(s, grown)
    BY <1>1 DEF s
  <2>9. QED
    BY <2>6, <2>7, <2>8, <1>13 DEF Saved
<1>19. IsSplit(h, g, DOMAIN h, p, i, c, ids, ids, c, NodeSize)
  <2>1. /\ p \in DOMAIN h /\ ~h[p].leaf /\ i \in 1 .. Kids(h[p]) /\ c = Kid(h[p], i)
        /\ ids \in Int \ DOMAIN h /\ DOMAIN h \cup {ids} \subseteq DOMAIN g
    BY <1>3, <1>6, <1>16
  <2>2. NodeSize \in 0 .. Kids(h[c])
    BY <1>6, <1>9, <1>10
  <2>3. /\ g[p].leaf = FALSE /\ ~g[p].deleted /\ Doubled(g[p], h[p], i, ids, c)
    BY <1>13, <1>14, <1>16
  <2>4. /\ g[ids].leaf = h[c].leaf /\ ~g[ids].deleted
        /\ g[c].leaf = h[c].leaf /\ ~g[c].deleted
    BY <1>6, <1>9, <1>16
  <2>5. Shared(<<g[ids], g[c]>>, h[c], NodeSize)
    BY <1>6, <1>9, <1>10, <1>16 DEF Shared
  <2>6. \A a \in DOMAIN h \ {p, c} : SameCore(g[a], h[a])
    BY <1>3, <1>16, SameBodyOfItself DEF SameBody
  <2>7. QED
    BY <2>1, <2>2, <2>3, <2>4, <2>5, <2>6 DEF IsSplit
<1>20. \A x \in DOMAIN g : Kids(g[x]) = Size(g[x])
  <2>1. Kids(grown) = Size(grown) /\ Kids(pair[1]) = Size(pair[1])
        /\ Kids(pair[2]) = Size(pair[2])
    BY <1>9, <1>12 DEF NodeOK
  <2>2. \A x \in 0 .. ids - 1 : Kids(h[x]) = Size(h[x])
    <3>1. \A x \in 0 .. ids - 1 : NodeOK(At(m.changes, x), ids, values)
      BY AtOK
    <3>2. QED
      BY <3>1, <1>3 DEF NodeOK
  <2>3. QED
    BY <2>1, <2>2, <1>16
<1>21. KeysShared(<<g[ids], g[c]>>, h[c], NodeSize)
  BY <1>6, <1>9, <1>10, <1>16 DEF KeysShared
<1>22. KeysGrown(g[p], parent, i, Key(h[c], NodeSize))
  BY <1>12, <1>16
<1>23. \A x \in DOMAIN h \ {p, c} : SameBody(g[x], h[x])
  BY <1>3, <1>16, SameBodyOfItself
<1>24. Neighbour(pair[1], ids + 1, values) /\ Neighbour(pair[2], ids + 1, values)
  <2>1. ids \in 1 .. ids + 1 - 1 /\ c \in 1 .. ids + 1 - 1
    BY <1>6
  <2>2. QED
    BY <2>1, <1>9 DEF Neighbour
<1>25. result.parent = grown /\ result.memory = SaveNode(SavePair(m, pair), grown)
  BY <1>1
<1>26. pair = Split(h[c], ids, c) /\ h[c].id = c /\ NodeOK(h[c], ids, values) /\ IsInner(grown)
       /\ p = q[Len(q)].node.id
  BY <1>5, <1>6, <1>13 DEF pair, IsInner, p
<1>27. Overflown(parent, m, h, q, i, c, result, ids, values, pair, grown, g)
  BY <1>6, <1>7, <1>8, <1>12, <1>13, <1>16, <1>18, <1>19, <1>20, <1>21, <1>22, <1>23, <1>24,
     <1>25, <1>26 DEF Overflown, p
<1>28. QED
  BY <1>27 DEF h, i, c

LEMMA OverflowStep ==
    ASSUME NEW m, NEW ids \in Int, NEW values \in Int, ids >= 1, nextNodeId = ids,
           MemoryOK(m, ids, values), Known(m) = 0 .. ids - 1,
           NEW q, q # <<>>, NEW key \in Int, NEW E, TreeAt(HeapOf(m, ids), q, 0, 1, key, E),
           NEW parent, IsParent(parent, HeapOf(m, ids), q, ids, values),
           Size(HeapOf(m, ids)[Cur(q)]) = 2 * NodeSize,
           NEW result, result = NormalizeNodeOverflow(m, parent, q[Len(q)].index)
    PROVE  Ascended(result.parent, result.memory, q, ids + 1, values, 0, 1, key, E)
<1> DEFINE h == HeapOf(m, ids)
           i == q[Len(q)].index
           c == Cur(q)
<1>1. PICK pair, grown, g :
          Overflown(parent, m, h, q, i, c, result, ids, values, pair, grown, g)
  BY OverflowHeap
<1>2. /\ DOMAIN h = 0 .. ids - 1 /\ Size(h[c]) = 2 * NodeSize /\ IsRefreshed(parent, h, q)
      /\ TreeAt(h, q, 0, 1, key, E) /\ i = q[Len(q)].index /\ c = Cur(q)
  BY DEF HeapOf, IsParent
<1> HIDE DEF h, i, c
<1>3. /\ DOMAIN g = DOMAIN h \cup {ids} /\ DOMAIN g = 0 .. ids + 1 - 1 /\ ids + 1 \in Int
  BY <1>1, <1>2 DEF Overflown
<1>4. TreeAt(g, Front(q), 0, 1, key, E)
  BY <1>1, <1>2, <1>3, OverflowInOrder DEF Overflown
<1>5. SavedAs(result.memory, ids + 1, values, g)
  BY <1>1 DEF Overflown
<1>6. TreeAt(HeapOf(result.memory, ids + 1), Front(q), 0, 1, key, E)
  BY <1>3, <1>4, <1>5, SavedTree, 0 \in Nat, 1 \in Nat
<1>7. QED
  BY <1>1, <1>5, <1>6 DEF Overflown, Ascended, SavedAs

\* The parts of normalizeNodeShortage: l and r are the neighbours, old their
\* nodes, left the two in one, shrunk the caller's copy without the second.
Short(parent, m, h, q, k, l, r, oldL, oldR, left, shrunk, m1, ids, values) ==
    /\ IsPair(h, q, parent.id, k, l, r) /\ PairFits(h, q, parent.id, l, r)
    /\ l \in 1 .. ids - 1 /\ r \in 1 .. ids - 1 /\ parent.id \in 0 .. ids - 1
    /\ oldL = h[l] /\ oldR = h[r]
    /\ NodeOK(oldL, ids, values) /\ NodeOK(oldR, ids, values) /\ oldR.id = r
    /\ NodeOK(left, ids, values) /\ left.id = l /\ left = Join(h[l], h[r])
    /\ left.leaf = h[l].leaf /\ left.deleted = FALSE
    /\ Concatenated(left, h[l], h[r]) /\ KeysConcatenated(left, h[l], h[r])
    /\ NodeOK(shrunk, ids, values) /\ shrunk.id = parent.id
    /\ shrunk.leaf = FALSE /\ shrunk.deleted = FALSE
    /\ Shrunk(shrunk, h[parent.id], k + 1)
    /\ Shrunk(shrunk, parent, k + 1) /\ KeysShrunk(shrunk, parent, k)
    /\ MemoryOK(m1, ids, values) /\ m1.changes = m.changes /\ Known(m1) = 0 .. ids - 1

ChildSet(b, n, i, p, ids, values) ==
    /\ NodeOK(b, ids, values) /\ Kept(b, n) /\ Kids(b) = Kids(n)
    /\ \A j \in 1 .. Kids(n) : Kid(b, j) = IF j = i THEN p ELSE Kid(n, j)
    /\ \A j \in 1 .. Kids(n) : Key(b, j) = Key(n, j)

LEMMA ChildIsSet ==
    ASSUME NEW n, NEW ids \in Int, NEW values \in Int, NodeOK(n, ids, values),
           NEW i \in 1 .. Kids(n), NEW p \in Handed(n.leaf, ids, values)
    PROVE  ChildSet(SetChild(n, i, p), n, i, p, ids, values)
BY SetChildProperties, SetChildKeys DEF ChildSet

LEMMA NeighbourPositions ==
    ASSUME NEW n \in Nat, n >= 2, NEW i \in 1 .. n, NEW s, s = IF i = 1 THEN 2 ELSE i
    PROVE  /\ s - 1 \in 1 .. n /\ s \in 1 .. n /\ s - 1 + 1 = s
           /\ i \in {s - 1, s} /\ s \in Int /\ s - 1 \in Int
OBVIOUS

LEMMA PositionsBefore ==
    ASSUME NEW n \in Nat
    PROVE  \A j \in 1 .. n - 1 : j \in 1 .. n /\ j + 1 \in 1 .. n
OBVIOUS

LEMMA ShortProperties ==
    ASSUME NEW m, NEW ids \in Int, NEW values \in Int, ids >= 1,
           MemoryOK(m, ids, values), Known(m) = 0 .. ids - 1,
           NEW q, q # <<>>, ShapeAt(HeapOf(m, ids), q, 1, 0),
           NEW parent, IsParent(parent, HeapOf(m, ids), q, ids, values),
           Size(HeapOf(m, ids)[Cur(q)]) + 1 = NodeSize,
           NEW s, s = IF q[Len(q)].index = 1 THEN 2 ELSE q[Len(q)].index,
           NEW oldL, oldL = GetNode(m, parent.ptrs[s - 1]),
           NEW oldR, oldR = GetNode(m, parent.ptrs[s]),
           NEW left, left = Join(oldL, oldR),
           NEW shrunk, shrunk = DeleteKey(SetChild(parent, s, left.id), s - 1),
           NEW m1, m1 = Buffered(Buffered(m, parent.ptrs[s - 1]), parent.ptrs[s])
    PROVE  /\ s - 1 \in 1 .. Kids(parent) /\ s \in 1 .. Kids(parent)
           /\ Short(parent, m, HeapOf(m, ids), q, s - 1, Kid(parent, s - 1), Kid(parent, s),
                    oldL, oldR, left, shrunk, m1, ids, values)
<1> DEFINE h == HeapOf(m, ids)
           p == parent.id
           i == q[Len(q)].index
           c == Cur(q)
           k == s - 1
           l == Kid(parent, k)
           r == Kid(parent, s)
<1>1. ParentIn(parent, m, h, q, i, c, ids, values)
  BY ParentProperties, 0 \in Nat, 1 \in Nat
<1>2. /\ oldL = GetNode(m, l) /\ oldR = GetNode(m, r)
      /\ m1 = Buffered(Buffered(m, l), r)
  BY DEF Kid
<1>3. /\ p = q[Len(q)].node.id /\ NodeOK(parent, ids, values)
      /\ s = IF i = 1 THEN 2 ELSE i
      /\ Size(h[c]) + 1 = NodeSize
      /\ ShapeAt(h, q, 1, 0)
  BY DEF IsParent
<1> HIDE DEF h, p, i, c
<1>4. /\ p \in DOMAIN h /\ parent.leaf = FALSE /\ parent.deleted = FALSE
      /\ h[p].leaf = FALSE /\ SameCore(parent, h[p])
      /\ Kids(parent) \in Nat /\ Kids(parent) >= 2 /\ Kids(h[p]) = Kids(parent)
      /\ i \in 1 .. Kids(parent)
      /\ \A j \in 1 .. Kids(parent) :
            /\ Kid(parent, j) = Kid(h[p], j)
            /\ Kid(parent, j) \in 1 .. ids - 1
            /\ NodeOK(GetNode(m, Kid(parent, j)), ids, values)
            /\ GetNode(m, Kid(parent, j)) = h[Kid(parent, j)]
            /\ GetNode(m, Kid(parent, j)).id = Kid(parent, j)
  BY <1>1 DEF ParentIn, p
<1>5. /\ k \in 1 .. Kids(parent) /\ s \in 1 .. Kids(parent) /\ k + 1 = s
      /\ i \in {k, s} /\ s \in Int /\ k \in Int
  <2>1. Kids(parent) \in Nat /\ Kids(parent) >= 2 /\ i \in 1 .. Kids(parent)
    BY <1>4
  <2>2. QED
    BY <2>1, <1>3, NeighbourPositions
<1> HIDE DEF k
<1>6. /\ l \in 1 .. ids - 1 /\ r \in 1 .. ids - 1
      /\ l = Kid(h[p], k) /\ r = Kid(h[p], s)
      /\ oldL = h[l] /\ NodeOK(oldL, ids, values) /\ oldL.id = l
      /\ oldR = h[r] /\ NodeOK(oldR, ids, values) /\ oldR.id = r
  BY <1>2, <1>4, <1>5
<1> HIDE DEF l, r
<1>7. IsPair(h, q, p, k, l, r)
  BY <1>3, <1>4, <1>5, <1>6 DEF IsPair, i, c
<1>8. PairFits(h, q, p, l, r)
  BY <1>3, <1>7, PairProperties
<1>9. /\ h[l].leaf = h[r].leaf /\ ~h[l].deleted
  BY <1>8 DEF PairFits
<1>10. /\ NodeOK(left, ids, values) /\ left.id = l
       /\ left.leaf = h[l].leaf /\ left.deleted = FALSE
       /\ Concatenated(left, h[l], h[r]) /\ KeysConcatenated(left, h[l], h[r])
  <2>1. oldL.leaf = oldR.leaf
    BY <1>6, <1>9
  <2>2. /\ NodeOK(left, ids, values) /\ left.id = oldL.id /\ left.leaf = oldL.leaf
        /\ left.deleted = oldL.deleted /\ Concatenated(left, oldL, oldR)
    BY <2>1, <1>6, JoinProperties
  <2>3. oldL.deleted \in BOOLEAN
    BY <1>6, NodeFacts DEF NodeOK
  <2>4. KeysConcatenated(left, oldL, oldR)
    BY <1>6, JoinKeys
  <2>5. QED
    BY <2>2, <2>3, <2>4, <1>6, <1>9
<1>11. /\ NodeOK(shrunk, ids, values) /\ shrunk.id = p
       /\ shrunk.leaf = FALSE /\ shrunk.deleted = FALSE
       /\ Shrunk(shrunk, h[p], k + 1)
       /\ Shrunk(shrunk, parent, k + 1) /\ KeysShrunk(shrunk, parent, k)
  <2> DEFINE b == SetChild(parent, s, l)
  <2>1. l \in Handed(parent.leaf, ids, values)
    BY <1>4, <1>6 DEF Handed
  <2>2. /\ NodeOK(b, ids, values) /\ Kept(b, parent)
        /\ Kids(b) = Kids(parent)
        /\ \A j \in 1 .. Kids(parent) : Kid(b, j) = IF j = s THEN l ELSE Kid(parent, j)
        /\ \A j \in 1 .. Kids(parent) : Key(b, j) = Key(parent, j)
    <3>1. NodeOK(parent, ids, values) /\ s \in 1 .. Kids(parent)
      BY <1>3, <1>5
    <3>2. ChildSet(b, parent, s, l, ids, values)
      BY <3>1, <2>1, ChildIsSet
    <3> HIDE DEF b
    <3>3. QED
      BY <3>2 DEF ChildSet
  <2>3. shrunk = DeleteKey(b, k)
    BY <1>10 DEF k
  <2> HIDE DEF b
  <2>4. NodeOK(shrunk, ids, values) /\ Kept(shrunk, b) /\ Shrunk(shrunk, b, k)
    BY <2>2, <2>3, <1>5, DeleteKeyProperties
  <2>5. shrunk.id = p /\ shrunk.leaf = FALSE /\ shrunk.deleted = FALSE
    BY <2>2, <2>4, <1>4 DEF Kept, p
  <2>6. Shrunk(shrunk, h[p], k + 1)
    <3>1. \A j \in 1 .. Kids(parent) :
                Kid(b, j) = IF j = k + 1 THEN Kid(h[p], k) ELSE Kid(parent, j)
      BY <2>2, <1>5, <1>6
    <3>2. /\ k \in 1 .. Kids(h[p]) /\ k + 1 \in 1 .. Kids(h[p]) /\ Kids(h[p]) \in Nat
      BY <1>4, <1>5
    <3>3. QED
      BY <3>1, <3>2, <2>2, <2>4, <1>4, ShrunkByJoin
  <2>7. Shrunk(shrunk, parent, k + 1)
    <3>1. \A j \in 1 .. Kids(parent) :
                Kid(b, j) = IF j = k + 1 THEN Kid(parent, k) ELSE Kid(parent, j)
      BY <2>2, <1>4, <1>5, <1>6
    <3>2. k \in 1 .. Kids(parent) /\ k + 1 \in 1 .. Kids(parent) /\ Kids(parent) \in Nat
      BY <1>4, <1>5
    <3>3. SameCore(parent, parent)
      BY DEF SameCore
    <3>4. QED
      BY <3>1, <3>2, <3>3, <2>2, <2>4, ShrunkByJoin
  <2>8. KeysShrunk(shrunk, parent, k)
    <3>1. KeysShrunk(shrunk, b, k)
      BY <2>2, <2>3, <1>5, DeleteKeyKeys
    <3>2. \A j \in 1 .. Kids(parent) - 1 : j \in 1 .. Kids(parent) /\ j + 1 \in 1 .. Kids(parent)
      BY <1>4, PositionsBefore
    <3>3. QED
      BY <3>1, <3>2, <2>2 DEF KeysShrunk
  <2>9. QED
    BY <2>4, <2>5, <2>6, <2>7, <2>8
<1>12. MemoryOK(m1, ids, values) /\ m1.changes = m.changes /\ Known(m1) = 0 .. ids - 1
  <2> DEFINE m0 == Buffered(m, l)
  <2>1. l \in Known(m) /\ r \in Known(m)
    BY <1>6
  <2>2. MemoryOK(m0, ids, values) /\ m0.changes = m.changes
    BY <2>1, BufferedOK
  <2>3. m1 = Buffered(m0, r)
    BY <1>2
  <2> HIDE DEF m0
  <2>4. r \in Known(m0)
    BY <2>1, <2>2 DEF Known
  <2>5. MemoryOK(m1, ids, values) /\ m1.changes = m0.changes
    BY <2>2, <2>3, <2>4, BufferedOK
  <2>6. QED
    BY <2>2, <2>5 DEF Known
<1>13. p \in 0 .. ids - 1
  BY <1>4 DEF HeapOf, h
<1>14. Short(parent, m, h, q, k, l, r, oldL, oldR, left, shrunk, m1, ids, values)
  BY <1>6, <1>7, <1>8, <1>10, <1>11, <1>12, <1>13 DEF Short, p
<1>15. QED
  BY <1>5, <1>14 DEF h, k, l, r

\* The neighbours have enough for two nodes.
\* The nodes of the new memory are those of g, up to links.
Balanced(parent, m1, h, k, l, r, left, shrunk, pair, balanced, ids, values, mid, g) ==
    /\ pair = Split(left, l, r)
    /\ Neighbour(pair[1], ids, values) /\ Neighbour(pair[2], ids, values)
    /\ NodeOK(balanced, ids, values) /\ balanced.id = parent.id /\ IsInner(balanced)
    /\ SavedAs(SaveNode(SavePair(m1, pair), balanced), ids, values, g)
    /\ parent.id \in DOMAIN SaveNode(SavePair(m1, pair), balanced).changes
    /\ At(SaveNode(SavePair(m1, pair), balanced).changes, parent.id) = balanced
    /\ DOMAIN g = DOMAIN h /\ DOMAIN g = 0 .. ids - 1
    /\ Kids(left) \in Nat /\ Kids(left) >= 2 * NodeSize /\ mid \in Int /\ mid > 0
    /\ 2 * mid = Kids(left) \/ 2 * mid + 1 = Kids(left)
    /\ IsBalance(h, g, DOMAIN h, parent.id, k, l, r, left, shrunk, mid)
    /\ KeysShared(<<g[l], g[r]>>, left, mid)
    /\ SameCore(g[parent.id], parent) /\ KeyUpdated(g[parent.id], parent, k, Key(left, mid))
    /\ \A x \in DOMAIN h \ {parent.id, l, r} : SameBody(g[x], h[x])
    /\ \A x \in DOMAIN g : Kids(g[x]) = Size(g[x])

LEMMA BalanceHeap ==
    ASSUME NEW m, NEW ids \in Int, NEW values \in Int,
           MemoryOK(m, ids, values), Known(m) = 0 .. ids - 1,
           NEW q, q # <<>>, NEW key \in Int, NEW E, TreeAt(HeapOf(m, ids), q, 1, 0, key, E),
           NEW parent, IsRefreshed(parent, HeapOf(m, ids), q),
           ParentIn(parent, m, HeapOf(m, ids), q, q[Len(q)].index, Cur(q), ids, values),
           NodeOK(parent, ids, values),
           NEW k \in 1 .. Kids(parent), NEW l, NEW r, NEW oldL, NEW oldR, NEW left, NEW shrunk,
           NEW m1,
           Short(parent, m, HeapOf(m, ids), q, k, l, r, oldL, oldR, left, shrunk, m1, ids, values),
           NeedsTwo(left),
           NEW pair, pair = Split(left, left.id, oldR.id),
           NEW balanced, balanced = UpdateKey(parent, k, GetMax(pair[1]))
    PROVE  \E mid, g : Balanced(parent, m1, HeapOf(m, ids), k, l, r, left, shrunk, pair,
                                balanced, ids, values, mid, g)
<1> DEFINE h == HeapOf(m, ids)
           p == parent.id
           mid == Middle(left)
           f == [x \in 0 .. ids - 1 |-> IF x = l THEN pair[1]
                                        ELSE IF x = r THEN pair[2] ELSE h[x]]
           g == [x \in 0 .. ids - 1 |-> IF x = p THEN balanced ELSE f[x]]
           s == SavePair(m1, pair)
<1>1. /\ DOMAIN h = 0 .. ids - 1 /\ \A x \in 0 .. ids - 1 : h[x] = At(m.changes, x)
      /\ TreeAt(h, q, 1, 0, key, E) /\ IsRefreshed(parent, h, q)
  BY DEF HeapOf
<1>2. /\ SameCore(parent, h[p]) /\ parent.leaf = FALSE /\ parent.deleted = FALSE
      /\ h[p].leaf = FALSE /\ Cur(Front(q)) = p
  BY DEF ParentIn
<1>3. /\ IsPair(h, q, p, k, l, r) /\ PairFits(h, q, p, l, r)
      /\ l \in 1 .. ids - 1 /\ r \in 1 .. ids - 1 /\ p \in 0 .. ids - 1
      /\ oldR.id = r
      /\ NodeOK(left, ids, values) /\ left.id = l
      /\ left.leaf = h[l].leaf /\ left.deleted = FALSE
      /\ Concatenated(left, h[l], h[r]) /\ KeysConcatenated(left, h[l], h[r])
      /\ shrunk.leaf = FALSE /\ shrunk.deleted = FALSE
      /\ Shrunk(shrunk, h[p], k + 1)
      /\ MemoryOK(m1, ids, values) /\ m1.changes = m.changes /\ Known(m1) = 0 .. ids - 1
  BY DEF Short
<1> HIDE DEF h, p
<1>4. l # p /\ r # p /\ l # r
  BY <1>3 DEF PairFits
<1>5. Halves(pair, left, l, r, ids, values)
  BY <1>3, SplitHalves
<1>6. /\ NodeOK(pair[1], ids, values) /\ NodeOK(pair[2], ids, values)
      /\ pair[1].id = l /\ pair[2].id = r
      /\ pair[1].leaf = h[l].leaf /\ pair[2].leaf = h[l].leaf
      /\ ~pair[1].deleted /\ ~pair[2].deleted
      /\ mid \in 0 .. Kids(left)
      /\ 2 * mid = Kids(left) \/ 2 * mid + 1 = Kids(left)
      /\ Shared(pair, left, mid) /\ KeysShared(pair, left, mid)
  BY <1>3, <1>5 DEF Halves
<1> HIDE DEF mid
<1>7. Kids(left) \in Nat /\ Kids(left) >= 2 * NodeSize /\ mid \in Int /\ mid > 0
  <2>1. Kids(left) = Size(left) /\ Size(left) \in Nat
    BY <1>3, NodeFacts DEF NodeOK
  <2>2. Kids(left) >= 2 * NodeSize
    BY <2>1, NodeSizeAssumption DEF NeedsTwo
  <2>3. mid \in Int
    BY <2>1, <1>6
  <2>4. QED
    BY <2>1, <2>2, <2>3, <1>6, NodeSizeAssumption
<1>8. GetMax(pair[1]) \in Keys /\ GetMax(pair[1]) = Key(left, mid)
  <2>1. Kids(pair[1]) = mid
    BY <1>6 DEF Shared
  <2>2. pair[1] \in NodeRecords /\ Size(pair[1]) > 0
    BY <2>1, <1>6, <1>7 DEF NodeOK
  <2>3. GetMax(pair[1]) \in Keys
    BY <2>2, GetMaxIsKey
  <2>4. GetMax(pair[1]) = Key(pair[1], mid)
    BY <2>1, <1>6, <1>7, MostIsLast DEF Most
  <2>5. mid \in 1 .. mid
    BY <1>7
  <2>6. QED
    BY <2>3, <2>4, <2>5, <1>6 DEF KeysShared
<1>9. /\ NodeOK(balanced, ids, values) /\ balanced.id = p /\ balanced.leaf = FALSE
      /\ balanced.deleted = FALSE /\ SameCore(balanced, h[p])
      /\ SameCore(balanced, parent) /\ KeyUpdated(balanced, parent, k, Key(left, mid))
  <2>1. /\ NodeOK(balanced, ids, values) /\ Kept(balanced, parent)
        /\ SameCore(balanced, parent)
    BY <1>8, UpdateKeyProperties
  <2>2. SameCore(balanced, h[p])
    BY <2>1, <1>2, SameCoreTransitive
  <2>3. KeyUpdated(balanced, parent, k, GetMax(pair[1]))
    BY <1>8, UpdateKeyKeys
  <2>4. QED
    BY <2>1, <2>2, <2>3, <1>2, <1>8 DEF Kept, p
<1>10. /\ DOMAIN f = 0 .. ids - 1 /\ f[l] = pair[1] /\ f[r] = pair[2]
       /\ \A x \in 0 .. ids - 1 : x \notin {l, r} => f[x] = h[x]
  BY <1>3, <1>4
<1> HIDE DEF f
<1>11. /\ DOMAIN g = 0 .. ids - 1 /\ g[p] = balanced /\ g[l] = pair[1] /\ g[r] = pair[2]
       /\ \A x \in 0 .. ids - 1 : x # p => g[x] = f[x]
       /\ \A x \in 0 .. ids - 1 : x \notin {p, l, r} => g[x] = h[x]
  BY <1>3, <1>4, <1>10
<1> HIDE DEF g
<1>12. \A n : SameBody(n, n)
  BY SameBodyOfItself
<1>13. SavedAs(s, ids, values, f)
  <2>1. /\ Neighbour(pair[1], ids, values) /\ Neighbour(pair[2], ids, values)
        /\ pair[1].id # pair[2].id
    BY <1>3, <1>4, <1>6 DEF Neighbour
  <2>2. Known(m1) \cup {pair[1].id} = 0 .. ids - 1
    BY <1>3, <1>6
  <2>3. /\ SameBody(pair[1], f[pair[1].id]) /\ SameBody(pair[2], f[pair[2].id])
    BY <1>6, <1>10, <1>12
  <2>4. \A x \in 0 .. ids - 1 :
            x \notin {pair[1].id, pair[2].id} => SameBody(At(m1.changes, x), f[x])
    BY <1>1, <1>3, <1>6, <1>10, <1>12
  <2>5. QED
    BY <2>1, <2>2, <2>3, <2>4, <1>3, SavePairOK
<1>14. /\ SavedAs(SaveNode(s, balanced), ids, values, g)
       /\ p \in DOMAIN SaveNode(s, balanced).changes
       /\ At(SaveNode(s, balanced).changes, p) = balanced
  <2>1. /\ MemoryOK(s, ids, values) /\ Known(s) = 0 .. ids - 1
        /\ \A x \in 0 .. ids - 1 : SameBody(At(s.changes, x), f[x])
    BY <1>13 DEF SavedAs
  <2> HIDE DEF s
  <2>2. Known(s) \cup {balanced.id} = 0 .. ids - 1
    BY <2>1, <1>3, <1>9
  <2>3. SameBody(balanced, g[balanced.id])
    BY <1>9, <1>11, <1>12
  <2>4. \A x \in 0 .. ids - 1 : x # balanced.id => SameBody(At(s.changes, x), g[x])
    BY <2>1, <1>9, <1>11
  <2>5. SavedAs(SaveNode(s, balanced), ids, values, g)
    BY <2>1, <2>2, <2>3, <2>4, <1>9, SaveAs
  <2>6. Saved(SaveNode(s, balanced), s, balanced, ids, values)
    BY <2>1, <1>9, SaveNodeOK
  <2>7. QED
    BY <2>5, <2>6, <1>9 DEF Saved
<1> HIDE DEF s
<1>15. IsBalance(h, g, DOMAIN h, p, k, l, r, left, shrunk, mid)
  <2>1. /\ p \in DOMAIN h /\ ~h[p].leaf /\ k \in 1 .. Kids(h[p]) /\ k + 1 \in 1 .. Kids(h[p])
        /\ l = Kid(h[p], k) /\ r = Kid(h[p], k + 1)
    BY <1>1, <1>2, <1>3 DEF IsPair
  <2>2. /\ left.leaf = h[l].leaf /\ ~left.deleted /\ Concatenated(left, h[l], h[r])
        /\ shrunk.leaf = FALSE /\ ~shrunk.deleted /\ Shrunk(shrunk, h[p], k + 1)
    BY <1>3
  <2>3. /\ DOMAIN h \subseteq DOMAIN g
        /\ g[p].leaf = FALSE /\ ~g[p].deleted /\ SameCore(g[p], h[p])
        /\ g[l].leaf = h[l].leaf /\ ~g[l].deleted
        /\ g[r].leaf = h[l].leaf /\ ~g[r].deleted
    BY <1>1, <1>6, <1>9, <1>11
  <2>4. mid \in 0 .. Kids(left) /\ Shared(<<g[l], g[r]>>, left, mid)
    BY <1>6, <1>11 DEF Shared
  <2>5. \A a \in DOMAIN h \ {p, l, r} : SameCore(g[a], h[a])
    BY <1>1, <1>11, <1>12 DEF SameBody
  <2>6. QED
    BY <2>1, <2>2, <2>3, <2>4, <2>5 DEF IsBalance
<1>16. \A x \in DOMAIN g : Kids(g[x]) = Size(g[x])
  <2>1. Kids(balanced) = Size(balanced) /\ Kids(pair[1]) = Size(pair[1])
        /\ Kids(pair[2]) = Size(pair[2])
    BY <1>6, <1>9 DEF NodeOK
  <2>2. \A x \in 0 .. ids - 1 : Kids(h[x]) = Size(h[x])
    <3>1. \A x \in 0 .. ids - 1 : NodeOK(At(m.changes, x), ids, values)
      BY AtOK
    <3>2. QED
      BY <3>1, <1>1 DEF NodeOK
  <2>3. QED
    BY <2>1, <2>2, <1>11
<1>17. DOMAIN g = DOMAIN h
  BY <1>1, <1>11
<1>18. KeysShared(<<g[l], g[r]>>, left, mid)
  BY <1>6, <1>11 DEF KeysShared
<1>19. SameCore(g[p], parent) /\ KeyUpdated(g[p], parent, k, Key(left, mid))
  BY <1>3, <1>9, <1>11
<1>20. \A x \in DOMAIN h \ {p, l, r} : SameBody(g[x], h[x])
  BY <1>1, <1>11, <1>12
<1>21. /\ Neighbour(pair[1], ids, values) /\ Neighbour(pair[2], ids, values)
       /\ pair = Split(left, l, r) /\ IsInner(balanced)
  BY <1>3, <1>6, <1>9 DEF Neighbour, IsInner
<1>22. 2 * mid = Kids(left) \/ 2 * mid + 1 = Kids(left)
  BY <1>6
<1>23. Balanced(parent, m1, h, k, l, r, left, shrunk, pair, balanced, ids, values, mid, g)
  BY <1>7, <1>9, <1>11, <1>14, <1>15, <1>16, <1>17, <1>18, <1>19, <1>20, <1>21, <1>22
     DEF Balanced, p, s
<1>24. QED
  BY <1>23 DEF h

LEMMA BalanceStep ==
    ASSUME NEW m, NEW ids \in Int, NEW values \in Int,
           MemoryOK(m, ids, values), Known(m) = 0 .. ids - 1,
           NEW q, q # <<>>, NEW key \in Int, NEW E, TreeAt(HeapOf(m, ids), q, 1, 0, key, E),
           NEW parent, IsRefreshed(parent, HeapOf(m, ids), q),
           ParentIn(parent, m, HeapOf(m, ids), q, q[Len(q)].index, Cur(q), ids, values),
           NodeOK(parent, ids, values),
           NEW k \in 1 .. Kids(parent), NEW l, NEW r, NEW oldL, NEW oldR, NEW left, NEW shrunk,
           NEW m1,
           Short(parent, m, HeapOf(m, ids), q, k, l, r, oldL, oldR, left, shrunk, m1, ids, values),
           NeedsTwo(left),
           NEW pair, pair = Split(left, left.id, oldR.id),
           NEW balanced, balanced = UpdateKey(parent, k, GetMax(pair[1]))
    PROVE  Ascended(balanced, SaveNode(SavePair(m1, pair), balanced), q, ids, values, 1, 0, key, E)
<1> DEFINE h == HeapOf(m, ids)
           s == SaveNode(SavePair(m1, pair), balanced)
<1>1. PICK mid, g :
          Balanced(parent, m1, h, k, l, r, left, shrunk, pair, balanced, ids, values, mid, g)
  BY BalanceHeap
<1>2. TreeAt(h, q, 1, 0, key, E) /\ IsRefreshed(parent, h, q) /\ Cur(Front(q)) = parent.id
  BY DEF ParentIn
<1>3. /\ IsPair(h, q, parent.id, k, l, r) /\ PairFits(h, q, parent.id, l, r)
      /\ KeysConcatenated(left, h[l], h[r])
  BY DEF Short
<1> HIDE DEF h
<1>4. TreeAt(g, Front(q), 1, 0, key, E)
  BY <1>1, <1>2, <1>3, BalanceInOrder DEF Balanced
<1>5. SavedAs(s, ids, values, g) /\ DOMAIN g = 0 .. ids - 1
  BY <1>1 DEF Balanced
<1>6. TreeAt(HeapOf(s, ids), Front(q), 1, 0, key, E)
  BY <1>4, <1>5, SavedTree, 0 \in Nat, 1 \in Nat
<1>7. QED
  BY <1>1, <1>2, <1>5, <1>6 DEF Balanced, Ascended, SavedAs

\* They have not: the left one takes all, the right one is deleted.
\* The nodes of the new memory are those of g, up to links; saved are the nodes
\* before the left one is linked to its new neighbour.
Merged(parent, h, k, l, r, oldR, shrunk, saved, linked, ids, values, g) ==
    /\ MemoryOK(saved, ids, values) /\ Known(saved) = 0 .. ids - 1
    /\ MemoryOK(linked, ids, values) /\ Known(linked) = 0 .. ids - 1
    /\ MemoryOK(DelNode(linked, oldR), ids, values) /\ IsInner(shrunk)
    /\ SavedAs(SaveNode(DelNode(linked, oldR), shrunk), ids, values, g)
    /\ parent.id \in DOMAIN SaveNode(DelNode(linked, oldR), shrunk).changes
    /\ At(SaveNode(DelNode(linked, oldR), shrunk).changes, parent.id) = shrunk
    /\ DOMAIN g = DOMAIN h /\ DOMAIN g = 0 .. ids - 1 /\ Size(g[r]) = Size(h[r])
    /\ IsJoin(h, g, DOMAIN h, parent.id, k, l, r) /\ Kids(h[l]) + Kids(h[r]) < 2 * NodeSize
    /\ KeysConcatenated(g[l], h[l], h[r])
    /\ Shrunk(g[parent.id], parent, k + 1) /\ KeysShrunk(g[parent.id], parent, k)
    /\ \A x \in DOMAIN h \ {parent.id, l, r} : SameBody(g[x], h[x])
    /\ \A x \in DOMAIN g : Kids(g[x]) = Size(g[x])

LEMMA JoinHeap ==
    ASSUME NEW m, NEW ids \in Int, NEW values \in Int,
           MemoryOK(m, ids, values), Known(m) = 0 .. ids - 1,
           NEW q, q # <<>>, NEW key \in Int, NEW E, TreeAt(HeapOf(m, ids), q, 1, 0, key, E),
           NEW parent, IsRefreshed(parent, HeapOf(m, ids), q),
           ParentIn(parent, m, HeapOf(m, ids), q, q[Len(q)].index, Cur(q), ids, values),
           NodeOK(parent, ids, values),
           NEW k \in 1 .. Kids(parent), NEW l, NEW r, NEW oldL, NEW oldR, NEW left, NEW shrunk,
           NEW m1,
           Short(parent, m, HeapOf(m, ids), q, k, l, r, oldL, oldR, left, shrunk, m1, ids, values),
           ~NeedsTwo(left),
           NEW saved, saved = SaveNode(SaveNode(m1, left), oldR),
           NEW linked, linked = IF left.leaf THEN InsertIntoList(saved, left) ELSE saved
    PROVE  \E g : Merged(parent, HeapOf(m, ids), k, l, r, oldR, shrunk, saved, linked, ids,
                         values, g)
<1> DEFINE h == HeapOf(m, ids)
           p == parent.id
           gone == [oldR EXCEPT !.deleted = TRUE]
           e == [x \in 0 .. ids - 1 |-> IF x = l THEN left ELSE h[x]]
           f == [x \in 0 .. ids - 1 |-> IF x = r THEN gone ELSE e[x]]
           g == [x \in 0 .. ids - 1 |-> IF x = p THEN shrunk ELSE f[x]]
           d == DelNode(linked, oldR)
<1>1. /\ DOMAIN h = 0 .. ids - 1 /\ \A x \in 0 .. ids - 1 : h[x] = At(m.changes, x)
      /\ TreeAt(h, q, 1, 0, key, E) /\ IsRefreshed(parent, h, q)
  BY DEF HeapOf
<1>2. h[p].leaf = FALSE /\ Cur(Front(q)) = p
  BY DEF ParentIn
<1>3. /\ IsPair(h, q, p, k, l, r) /\ PairFits(h, q, p, l, r)
      /\ l \in 1 .. ids - 1 /\ r \in 1 .. ids - 1 /\ p \in 0 .. ids - 1
      /\ NodeOK(oldR, ids, values) /\ oldR.id = r /\ oldR = h[r]
      /\ NodeOK(left, ids, values) /\ left.id = l
      /\ left.leaf = h[l].leaf /\ left.deleted = FALSE
      /\ Concatenated(left, h[l], h[r]) /\ KeysConcatenated(left, h[l], h[r])
      /\ NodeOK(shrunk, ids, values) /\ shrunk.id = p
      /\ shrunk.leaf = FALSE /\ shrunk.deleted = FALSE
      /\ Shrunk(shrunk, h[p], k + 1)
      /\ Shrunk(shrunk, parent, k + 1) /\ KeysShrunk(shrunk, parent, k)
      /\ MemoryOK(m1, ids, values) /\ m1.changes = m.changes /\ Known(m1) = 0 .. ids - 1
  BY DEF Short
<1> HIDE DEF h, p
<1>4. l # p /\ r # p /\ l # r
  BY <1>3 DEF PairFits
<1>5. /\ NodeOK(gone, ids, values) /\ gone.id = r /\ Size(gone) = Size(oldR)
  <2>1. oldR \in NodeRecords
    BY <1>3 DEF NodeOK
  <2>2. /\ gone \in NodeRecords /\ gone.id = oldR.id /\ gone.leaf = oldR.leaf
        /\ gone.keys = oldR.keys /\ gone.ptrs = oldR.ptrs
        /\ gone.next = oldR.next /\ gone.prev = oldR.prev
    BY <2>1 DEF NodeRecords
  <2> HIDE DEF gone
  <2>3. Kids(gone) = Kids(oldR) /\ Size(gone) = Size(oldR)
        /\ \A j : Kid(gone, j) = Kid(oldR, j)
    BY <2>2 DEF Kids, Size, Kid
  <2>4. NodeOK(gone, ids, values)
    BY <2>2, <2>3, <1>3 DEF NodeOK
  <2>5. QED
    BY <2>2, <2>3, <2>4, <1>3
<1>6. d = SaveNode(linked, gone)
  BY DEF DelNode
<1> HIDE DEF gone, d
<1>7. /\ DOMAIN e = 0 .. ids - 1 /\ e[l] = left
      /\ \A x \in 0 .. ids - 1 : x # l => e[x] = h[x]
  BY <1>3
<1> HIDE DEF e
<1>8. /\ DOMAIN f = 0 .. ids - 1 /\ f[r] = gone /\ f[l] = left
      /\ \A x \in 0 .. ids - 1 : x # r => f[x] = e[x]
      /\ \A x \in 0 .. ids - 1 : x \notin {l, r} => f[x] = h[x]
  BY <1>3, <1>4, <1>7
<1> HIDE DEF f
<1>9. /\ DOMAIN g = 0 .. ids - 1 /\ g[p] = shrunk /\ g[l] = left /\ g[r] = gone
      /\ \A x \in 0 .. ids - 1 : x # p => g[x] = f[x]
      /\ \A x \in 0 .. ids - 1 : x \notin {p, l, r} => g[x] = h[x]
  BY <1>3, <1>4, <1>8
<1> HIDE DEF g
<1>10. \A n : SameBody(n, n)
  BY SameBodyOfItself
<1>11. SavedAs(SaveNode(m1, left), ids, values, e)
  <2>1. Known(m1) \cup {left.id} = 0 .. ids - 1
    BY <1>3
  <2>2. SameBody(left, e[left.id])
    BY <1>3, <1>7, <1>10
  <2>3. \A x \in 0 .. ids - 1 : x # left.id => SameBody(At(m1.changes, x), e[x])
    BY <1>1, <1>3, <1>7, <1>10
  <2>4. QED
    BY <2>1, <2>2, <2>3, <1>3, SaveAs
<1>12. SavedAs(saved, ids, values, e)
  <2> DEFINE a == SaveNode(m1, left)
  <2>1. /\ MemoryOK(a, ids, values) /\ Known(a) = 0 .. ids - 1
        /\ \A x \in 0 .. ids - 1 : SameBody(At(a.changes, x), e[x])
    BY <1>11 DEF SavedAs
  <2>2. saved = SaveNode(a, oldR)
    OBVIOUS
  <2> HIDE DEF a
  <2>3. Known(a) \cup {oldR.id} = 0 .. ids - 1
    BY <2>1, <1>3
  <2>4. SameBody(oldR, e[oldR.id])
    BY <1>3, <1>4, <1>7, <1>10
  <2>5. SavedAs(SaveNode(a, oldR), ids, values, e)
    BY <2>1, <2>3, <2>4, <1>3, SaveAs
  <2>6. QED
    BY <2>2, <2>5
<1>13. SavedAs(linked, ids, values, e)
  <2>1. Neighbour(left, ids, values)
    BY <1>3 DEF Neighbour
  <2>2. SavedAs(InsertIntoList(saved, left), ids, values, e)
    BY <2>1, <1>12, InsertIntoListOK
  <2>3. QED
    BY <2>2, <1>12
<1>14. SavedAs(d, ids, values, f)
  <2>1. /\ MemoryOK(linked, ids, values) /\ Known(linked) = 0 .. ids - 1
        /\ \A x \in 0 .. ids - 1 : SameBody(At(linked.changes, x), e[x])
    BY <1>13 DEF SavedAs
  <2>2. Known(linked) \cup {gone.id} = 0 .. ids - 1
    BY <2>1, <1>3, <1>5
  <2>3. SameBody(gone, f[gone.id])
    BY <1>5, <1>8, <1>10
  <2>4. \A x \in 0 .. ids - 1 : x # gone.id => SameBody(At(linked.changes, x), f[x])
    BY <2>1, <1>5, <1>8
  <2>5. QED
    BY <2>1, <2>2, <2>3, <2>4, <1>5, <1>6, SaveAs
<1>15. /\ SavedAs(SaveNode(d, shrunk), ids, values, g)
       /\ p \in DOMAIN SaveNode(d, shrunk).changes
       /\ At(SaveNode(d, shrunk).changes, p) = shrunk
  <2>1. /\ MemoryOK(d, ids, values) /\ Known(d) = 0 .. ids - 1
        /\ \A x \in 0 .. ids - 1 : SameBody(At(d.changes, x), f[x])
    BY <1>14 DEF SavedAs
  <2>2. Known(d) \cup {shrunk.id} = 0 .. ids - 1
    BY <2>1, <1>3
  <2>3. SameBody(shrunk, g[shrunk.id])
    BY <1>3, <1>9, <1>10
  <2>4. \A x \in 0 .. ids - 1 : x # shrunk.id => SameBody(At(d.changes, x), g[x])
    BY <2>1, <1>3, <1>9
  <2>5. SavedAs(SaveNode(d, shrunk), ids, values, g)
    BY <2>1, <2>2, <2>3, <2>4, <1>3, SaveAs
  <2>6. Saved(SaveNode(d, shrunk), d, shrunk, ids, values)
    BY <2>1, <1>3, SaveNodeOK
  <2>7. QED
    BY <2>5, <2>6, <1>3 DEF Saved
<1>16. IsJoin(h, g, DOMAIN h, p, k, l, r)
  <2>1. /\ p \in DOMAIN h /\ ~h[p].leaf /\ k \in 1 .. Kids(h[p]) /\ k + 1 \in 1 .. Kids(h[p])
        /\ l = Kid(h[p], k) /\ r = Kid(h[p], k + 1)
    BY <1>1, <1>2, <1>3 DEF IsPair
  <2>2. /\ DOMAIN h \ {r} \subseteq DOMAIN g
        /\ g[p].leaf = FALSE /\ ~g[p].deleted /\ Shrunk(g[p], h[p], k + 1)
        /\ g[l].leaf = h[l].leaf /\ ~g[l].deleted /\ Concatenated(g[l], h[l], h[r])
    BY <1>1, <1>3, <1>9
  <2>3. \A a \in DOMAIN h \ {p, l, r} : SameCore(g[a], h[a])
    BY <1>1, <1>9, <1>10 DEF SameBody
  <2>4. QED
    BY <2>1, <2>2, <2>3 DEF IsJoin
<1>17. \A x \in 0 .. ids - 1 : Kids(h[x]) = Size(h[x]) /\ Size(h[x]) \in Nat
  <2>1. \A x \in 0 .. ids - 1 : NodeOK(At(m.changes, x), ids, values)
    BY AtOK
  <2>2. QED
    BY <2>1, <1>1, NodeFacts DEF NodeOK
<1>18. \A x \in DOMAIN g : Kids(g[x]) = Size(g[x])
  <2>1. Kids(shrunk) = Size(shrunk) /\ Kids(left) = Size(left) /\ Kids(gone) = Size(gone)
    BY <1>3, <1>5 DEF NodeOK
  <2>2. QED
    BY <2>1, <1>9, <1>17
<1>19. Kids(h[l]) + Kids(h[r]) < 2 * NodeSize
  <2>1. Kids(left) = Kids(h[l]) + Kids(h[r])
    BY <1>3 DEF Concatenated
  <2>2. Kids(left) = Size(left)
    BY <1>3 DEF NodeOK
  <2>3. Kids(h[l]) \in Nat /\ Kids(h[r]) \in Nat
    BY <1>3, <1>17
  <2>4. ~(Size(left) >= NodeSize * 2)
    BY DEF NeedsTwo
  <2>5. QED
    BY <2>1, <2>2, <2>3, <2>4, NodeSizeAssumption
<1>20. DOMAIN g = DOMAIN h /\ Size(g[r]) = Size(h[r])
  BY <1>1, <1>3, <1>5, <1>9
<1>21. KeysConcatenated(g[l], h[l], h[r])
  BY <1>3, <1>9
<1>22. Shrunk(g[p], parent, k + 1) /\ KeysShrunk(g[p], parent, k)
  BY <1>3, <1>9
<1>23. \A x \in DOMAIN h \ {p, l, r} : SameBody(g[x], h[x])
  BY <1>1, <1>9, <1>10
<1>24. /\ MemoryOK(saved, ids, values) /\ Known(saved) = 0 .. ids - 1
       /\ MemoryOK(linked, ids, values) /\ Known(linked) = 0 .. ids - 1
       /\ MemoryOK(d, ids, values) /\ IsInner(shrunk)
  BY <1>3, <1>12, <1>13, <1>14 DEF SavedAs, IsInner
<1>25. Merged(parent, h, k, l, r, oldR, shrunk, saved, linked, ids, values, g)
  BY <1>9, <1>15, <1>16, <1>18, <1>19, <1>20, <1>21, <1>22, <1>23, <1>24 DEF Merged, p, d
<1>26. QED
  BY <1>25 DEF h

LEMMA JoinStep ==
    ASSUME NEW m, NEW ids \in Int, NEW values \in Int,
           MemoryOK(m, ids, values), Known(m) = 0 .. ids - 1,
           NEW q, q # <<>>, NEW key \in Int, NEW E, TreeAt(HeapOf(m, ids), q, 1, 0, key, E),
           NEW parent, IsRefreshed(parent, HeapOf(m, ids), q),
           ParentIn(parent, m, HeapOf(m, ids), q, q[Len(q)].index, Cur(q), ids, values),
           NodeOK(parent, ids, values),
           NEW k \in 1 .. Kids(parent), NEW l, NEW r, NEW oldL, NEW oldR, NEW left, NEW shrunk,
           NEW m1,
           Short(parent, m, HeapOf(m, ids), q, k, l, r, oldL, oldR, left, shrunk, m1, ids, values),
           ~NeedsTwo(left),
           NEW saved, saved = SaveNode(SaveNode(m1, left), oldR),
           NEW linked, linked = IF left.leaf THEN InsertIntoList(saved, left) ELSE saved
    PROVE  Ascended(shrunk, SaveNode(DelNode(linked, oldR), shrunk), q, ids, values, 1, 0, key, E)
<1> DEFINE h == HeapOf(m, ids)
           s == SaveNode(DelNode(linked, oldR), shrunk)
<1>1. PICK g : Merged(parent, h, k, l, r, oldR, shrunk, saved, linked, ids, values, g)
  BY JoinHeap
<1>2. TreeAt(h, q, 1, 0, key, E) /\ IsRefreshed(parent, h, q) /\ Cur(Front(q)) = parent.id
  BY DEF ParentIn
<1>3. /\ IsPair(h, q, parent.id, k, l, r) /\ PairFits(h, q, parent.id, l, r)
      /\ NodeOK(shrunk, ids, values)
  BY DEF Short
<1> HIDE DEF h
<1>4. TreeAt(g, Front(q), 1, 0, key, E)
  BY <1>1, <1>2, <1>3, JoinInOrder DEF Merged
<1>5. SavedAs(s, ids, values, g) /\ DOMAIN g = 0 .. ids - 1
  BY <1>1 DEF Merged
<1>6. TreeAt(HeapOf(s, ids), Front(q), 1, 0, key, E)
  BY <1>4, <1>5, SavedTree, 0 \in Nat, 1 \in Nat
<1>7. QED
  BY <1>1, <1>2, <1>3, <1>5, <1>6 DEF Merged, Ascended, SavedAs

LEMMA ShortageStep ==
    ASSUME NEW m, NEW ids \in Int, NEW values \in Int, ids >= 1,
           MemoryOK(m, ids, values), Known(m) = 0 .. ids - 1,
           NEW q, q # <<>>, NEW key \in Int, NEW E, TreeAt(HeapOf(m, ids), q, 1, 0, key, E),
           NEW parent, IsParent(parent, HeapOf(m, ids), q, ids, values),
           Size(HeapOf(m, ids)[Cur(q)]) + 1 = NodeSize,
           NEW result, result = NormalizeNodeShortage(m, parent, q[Len(q)].index)
    PROVE  Ascended(result.parent, result.memory, q, ids, values, 1, 0, key, E)
<1> DEFINE i == q[Len(q)].index
           s == IF i = 1 THEN 2 ELSE i
           oldL == GetNode(m, parent.ptrs[s - 1])
           oldR == GetNode(m, parent.ptrs[s])
           left == Join(oldL, oldR)
           shrunk == DeleteKey(SetChild(parent, s, left.id), s - 1)
           m1 == Buffered(Buffered(m, parent.ptrs[s - 1]), parent.ptrs[s])
           pair == Split(left, left.id, oldR.id)
           balanced == UpdateKey(parent, s - 1, GetMax(pair[1]))
           saved == SaveNode(SaveNode(m1, left), oldR)
           linked == IF left.leaf THEN InsertIntoList(saved, left) ELSE saved
<1>1. result = IF NeedsTwo(left)
               THEN [parent |-> balanced,
                     memory |-> SaveNode(SavePair(m1, pair), balanced)]
               ELSE [parent |-> shrunk,
                     memory |-> SaveNode(DelNode(linked, oldR), shrunk)]
  BY DEF NormalizeNodeShortage
<1>2. /\ s - 1 \in 1 .. Kids(parent)
      /\ Short(parent, m, HeapOf(m, ids), q, s - 1, Kid(parent, s - 1), Kid(parent, s),
               oldL, oldR, left, shrunk, m1, ids, values)
  <2>1. ShapeAt(HeapOf(m, ids), q, 1, 0)
    BY TreeHasShape
  <2>2. /\ s = IF i = 1 THEN 2 ELSE i
        /\ oldL = GetNode(m, parent.ptrs[s - 1]) /\ oldR = GetNode(m, parent.ptrs[s])
        /\ left = Join(oldL, oldR)
        /\ shrunk = DeleteKey(SetChild(parent, s, left.id), s - 1)
        /\ m1 = Buffered(Buffered(m, parent.ptrs[s - 1]), parent.ptrs[s])
    OBVIOUS
  <2> HIDE DEF s, oldL, oldR, left, shrunk, m1
  <2>3. s = IF q[Len(q)].index = 1 THEN 2 ELSE q[Len(q)].index
    BY <2>2
  <2> HIDE DEF i
  <2>4. /\ s - 1 \in 1 .. Kids(parent) /\ s \in 1 .. Kids(parent)
        /\ Short(parent, m, HeapOf(m, ids), q, s - 1, Kid(parent, s - 1), Kid(parent, s),
                 oldL, oldR, left, shrunk, m1, ids, values)
    BY <2>1, <2>2, <2>3, ShortProperties
  <2>5. QED
    BY <2>4
<1>3. /\ ParentIn(parent, m, HeapOf(m, ids), q, i, Cur(q), ids, values)
      /\ NodeOK(parent, ids, values) /\ IsRefreshed(parent, HeapOf(m, ids), q)
  <2>1. ShapeAt(HeapOf(m, ids), q, 1, 0)
    BY TreeHasShape
  <2>2. QED
    BY <2>1, ParentProperties, 0 \in Nat, 1 \in Nat DEF IsParent
<1>4. pair = Split(left, left.id, oldR.id)
      /\ balanced = UpdateKey(parent, s - 1, GetMax(pair[1]))
      /\ saved = SaveNode(SaveNode(m1, left), oldR)
      /\ linked = IF left.leaf THEN InsertIntoList(saved, left) ELSE saved
  OBVIOUS
<1> HIDE DEF s, oldL, oldR, left, shrunk, m1, pair, balanced, saved, linked
<1>5. CASE NeedsTwo(left)
  <2>1. Ascended(balanced, SaveNode(SavePair(m1, pair), balanced), q, ids, values, 1, 0, key, E)
    BY <1>2, <1>3, <1>4, <1>5, BalanceStep
  <2>2. QED
    BY <2>1, <1>1, <1>5
<1>6. CASE ~NeedsTwo(left)
  <2>1. Ascended(shrunk, SaveNode(DelNode(linked, oldR), shrunk), q, ids, values, 1, 0, key, E)
    BY <1>2, <1>3, <1>4, <1>6, JoinStep
  <2>2. QED
    BY <2>1, <1>1, <1>6
<1>7. QED
  BY <1>5, <1>6

-------------------------------------------------------------------------------
(* The invariant *)

Ids == 0 .. nextNodeId - 1

\* The nodes of the tree: during a commit the new root is the one in memory.
Heap == [x \in Ids |-> IF pc = "commit" /\ x = 0 THEN root ELSE At(changes, x)]

Updates == call.op \in {"set", "del"}

Less == IF pc = "up" /\ call.op = "del" THEN 1 ELSE 0
More == IF pc = "up" /\ call.op = "set" THEN 1 ELSE 0

\* E are the pairs of the tree.  On the way down the call has come to where its
\* key belongs; on the way up the node at work may be one key short or one key
\* too large.
TreeOf(E) ==
    IF pc = "down" THEN AimedAt(Heap, path, call.key, E)
    ELSE TreeAt(Heap, path, Less, More, call.key, E)

\* The recursive call returns the largest key of its node.
MaxKeyOK == pc = "up" /\ Kids(Heap[Cur(path)]) > 0 => maxKey = Most(Heap[Cur(path)])

CountersOK ==
    /\ nextNodeId \in Nat /\ nextNodeId >= 1 /\ nextValueId \in Nat
    /\ calls \in 0 .. MaxCalls

NodesOK ==
    /\ Copies(nodeStorage, nextNodeId, nextValueId)
    /\ Copies(changes, nextNodeId, nextValueId) /\ Copies(buffer, nextNodeId, nextValueId)
    /\ NodeOK(root, nextNodeId, nextValueId) /\ root.id = 0
    /\ node = NoNode \/ NodeOK(node, nextNodeId, nextValueId)
    /\ pc = "down" => NodeOK(node, nextNodeId, nextValueId)

FramesOK == \A i \in 1 .. Len(path) : NodeOK(path[i].node, nextNodeId, nextValueId)

\* A commit has yet to write todo, which holds all ids that are new.
CommitOK ==
    /\ todo \subseteq DOMAIN changes /\ DOMAIN nodeStorage \cup todo = Ids
    /\ \A x \in DOMAIN changes :
            /\ Size(changes[x]) < 2 * NodeSize
            /\ x \notin todo => nodeStorage[x] = Stored(changes[x])

Contiguous(S) == \E k \in Nat : k >= 1 /\ S = 0 .. k - 1

StorageOK ==
    /\ Contiguous(DOMAIN nodeStorage)
    /\ \A x \in DOMAIN nodeStorage : Size(nodeStorage[x]) < 2 * NodeSize
    /\ pc = "commit" => CommitOK
    /\ pc # "commit" => todo = {} /\ DOMAIN changes \cup DOMAIN nodeStorage = Ids
    /\ pc \in {"idle", "down"} => DOMAIN changes = {}

CallOK ==
    /\ pc \in {"idle", "down", "up", "commit"}
    /\ call \in Calls \cup {NoCall} /\ (pc # "idle" => call \in Calls)
    /\ pc = "up" => Updates /\ maxKey \in Keys /\ (path = <<>> => 0 \in DOMAIN changes)
    /\ path # <<>> => pc \in {"down", "up"} /\ Updates

AtWork == pc = "down" /\ Updates => node = Heap[Cur(path)]

ValuesOK ==
    /\ DOMAIN valueStorage \subseteq 0 .. nextValueId - 1
    /\ \A id \in DOMAIN valueStorage : valueStorage[id] \in Values

Shape ==
    /\ CountersOK /\ NodesOK /\ FramesOK /\ StorageOK /\ CallOK /\ AtWork /\ ValuesOK
    /\ MaxKeyOK

\* The pairs of the tree match the values of the value storage.
PairsMatch(E) == TreeOf(E) /\ Matched(E, DOMAIN valueStorage)

ShapeInv == Shape /\ BufferIsCurrent /\ \E E : PairsMatch(E)

LEMMA HeapHasShape ==
    ASSUME ShapeInv
    PROVE  ShapeAt(Heap, path, Less, More)
<1>1. PICK E : PairsMatch(E)
  BY DEF ShapeInv
<1>2. CASE pc = "down"
  <2>1. AimedAt(Heap, path, call.key, E)
    BY <1>1, <1>2 DEF PairsMatch, TreeOf
  <2>2. Less = 0 /\ More = 0
    BY <1>2 DEF Less, More
  <2>3. ShapeAt(Heap, path, 0, 0)
    BY <2>1, AimHasShape
  <2>4. QED
    BY <2>2, <2>3
<1>3. CASE pc # "down"
  <2>1. TreeAt(Heap, path, Less, More, call.key, E)
    BY <1>1, <1>3 DEF PairsMatch, TreeOf
  <2>2. QED
    BY <2>1, TreeHasShape
<1>4. QED
  BY <1>2, <1>3

\* What the actions need of it while a call runs.
Running(m) ==
    /\ m = Memory
    /\ MemoryOK(m, nextNodeId, nextValueId) /\ Known(m) = 0 .. nextNodeId - 1
    /\ m.changes = changes /\ m.buffer = buffer
    /\ Heap = HeapOf(m, nextNodeId)
    /\ ShapeAt(HeapOf(m, nextNodeId), path, Less, More)
    /\ path \in Seq(Frames)
    /\ nextNodeId \in Int /\ nextNodeId >= 1 /\ nextValueId \in Int
    /\ nextNodeId \in Nat /\ nextValueId \in Nat

LEMMA RunningMemory == ASSUME ShapeInv, pc # "commit" PROVE Running(Memory)
<1> DEFINE m == Memory
<1>1. /\ CountersOK /\ NodesOK /\ StorageOK
  BY DEF ShapeInv, Shape
<1>2. m.changes = changes /\ m.buffer = buffer
  BY DEF Memory
<1>3. Current(m)
  BY MemoryCurrent DEF ShapeInv
<1> HIDE DEF m
<1>4. MemoryOK(m, nextNodeId, nextValueId)
  BY <1>1, <1>2, <1>3 DEF NodesOK, MemoryOK
<1>5. Known(m) = 0 .. nextNodeId - 1
  BY <1>1, <1>2 DEF StorageOK, Ids, Known
<1>6. Heap = HeapOf(m, nextNodeId)
  BY <1>2 DEF Heap, HeapOf, Ids
<1>7. ShapeAt(HeapOf(m, nextNodeId), path, Less, More)
  BY <1>6, HeapHasShape
<1>8. Less \in Nat /\ More \in Nat
  BY DEF Less, More
<1>9. path \in Seq(Frames)
  BY <1>7, <1>8, NodeAtWork
<1>10. QED
  BY <1>1, <1>2, <1>4, <1>5, <1>6, <1>7, <1>9 DEF CountersOK, Running, m

LEMMA InitShape == Init => Shape /\ PairsMatch({})
<1> SUFFICES ASSUME Init PROVE Shape /\ PairsMatch({})
  OBVIOUS
<1> DEFINE n == EmptyRoot
<1>1. /\ n \in NodeRecords /\ n.id = 0 /\ n.leaf = TRUE /\ n.deleted = FALSE
      /\ n.next = Nil /\ n.prev = Nil /\ n.keys = <<>> /\ n.ptrs = <<>>
  <2>1. <<>> \in Seq(Keys) /\ <<>> \in Seq(Int)
    BY EmptySeq
  <2>2. QED
    BY <2>1 DEF EmptyRoot, Leaf, Nil, NodeRecords
<1> HIDE DEF n
<1>2. Kids(n) = 0 /\ Size(n) = 0
  BY <1>1, EmptySeq DEF Kids, Size
<1>3. NodeOK(n, 1, 0)
  BY <1>1, <1>2 DEF NodeOK
<1>4. /\ root = n /\ DOMAIN nodeStorage = {0} /\ nodeStorage[0] = n
      /\ nextNodeId = 1 /\ nextValueId = 0
      /\ DOMAIN changes = {} /\ DOMAIN buffer = {} /\ DOMAIN valueStorage = {}
      /\ pc = "idle" /\ call = NoCall /\ node = NoNode /\ path = <<>>
      /\ todo = {} /\ calls = 0
  BY DEF Init, Put, Empty, n
<1>5. CountersOK
  BY <1>4, CallsAssumption DEF CountersOK
<1>6. NodesOK
  BY <1>1, <1>3, <1>4 DEF NodesOK, Copies
<1>7. FramesOK
  BY <1>4, EmptySeq DEF FramesOK
<1>8. Contiguous(DOMAIN nodeStorage)
  <2>1. 1 \in Nat /\ 1 >= 1 /\ {0} = 0 .. 1 - 1
    OBVIOUS
  <2>2. QED
    BY <2>1, <1>4 DEF Contiguous
<1>9. StorageOK
  BY <1>2, <1>4, <1>8, NodeSizeAssumption DEF StorageOK, Ids
<1>10. CallOK /\ AtWork /\ ValuesOK
  BY <1>4 DEF CallOK, AtWork, ValuesOK
<1>11. DOMAIN Heap = {0} /\ Heap[0] = n
  BY <1>4 DEF Heap, Ids, At
<1>12. TreeAt(Heap, <<>>, 0, 0, call.key, {})
  <2> DEFINE zero == [a \in Int |-> 0]
             g == Heap
             k == call.key
  <2>2. zero \in [Int -> Nat] /\ zero \in [Int -> Int] /\ zero[0] = 0
    OBVIOUS
  <2> HIDE DEF zero, g, k
  <2>1. LinkedAt(n, 0, {0}, zero, zero, zero)
    <3>1. n.leaf \in BOOLEAN /\ ~n.deleted /\ n.leaf
      BY <1>1, Zenon
    <3>2. zero[0] = 0 /\ Kids(n) \in Nat
      BY <1>2, <2>2
    <3>3. QED
      BY <3>1, <3>2, Zenon DEF LinkedAt
  <2>3. DOMAIN g = {0} /\ g[0] = n
    BY <1>11 DEF g
  <2>4. Linked(g, {0}, zero, zero, zero)
    <3>1. \A a \in {0} : LinkedAt(g[a], a, {0}, zero, zero, zero)
      BY <2>1, <2>3
    <3>2. 0 \in {0} /\ {0} \subseteq DOMAIN g /\ {0} \subseteq Int
      BY <2>3
    <3>3. QED
      BY <3>1, <3>2, <2>2, Zenon DEF Linked
  <2>5. \A x \in DOMAIN g : Size(g[x]) \in Nat /\ Kids(g[x]) = Size(g[x])
                            /\ Size(g[x]) < 2 * NodeSize
    BY <2>3, <1>2, NodeSizeAssumption
  <2>6. \A a \in {0} : Size(g[a]) >= Least(a, g[a])
    BY <2>3, <1>1, <1>2 DEF Least
  <2>7. HighEnough(g, zero)
    BY <2>2, <2>3 DEF HighEnough
  <2>8. ShapeOn(g, {0}, zero, <<>>, 0, 0)
    BY <2>4, <2>5, <2>6, <2>7, WholeTree
  <2>9. Order(g, {0}, zero, Cur(<<>>))
    <3>1. Kids(g[0]) = 0 /\ g[0].leaf = TRUE /\ zero[0] \in Int
      BY <1>1, <1>2, <2>2, <2>3
    <3>2. Ordered(g[0], zero[0], g, zero, Cur(<<>>))
      BY <3>1 DEF Ordered, Rising
    <3>3. QED
      BY <3>2, <2>2 DEF Order
  <2>10. Guided(g, <<>>, k) /\ Edged(g, <<>>, k)
    BY EmptySeq DEF Guided, Edged
  <2>11. {} = EntriesAt(g, {0})
    <3>1. PairsOf(g[0]) = {}
      BY <1>2, <2>3 DEF PairsOf
    <3>2. Own(g[0]) = {}
      BY <3>1 DEF Own
    <3>3. QED
      BY <3>2 DEF EntriesAt
  <2>12. TreeAt(g, <<>>, 0, 0, k, {})
    BY <2>8, <2>9, <2>10, <2>11 DEF TreeAt, TreeOn
  <2>13. QED
    BY <2>12 DEF g, k
<1>13. MaxKeyOK
  BY <1>4 DEF MaxKeyOK
<1>14. PairsMatch({})
  <2>1. Less = 0 /\ More = 0
    BY <1>4 DEF Less, More
  <2>2. TreeOf({})
    BY <2>1, <1>4, <1>12 DEF TreeOf
  <2>3. Matched({}, DOMAIN valueStorage)
    BY <1>4 DEF Matched, OneToOne
  <2>4. QED
    BY <2>2, <2>3 DEF PairsMatch
<1>15. QED
  BY <1>5, <1>6, <1>7, <1>9, <1>10, <1>13, <1>14 DEF Shape

-------------------------------------------------------------------------------
(* The steps of a call.  A step that is no commit leaves the storage and the *)
(* root alone; m is what it remembers.                                       *)

StepTo(m) ==
    /\ Remember(m) /\ UNCHANGED <<nodeStorage, root>>
    /\ MemoryOK(m, nextNodeId', nextValueId') /\ Known(m) = 0 .. nextNodeId' - 1
    /\ nextNodeId' \in Nat /\ nextNodeId' >= 1 /\ nextValueId' \in Nat
    /\ calls' \in 0 .. MaxCalls /\ todo' = todo
    /\ pc' \in {"idle", "down", "up"}
    /\ pc' \in {"idle", "down"} => DOMAIN m.changes = {}
    /\ node' = NoNode \/ NodeOK(node', nextNodeId', nextValueId')
    /\ pc' = "down" => NodeOK(node', nextNodeId', nextValueId')

LEMMA StepShape ==
    ASSUME ShapeInv, pc # "commit", NEW m, StepTo(m)
    PROVE  CountersOK' /\ NodesOK' /\ StorageOK' /\ Heap' = HeapOf(m, nextNodeId')
<1>1. /\ changes' = m.changes /\ buffer' = m.buffer
      /\ nodeStorage' = nodeStorage /\ root' = root /\ todo' = todo
      /\ pc' \in {"idle", "down", "up"}
  BY DEF StepTo, Remember
<1>2. CountersOK'
  BY DEF StepTo, CountersOK
<1>3. NodesOK'
  BY <1>1 DEF StepTo, MemoryOK, NodesOK
<1>4. StorageOK /\ todo = {}
  BY DEF ShapeInv, Shape, StorageOK
<1>5. DOMAIN changes' \cup DOMAIN nodeStorage' = Ids'
  BY <1>1 DEF StepTo, Known, Ids
<1>6. pc' \in {"idle", "down"} => DOMAIN changes' = {}
  BY <1>1 DEF StepTo
<1>7. StorageOK'
  BY <1>1, <1>4, <1>5, <1>6 DEF StorageOK
<1>8. Heap' = HeapOf(m, nextNodeId')
  BY <1>1 DEF Heap, HeapOf, Ids, At
<1>9. QED
  BY <1>2, <1>3, <1>7, <1>8

\* The caller of the node at work returns in turn.
LEMMA AscendKeeps ==
    ASSUME ShapeInv, NEW E, pc = "up", path # <<>>, NEW parent, NEW m, Ascend(parent, m),
           nextNodeId' \in Nat, nextNodeId' >= nextNodeId,
           Ascended(parent, m, path, nextNodeId', nextValueId, Less, More, call.key, E)
    PROVE  Shape' /\ TreeOf(E)'
<1>1. /\ CountersOK /\ NodesOK /\ FramesOK /\ CallOK /\ ValuesOK
  BY DEF ShapeInv, Shape
<1>2. /\ Remember(m) /\ path' = Front(path)
      /\ maxKey' = IF Size(parent) > 0 THEN GetMax(parent) ELSE maxKey
      /\ nodeStorage' = nodeStorage /\ valueStorage' = valueStorage /\ root' = root
      /\ nextValueId' = nextValueId /\ call' = call /\ calls' = calls /\ pc' = pc
      /\ node' = node /\ todo' = todo
  BY DEF Ascend, storages, client
<1>3. /\ nextNodeId \in Int /\ nextNodeId' \in Int /\ nextNodeId <= nextNodeId'
      /\ nextNodeId' >= 1 /\ nextValueId \in Nat /\ calls \in 0 .. MaxCalls
      /\ nextValueId \in Int /\ nextValueId <= nextValueId
  BY <1>1 DEF CountersOK
<1>4. /\ MemoryOK(m, nextNodeId', nextValueId) /\ Known(m) = 0 .. nextNodeId' - 1
      /\ TreeAt(HeapOf(m, nextNodeId'), path', Less, More, call.key, E)
      /\ NodeOK(parent, nextNodeId', nextValueId)
      /\ Cur(path') \in DOMAIN m.changes /\ At(m.changes, Cur(path')) = parent
  BY <1>2 DEF Ascended
<1>5. Less' = Less /\ More' = More
  BY <1>2 DEF Less, More
<1>6. node' = NoNode \/ NodeOK(node', nextNodeId', nextValueId')
  BY <1>1, <1>2, <1>3, NodeGrows DEF NodesOK
<1>7. StepTo(m)
  BY <1>2, <1>3, <1>4, <1>6 DEF StepTo
<1>8. CountersOK' /\ NodesOK' /\ StorageOK' /\ Heap' = HeapOf(m, nextNodeId')
  BY <1>7, StepShape
<1>9. path \in Seq(Frames)
  <2>1. Less \in Nat /\ More \in Nat /\ ShapeAt(Heap, path, Less, More)
    BY HeapHasShape DEF Less, More
  <2>2. QED
    BY <2>1, NodeAtWork
<1>10. FramesOK'
  <2>1. /\ Len(path') = Len(path) - 1 /\ Len(path) \in Nat
        /\ \A i \in 1 .. Len(path) - 1 : path'[i] = path[i]
    BY <1>2, <1>9, FrontFrames
  <2>2. \A i \in 1 .. Len(path) : NodeOK(path[i].node, nextNodeId, nextValueId)
    BY <1>1 DEF FramesOK
  <2>3. ASSUME NEW i \in 1 .. Len(path')
        PROVE  NodeOK(path'[i].node, nextNodeId', nextValueId')
    <3>1. path'[i] = path[i] /\ i \in 1 .. Len(path)
      BY <2>1
    <3>2. NodeOK(path[i].node, nextNodeId, nextValueId)
      BY <2>2, <3>1
    <3>3. QED
      BY <3>1, <3>2, <1>2, <1>3, NodeGrows
  <2>4. QED
    BY <2>3 DEF FramesOK
<1>11. CallOK'
  <2>1. maxKey' \in Keys
    <3>1. parent \in NodeRecords /\ maxKey \in Keys
      BY <1>1, <1>4 DEF NodeOK, CallOK
    <3>2. QED
      BY <3>1, <1>2, GetMaxIsKey
  <2>2. path' = <<>> => 0 \in DOMAIN changes'
    BY <1>2, <1>4 DEF Cur, Remember
  <2>3. Updates' = Updates /\ Updates
    BY <1>1, <1>2 DEF Updates, CallOK
  <2>4. QED
    BY <2>1, <2>2, <2>3, <1>1, <1>2 DEF CallOK
<1>12. AtWork' /\ ValuesOK'
  BY <1>1, <1>2 DEF AtWork, ValuesOK
<1>13. MaxKeyOK'
  <2>1. Cur(path') \in 0 .. nextNodeId' - 1
    BY <1>4 DEF Known
  <2>2. Heap'[Cur(path')] = parent
    BY <2>1, <1>4, <1>8 DEF HeapOf
  <2>3. Kids(parent) > 0 => maxKey' = Most(parent)
    <3>1. Kids(parent) \in Nat /\ Size(parent) = Kids(parent)
      BY <1>4, KeysOfNode
    <3>2. SUFFICES ASSUME Kids(parent) > 0 PROVE maxKey' = Most(parent)
      OBVIOUS
    <3>3. Kids(parent) # 0 /\ maxKey' = GetMax(parent)
      BY <3>1, <3>2, <1>2
    <3>4. QED
      BY <3>3, <1>4, MostIsLast
  <2>4. QED
    BY <2>2, <2>3 DEF MaxKeyOK
<1>14. TreeOf(E)'
  <2>1. TreeAt(Heap', path', Less', More', call'.key, E)
    BY <1>2, <1>4, <1>5, <1>8
  <2>2. pc' # "down"
    BY <1>2
  <2>3. QED
    BY <2>1, <2>2 DEF TreeOf
<1>15. QED
  BY <1>8, <1>10, <1>11, <1>12, <1>13, <1>14 DEF Shape

\* What a caller finds when the recursive call has returned.
Caller(m) ==
    /\ IsParent(Parent, HeapOf(m, nextNodeId), path, nextNodeId, nextValueId)
    /\ Parent.id \in 0 .. nextNodeId - 1 /\ Cur(Front(path)) = Parent.id
    /\ Frame.index = path[Len(path)].index
    /\ Child = HeapOf(m, nextNodeId)[Cur(path)]
    /\ Size(Child) \in Nat /\ Size(Child) + Less >= NodeSize
    /\ Size(Child) < 2 * NodeSize + More
    /\ MemoryOK(m, nextNodeId, nextValueId) /\ Known(m) = 0 .. nextNodeId - 1
    /\ ShapeAt(HeapOf(m, nextNodeId), path, Less, More)
    /\ Heap = HeapOf(m, nextNodeId)
    /\ nextNodeId \in Int /\ nextNodeId >= 1 /\ nextValueId \in Int
    /\ nextNodeId \in Nat /\ nextValueId \in Nat
    /\ Less \in Nat /\ More \in Nat /\ call.key \in Int

LEMMA CallerProperties == ASSUME ShapeInv, pc = "up", path # <<>> PROVE Caller(AfterRead)
<1> DEFINE m == Memory
           h == HeapOf(m, nextNodeId)
           p == path[Len(path)].node.id
           i == path[Len(path)].index
           n == path[Len(path)].node
<1>1. Running(Memory)
  BY RunningMemory
<1>2. /\ MemoryOK(m, nextNodeId, nextValueId) /\ Known(m) = 0 .. nextNodeId - 1
      /\ ShapeAt(h, path, Less, More) /\ path \in Seq(Frames) /\ Heap = h
      /\ nextNodeId \in Int /\ nextNodeId >= 1 /\ nextValueId \in Int
      /\ nextNodeId \in Nat /\ nextValueId \in Nat
  BY <1>1 DEF Running
<1>3. Less \in Nat /\ More \in Nat
  BY DEF Less, More
<1>4. FramesOK /\ maxKey \in Keys /\ call \in Calls /\ Updates /\ MaxKeyOK
  BY DEF ShapeInv, Shape, CallOK
<1>5. Len(path) \in 1 .. Len(path)
  BY <1>2, FrontFrames
<1>6. NodeOK(n, nextNodeId, nextValueId)
  BY <1>4, <1>5 DEF FramesOK
<1>7. Frame.node = n /\ Frame.index = i
  BY DEF Frame, Last
<1> HIDE DEF m, h
<1>8. Family(h, path, p, i, Cur(path), Less, More)
  BY <1>2, <1>3, FamilyOfPath
<1> HIDE DEF n, i
<1>9. i \in 1 .. Kids(n)
  BY <1>8 DEF Family, SameCore, n
<1>10. /\ NodeOK(Parent, nextNodeId, nextValueId) /\ Kept(Parent, n) /\ SameCore(Parent, n)
  BY <1>2, <1>4, <1>6, <1>7, <1>9, UpdateKeyProperties DEF Parent
<1>11. IsParent(Parent, h, path, nextNodeId, nextValueId)
  <2>1. Kids(h[Cur(path)]) > 0
    <3>1. Size(h[Cur(path)]) \in Nat /\ Size(h[Cur(path)]) + Less >= NodeSize
      BY <1>8 DEF Family
    <3>2. Kids(h[Cur(path)]) = Size(h[Cur(path)])
      BY <1>2, <1>3, NodeAtWork
    <3>3. Less \in {0, 1}
      BY DEF Less
    <3>4. QED
      BY <3>1, <3>2, <3>3, NodeSizeAssumption
  <2>2. maxKey = Most(h[Cur(path)])
    BY <2>1, <1>2, <1>4 DEF MaxKeyOK
  <2>3. KeyUpdated(Parent, n, i, maxKey)
    BY <1>4, <1>6, <1>7, <1>9, UpdateKeyKeys DEF Parent
  <2>4. IsRefreshed(Parent, h, path)
    BY <2>2, <2>3, <1>10 DEF IsRefreshed, n, i
  <2>5. QED
    BY <2>4, <1>10 DEF IsParent, Kept, n
<1>12. ParentIn(Parent, m, h, path, i, Cur(path), nextNodeId, nextValueId)
  BY <1>2, <1>3, <1>11, ParentProperties DEF h, i
<1>13. /\ i \in 1 .. Kids(Parent) /\ Cur(path) = Kid(Parent, i)
       /\ Kid(Parent, i) \in 1 .. nextNodeId - 1
       /\ GetNode(m, Kid(Parent, i)) = h[Kid(Parent, i)]
       /\ Cur(Front(path)) = Parent.id
  BY <1>12 DEF ParentIn
<1>14. ChildId = Cur(path) /\ ChildId \in Known(m)
  BY <1>2, <1>7, <1>13 DEF ChildId, Kid
<1>15. Child = h[Cur(path)]
  BY <1>13, <1>14 DEF Child, m
<1>16. /\ MemoryOK(AfterRead, nextNodeId, nextValueId) /\ AfterRead.changes = m.changes
  BY <1>2, <1>14, BufferedOK DEF AfterRead, m
<1>17. Known(AfterRead) = Known(m) /\ HeapOf(AfterRead, nextNodeId) = h
  BY <1>16 DEF Known, HeapOf, h
<1>18. /\ Size(Child) \in Nat /\ Size(Child) + Less >= NodeSize
       /\ Size(Child) < 2 * NodeSize + More
  BY <1>8, <1>15 DEF Family
<1>19. Parent.id \in 0 .. nextNodeId - 1
  BY <1>10 DEF NodeOK
<1>20. call.key \in Int
  BY <1>4, CallsAssumption, KeysAssumption
<1>21. QED
  BY <1>20, <1>2, <1>3, <1>7, <1>11, <1>13, <1>15, <1>16, <1>17, <1>18, <1>19 DEF Caller, i

\* The child fits: the caller only saves its node.
LEMMA AscendPlainKeeps ==
    ASSUME ShapeInv, NEW E, TreeOf(E), AscendPlain
    PROVE  Shape' /\ TreeOf(E)'
<1> DEFINE m == AfterRead
           saved == SaveNode(m, Parent)
           h == HeapOf(m, nextNodeId)
           g == HeapOf(saved, nextNodeId)
<1>1. pc = "up" /\ path # <<>> /\ ChildFits /\ Ascend(Parent, saved)
      /\ nextNodeId' = nextNodeId
  BY DEF AscendPlain
<1>2. Caller(m)
  BY <1>1, CallerProperties
<1> HIDE DEF m
<1>3. /\ IsParent(Parent, h, path, nextNodeId, nextValueId)
      /\ Parent.id \in 0 .. nextNodeId - 1 /\ Cur(Front(path)) = Parent.id
      /\ MemoryOK(m, nextNodeId, nextValueId) /\ Known(m) = 0 .. nextNodeId - 1
      /\ ShapeAt(h, path, Less, More) /\ Heap = h
      /\ nextNodeId \in Int /\ nextNodeId >= 1 /\ nextValueId \in Int
      /\ nextNodeId \in Nat /\ Less \in Nat /\ More \in Nat /\ call.key \in Int
  BY <1>2 DEF Caller
<1>4. Size(h[Cur(path)]) \in NodeSize .. 2 * NodeSize - 1
  <2>1. /\ Size(h[Cur(path)]) = Size(Child) /\ Size(Child) \in Nat
        /\ Size(Child) + Less >= NodeSize /\ Size(Child) < 2 * NodeSize + More
    BY <1>2 DEF Caller
  <2>2. \/ call.op = "set" /\ Less = 0 /\ More = 1 /\ Size(Child) # NodeSize * 2
        \/ call.op = "del" /\ Less = 1 /\ More = 0 /\ Size(Child) + 1 # NodeSize
    BY <1>1 DEF ShapeInv, Shape, CallOK, Updates, ChildFits, Less, More
  <2>3. QED
    BY <2>1, <2>2, NodeSizeAssumption
<1>5. /\ NodeOK(Parent, nextNodeId, nextValueId)
      /\ ParentIn(Parent, m, h, path, path[Len(path)].index, Cur(path), nextNodeId, nextValueId)
  BY <1>1, <1>3, ParentProperties DEF IsParent
<1>6. Saved(saved, m, Parent, nextNodeId, nextValueId)
  BY <1>3, <1>5, SaveNodeOK
<1> HIDE DEF saved
<1>7. /\ DOMAIN g = DOMAIN h /\ g[Parent.id] = Parent
      /\ \A x \in DOMAIN h \ {Parent.id} : g[x] = h[x]
  <2>1. \A x \in 0 .. nextNodeId - 1 :
            g[x] = IF x = Parent.id THEN Parent ELSE h[x]
    BY <1>6 DEF Saved, HeapOf
  <2>2. DOMAIN g = 0 .. nextNodeId - 1 /\ DOMAIN h = 0 .. nextNodeId - 1
    BY DEF HeapOf
  <2> HIDE DEF g, h
  <2>3. QED
    BY <2>1, <2>2, <1>3
<1>8. TreeAt(g, Front(path), Less, More, call.key, E)
  <2> HIDE DEF g, h
  <2>1. TreeAt(h, path, Less, More, call.key, E)
    BY <1>1, <1>3 DEF TreeOf
  <2>2. Parent.id = path[Len(path)].node.id /\ IsRefreshed(Parent, h, path)
    BY <1>3 DEF IsParent
  <2>3. SameBody(g[Parent.id], Parent)
    BY <1>7, SameBodyOfItself
  <2>4. \A x \in DOMAIN h \ {Parent.id} : SameBody(g[x], h[x])
    BY <1>7, SameBodyOfItself
  <2>5. QED
    BY <2>1, <2>2, <2>3, <2>4, <1>1, <1>3, <1>4, <1>7, PlainInOrder
<1>9. /\ MemoryOK(saved, nextNodeId, nextValueId) /\ Known(saved) = 0 .. nextNodeId - 1
      /\ Cur(Front(path)) \in DOMAIN saved.changes
      /\ At(saved.changes, Cur(Front(path))) = Parent
  BY <1>3, <1>6 DEF Saved
<1>10. Ascended(Parent, saved, path, nextNodeId, nextValueId, Less, More, call.key, E)
  BY <1>5, <1>8, <1>9 DEF Ascended
<1>11. QED
  BY <1>1, <1>3, <1>10, AscendKeeps

LEMMA SetOverflowKeeps ==
    ASSUME ShapeInv, NEW E, TreeOf(E), SetOverflow
    PROVE  Shape' /\ TreeOf(E)'
<1> DEFINE m == AfterRead
           result == NormalizeNodeOverflow(m, Parent, Frame.index)
<1>1. /\ pc = "up" /\ path # <<>> /\ call.op = "set" /\ ~ChildFits
      /\ Ascend(result.parent, result.memory) /\ nextNodeId' = nextNodeId + 1
  BY DEF SetOverflow
<1>2. Caller(m)
  BY <1>1, CallerProperties
<1>3. Less = 0 /\ More = 1
  BY <1>1 DEF Less, More
<1> HIDE DEF m
<1>4. result = NormalizeNodeOverflow(m, Parent, path[Len(path)].index)
  BY <1>2 DEF Caller
<1> HIDE DEF result
<1>5. /\ IsParent(Parent, HeapOf(m, nextNodeId), path, nextNodeId, nextValueId)
      /\ MemoryOK(m, nextNodeId, nextValueId) /\ Known(m) = 0 .. nextNodeId - 1
      /\ Heap = HeapOf(m, nextNodeId) /\ call.key \in Int
      /\ nextNodeId \in Int /\ nextNodeId >= 1 /\ nextValueId \in Int /\ nextNodeId \in Nat
  BY <1>2, <1>3 DEF Caller
<1>6. Size(HeapOf(m, nextNodeId)[Cur(path)]) = 2 * NodeSize
  <2>1. Size(Child) = NodeSize * 2
    BY <1>1 DEF ChildFits
  <2>2. QED
    BY <2>1, <1>2, NodeSizeAssumption DEF Caller
<1>7. Ascended(result.parent, result.memory, path, nextNodeId + 1, nextValueId, 0, 1,
               call.key, E)
  <2>1. TreeAt(HeapOf(m, nextNodeId), path, 0, 1, call.key, E)
    BY <1>1, <1>3, <1>5 DEF TreeOf
  <2>2. QED
    BY <2>1, <1>1, <1>4, <1>5, <1>6, OverflowStep
<1>8. /\ Ascended(result.parent, result.memory, path, nextNodeId', nextValueId, Less, More,
                  call.key, E)
      /\ nextNodeId' \in Nat /\ nextNodeId' >= nextNodeId
  BY <1>1, <1>3, <1>5, <1>7
<1>9. QED
  BY <1>1, <1>8, AscendKeeps

LEMMA DelShortageKeeps ==
    ASSUME ShapeInv, NEW E, TreeOf(E), DelShortage
    PROVE  Shape' /\ TreeOf(E)'
<1> DEFINE m == AfterRead
           result == NormalizeNodeShortage(m, Parent, Frame.index)
<1>1. /\ pc = "up" /\ path # <<>> /\ call.op = "del" /\ ~ChildFits
      /\ Ascend(result.parent, result.memory) /\ nextNodeId' = nextNodeId
  BY DEF DelShortage
<1>2. Caller(m)
  BY <1>1, CallerProperties
<1>3. Less = 1 /\ More = 0
  BY <1>1 DEF Less, More
<1> HIDE DEF m
<1>4. result = NormalizeNodeShortage(m, Parent, path[Len(path)].index)
  BY <1>2 DEF Caller
<1> HIDE DEF result
<1>5. /\ IsParent(Parent, HeapOf(m, nextNodeId), path, nextNodeId, nextValueId)
      /\ MemoryOK(m, nextNodeId, nextValueId) /\ Known(m) = 0 .. nextNodeId - 1
      /\ Heap = HeapOf(m, nextNodeId) /\ call.key \in Int
      /\ nextNodeId \in Int /\ nextNodeId >= 1 /\ nextValueId \in Int /\ nextNodeId \in Nat
  BY <1>2, <1>3 DEF Caller
<1>6. Size(HeapOf(m, nextNodeId)[Cur(path)]) + 1 = NodeSize
  <2>1. Size(Child) + 1 = NodeSize
    BY <1>1 DEF ChildFits
  <2>2. QED
    BY <2>1, <1>2 DEF Caller
<1>7. Ascended(result.parent, result.memory, path, nextNodeId, nextValueId, 1, 0,
               call.key, E)
  <2>1. TreeAt(HeapOf(m, nextNodeId), path, 1, 0, call.key, E)
    BY <1>1, <1>3, <1>5 DEF TreeOf
  <2>2. QED
    BY <2>1, <1>1, <1>4, <1>5, <1>6, ShortageStep
<1>8. /\ Ascended(result.parent, result.memory, path, nextNodeId', nextValueId, Less, More,
                  call.key, E)
      /\ nextNodeId' \in Nat /\ nextNodeId' >= nextNodeId
  BY <1>1, <1>3, <1>5, <1>7
<1>9. QED
  BY <1>1, <1>8, AscendKeeps

\* The node at work of a set or del on its way down.
AtNode(n, q, h) ==
    /\ NodeOK(n, nextNodeId, nextValueId) /\ n \in NodeRecords
    /\ n.id = Cur(q) /\ n = h[Cur(q)] /\ Cur(q) \in 0 .. nextNodeId - 1
    /\ n.leaf \in BOOLEAN /\ ~n.deleted
    /\ Size(n) \in Nat /\ Kids(n) = Size(n) /\ Size(n) < 2 * NodeSize
    /\ n.leaf = FALSE => Size(n) >= 2

\* It is in order.
LEMMA AimRises ==
    ASSUME NEW h, NEW q, NEW k, NEW E, AimedAt(h, q, k, E)
    PROVE  \E b : Rising(h[Cur(q)], b)
<1>1. PICK live, height, low : AimedOn(h, live, height, low, q, k, E)
  BY DEF AimedAt
<1>2. ShapeOn(h, live, height, q, 0, 0) /\ Order(h, live, low, 0)
  BY <1>1 DEF AimedOn
<1>3. PICK up, pos : Linked(h, live, height, up, pos) /\ Chain(q, h, live, height)
  BY <1>2 DEF ShapeOn
<1>4. Cur(q) \in live
  BY <1>3, CurLives
<1>5. QED
  BY <1>2, <1>4 DEF Order, Ordered

LEMMA NodeOfDown ==
    ASSUME ShapeInv, NEW E, TreeOf(E), pc = "down", Updates
    PROVE  /\ AimedAt(HeapOf(Memory, nextNodeId), path, call.key, E) /\ call.key \in Int
           /\ AtNode(node, path, HeapOf(Memory, nextNodeId))
           /\ Parts(node, call.key, Position)
<1> DEFINE m == Memory
           h == HeapOf(m, nextNodeId)
           c == Cur(path)
<1>1. Running(Memory)
  BY RunningMemory
<1>2. Less = 0 /\ More = 0
  BY DEF Less, More
<1>3. /\ MemoryOK(m, nextNodeId, nextValueId) /\ Known(m) = 0 .. nextNodeId - 1
      /\ Heap = h /\ ShapeAt(h, path, 0, 0) /\ nextNodeId \in Int
  BY <1>1, <1>2 DEF Running
<1>4. node = h[c]
  BY <1>3 DEF ShapeInv, Shape, AtWork
<1> HIDE DEF m
<1>5. DOMAIN h = 0 .. nextNodeId - 1
  BY DEF HeapOf
<1> HIDE DEF h
<1>6. /\ c \in DOMAIN h /\ h[c].leaf \in BOOLEAN /\ ~h[c].deleted
      /\ Size(h[c]) \in Nat /\ Kids(h[c]) = Size(h[c]) /\ Size(h[c]) < 2 * NodeSize + 0
      /\ h[c].leaf = FALSE => Size(h[c]) + 0 >= 2
  BY <1>3, NodeAtWork
<1>7. h[c] = At(m.changes, c) /\ c \in Known(m)
  BY <1>3, <1>5, <1>6 DEF HeapOf, h
<1>8. NodeOK(h[c], nextNodeId, nextValueId) /\ h[c].id = c
  BY <1>3, <1>7, AtOK
<1>9. h[c] \in NodeRecords
  BY <1>8 DEF NodeOK
<1>10. /\ Size(h[c]) < 2 * NodeSize /\ (h[c].leaf = FALSE => Size(h[c]) >= 2)
  BY <1>6, NodeSizeAssumption
<1> HIDE DEF c
<1>11. AtNode(node, path, h)
  BY <1>4, <1>5, <1>6, <1>8, <1>9, <1>10, Zenon DEF AtNode, c
<1>12. AimedAt(h, path, call.key, E)
  BY <1>3 DEF TreeOf
<1>13. call.key \in Int
  BY CallsAssumption, KeysAssumption DEF ShapeInv, Shape, CallOK
<1>14. Parts(node, call.key, Position)
  <2>1. PICK b : Rising(node, b)
    BY <1>4, <1>12, AimRises DEF c
  <2>2. node.keys \in Seq(Keys) /\ Len(node.keys) = Kids(node)
    BY <1>4, <1>8, SequencesOfNode
  <2>3. QED
    BY <2>1, <2>2, <1>13, PositionParts DEF Position
<1>15. QED
  BY <1>11, <1>12, <1>13, <1>14 DEF h, m

LEMMA EnterKeeps ==
    ASSUME ShapeInv, NEW E, TreeOf(E), pc = "down", Updates, IsInner(node),
           NEW index, IsWay(node, call.key, index), Enter(index)
    PROVE  Shape' /\ TreeOf(E)'
<1> DEFINE id == Kid(node, index)
           frame == [node |-> node, index |-> index]
           m == Buffered(Memory, id)
           h == HeapOf(Memory, nextNodeId)
<1>1. /\ path' = Append(path, frame) /\ node' = GetNode(Memory, id) /\ Remember(m)
      /\ nodeStorage' = nodeStorage /\ valueStorage' = valueStorage /\ root' = root
      /\ nextNodeId' = nextNodeId /\ nextValueId' = nextValueId
      /\ call' = call /\ calls' = calls /\ pc' = pc /\ maxKey' = maxKey /\ todo' = todo
  BY DEF Enter, storages, memory, client, Kid
<1>2. /\ CountersOK /\ FramesOK /\ CallOK /\ ValuesOK /\ StorageOK
      /\ Running(Memory)
  BY RunningMemory DEF ShapeInv, Shape
<1>3. /\ MemoryOK(Memory, nextNodeId, nextValueId) /\ Known(Memory) = 0 .. nextNodeId - 1
      /\ Memory.changes = changes /\ path \in Seq(Frames)
      /\ nextNodeId \in Nat /\ nextNodeId >= 1 /\ nextValueId \in Nat /\ nextNodeId \in Int
      /\ nextValueId \in Int
  BY <1>2 DEF Running
<1>4. AimedAt(h, path, call.key, E) /\ call.key \in Int /\ AtNode(node, path, h)
  BY NodeOfDown
<1>5. /\ NodeOK(node, nextNodeId, nextValueId) /\ node \in NodeRecords
      /\ node.id = Cur(path) /\ node = h[Cur(path)] /\ index \in 1 .. Kids(node)
  BY <1>4 DEF AtNode, IsWay
<1>6. AimedAt(h, Append(path, frame), call.key, E) /\ Cur(Append(path, frame)) = id
  <2>1. AimedAt(h, Append(path, [node |-> node, index |-> index]), call.key, E)
    <3> HIDE DEF h
    <3>1. QED
      BY <1>4, <1>5, EnterAimed
  <2>2. Cur(Append(path, [node |-> node, index |-> index])) = Kid(node, index)
    <3>1. frame \in Frames /\ Len(path) + 1 \in Nat
      BY <1>3, <1>5, LenProperties DEF Frames
    <3>2. /\ Append(path, frame) # <<>> /\ Append(path, frame)[Len(path) + 1] = frame
          /\ Len(Append(path, frame)) = Len(path) + 1
      BY <1>3, <3>1, AppendProperties
    <3>3. QED
      BY <3>2 DEF Cur
  <2>3. QED
    BY <2>1, <2>2
<1>7. id \in 1 .. nextNodeId - 1 /\ id \in Known(Memory) /\ id # 0
  <2>1. id \in 1 .. nextNodeId - 1
    BY <1>5 DEF NodeOK, Handed, IsInner
  <2>2. QED
    BY <2>1, <1>3
<1> HIDE DEF id, frame
<1>8. /\ MemoryOK(m, nextNodeId, nextValueId) /\ m.changes = Memory.changes
      /\ NodeOK(node', nextNodeId, nextValueId) /\ node' = At(Memory.changes, id)
  BY <1>1, <1>3, <1>7, BufferedOK, GetNodeOK
<1> HIDE DEF m
<1>9. Known(m) = Known(Memory) /\ HeapOf(m, nextNodeId) = h
  BY <1>8 DEF Known, HeapOf
<1>10. StepTo(m)
  BY <1>1, <1>2, <1>3, <1>8, <1>9 DEF StepTo, CountersOK, StorageOK
<1>11. CountersOK' /\ NodesOK' /\ StorageOK' /\ Heap' = HeapOf(m, nextNodeId')
  BY <1>10, StepShape
<1>12. Heap' = h
  BY <1>1, <1>9, <1>11
<1>13. TreeOf(E)'
  <2>1. AimedAt(Heap', path', call'.key, E)
    BY <1>1, <1>6, <1>12
  <2>2. pc' = "down"
    BY <1>1
  <2>3. QED
    BY <2>1, <2>2 DEF TreeOf
<1>14. FramesOK'
  <2>1. \A i \in 1 .. Len(path) : NodeOK(path[i].node, nextNodeId, nextValueId)
    BY <1>2 DEF FramesOK
  <2>2. frame.node = node
    BY DEF frame
  <2>3. /\ Len(path') = Len(path) + 1 /\ Len(path) \in Nat
        /\ \A i \in 1 .. Len(path) : path'[i] = path[i]
        /\ path'[Len(path) + 1] = frame
    <3>1. frame \in Frames
      BY <1>5 DEF frame, Frames
    <3>2. QED
      BY <1>1, <1>3, <3>1, AppendProperties, LenProperties
  <2>4. QED
    BY <1>1, <1>5, <2>1, <2>2, <2>3 DEF FramesOK
<1>15. CallOK'
  BY <1>1, <1>2 DEF CallOK, Updates
<1>16. AtWork'
  <2>1. Heap'[id] = node'
    BY <1>1, <1>7, <1>8, <1>12 DEF HeapOf
  <2>2. QED
    BY <2>1, <1>1, <1>6 DEF AtWork
<1>17. ValuesOK' /\ MaxKeyOK'
  BY <1>1, <1>2 DEF ValuesOK, MaxKeyOK
<1>18. QED
  BY <1>11, <1>13, <1>14, <1>15, <1>16, <1>17 DEF Shape

\* The way down leads to a child of the node at work.
LEMMA DescendWay ==
    ASSUME ShapeInv, NEW E, TreeOf(E), DescendSet \/ DescendDel
    PROVE  \E index : IsWay(node, call.key, index) /\ Enter(index)
<1>1. /\ pc = "down" /\ Updates /\ ~node.leaf
  BY DEF DescendSet, DescendDel, Updates
<1>2. AtNode(node, path, HeapOf(Memory, nextNodeId)) /\ Parts(node, call.key, Position)
  BY <1>1, NodeOfDown
<1>3. /\ IsInner(node) /\ Size(node) \in Nat /\ Size(node) >= 2 /\ Kids(node) = Size(node)
      /\ Position \in 1 .. Size(node) + 1
  BY <1>1, <1>2, PositionRange DEF AtNode, Position, IsInner
<1>4. QED
  <2>1. CASE DescendSet
    <3> DEFINE index == IF Position > Size(node) THEN Position - 1 ELSE Position
    <3>1. Enter(index)
      BY <2>1 DEF DescendSet
    <3>2. \/ index \in 1 .. Kids(node) /\ index = Position
          \/ index \in 1 .. Kids(node) /\ index = Kids(node) /\ index + 1 = Position
      BY <1>3
    <3> HIDE DEF index
    <3>3. IsWay(node, call.key, index)
      BY <3>2, <1>2 DEF IsWay
    <3>4. QED
      BY <3>1, <3>3
  <2>2. CASE DescendDel
    <3>1. Enter(Position) /\ Position <= Size(node)
      BY <2>2 DEF DescendDel
    <3>2. Position \in 1 .. Kids(node)
      BY <3>1, <1>3
    <3>3. IsWay(node, call.key, Position)
      BY <3>2, <1>2 DEF IsWay
    <3>4. QED
      BY <3>1, <3>3
  <2>3. QED
    BY <2>1, <2>2

LEMMA DescendKeeps ==
    ASSUME ShapeInv, NEW E, TreeOf(E), DescendSet \/ DescendDel
    PROVE  Shape' /\ TreeOf(E)'
<1>1. pc = "down" /\ Updates /\ IsInner(node)
  <2>1. pc = "down" /\ Updates /\ ~node.leaf
    BY DEF DescendSet, DescendDel, Updates
  <2>2. AtNode(node, path, HeapOf(Memory, nextNodeId))
    BY <2>1, NodeOfDown
  <2>3. QED
    BY <2>1, <2>2 DEF AtNode, IsInner
<1>2. PICK index : IsWay(node, call.key, index) /\ Enter(index)
  BY DescendWay
<1>3. QED
  BY <1>1, <1>2, EnterKeeps

\* The node at work is a leaf, and the call leaves n in its place.
LeafSaved(n) ==
    /\ node = HeapOf(Memory, nextNodeId)[Cur(path)]
    /\ LeafBecomes(HeapOf(Memory, nextNodeId), HeapOf(SaveNode(Memory, n), nextNodeId),
                   Cur(path), n)
    /\ MemoryOK(SaveNode(Memory, n), nextNodeId, nextValueId')
    /\ Known(SaveNode(Memory, n)) = 0 .. nextNodeId - 1
    /\ Cur(path) \in 0 .. nextNodeId - 1 /\ Cur(path) \in DOMAIN SaveNode(Memory, n).changes
    /\ NodeOK(node, nextNodeId, nextValueId')

LEMMA LeafIsSaved ==
    ASSUME ShapeInv, NEW E, TreeOf(E), pc = "down", Updates, NEW n,
           NodeOK(n, nextNodeId, nextValueId'), n.id = node.id, n.leaf,
           nextValueId' \in Nat, nextValueId <= nextValueId'
    PROVE  LeafSaved(n)
<1> DEFINE m == SaveNode(Memory, n)
           c == Cur(path)
           h == HeapOf(Memory, nextNodeId)
           g == HeapOf(m, nextNodeId)
<1>1. Running(Memory)
  BY RunningMemory
<1>2. /\ MemoryOK(Memory, nextNodeId, nextValueId) /\ Known(Memory) = 0 .. nextNodeId - 1
      /\ nextNodeId \in Nat /\ nextNodeId >= 1 /\ nextValueId \in Nat
      /\ nextNodeId \in Int /\ nextValueId \in Int /\ nextValueId' \in Int
  BY <1>1 DEF Running
<1>3. AtNode(node, path, h)
  BY NodeOfDown
<1>4. /\ n.id = c /\ node = h[c] /\ c \in 0 .. nextNodeId - 1
      /\ NodeOK(node, nextNodeId, nextValueId)
  BY <1>3 DEF AtNode
<1>5. MemoryOK(Memory, nextNodeId, nextValueId')
  <2> DEFINE values2 == nextValueId'
  <2>1. values2 \in Int /\ nextValueId <= values2 /\ nextNodeId <= nextNodeId
    BY <1>2
  <2> HIDE DEF values2
  <2>2. MemoryOK(Memory, nextNodeId, values2)
    BY <2>1, <1>2, MemoryGrows
  <2>3. QED
    BY <2>2 DEF values2
<1>6. Saved(m, Memory, n, nextNodeId, nextValueId')
  BY <1>2, <1>5, SaveNodeOK
<1> HIDE DEF m
<1>7. /\ MemoryOK(m, nextNodeId, nextValueId') /\ Known(m) = 0 .. nextNodeId - 1
      /\ c \in DOMAIN m.changes
  BY <1>2, <1>4, <1>6 DEF Saved
<1>8. /\ DOMAIN g = 0 .. nextNodeId - 1 /\ DOMAIN h = 0 .. nextNodeId - 1
      /\ \A x \in DOMAIN h : x # c => g[x] = h[x]
      /\ g[c] = n
  BY <1>4, <1>6 DEF Saved, HeapOf
<1>9. LeafBecomes(h, g, c, n)
  <2> HIDE DEF g, h, c
  <2>1. QED
    BY <1>8 DEF LeafBecomes
<1>10. NodeOK(node, nextNodeId, nextValueId')
  BY <1>2, <1>4, NodeGrows
<1>11. QED
  BY <1>4, <1>7, <1>9, <1>10 DEF LeafSaved, m

LEMMA LeafKeeps ==
    ASSUME ShapeInv, NEW E, TreeOf(E), pc = "down", Updates, NEW n,
           NodeOK(n, nextNodeId, nextValueId'), LeafSaved(n),
           nextValueId' \in Nat, nextValueId <= nextValueId', ValuesOK',
           Remember(SaveNode(Memory, n)),
           UNCHANGED <<nodeStorage, root, nextNodeId, call, calls, node, path, todo>>,
           pc' = "up", maxKey' \in Keys, Kids(n) # 0 => maxKey' = Most(n), NEW F,
           TreeAt(HeapOf(SaveNode(Memory, n), nextNodeId), path, Less', More', call.key, F)
    PROVE  Shape' /\ TreeOf(F)'
<1> DEFINE m == SaveNode(Memory, n)
           c == Cur(path)
           h == HeapOf(Memory, nextNodeId)
           g == HeapOf(m, nextNodeId)
<1>1. /\ CountersOK /\ NodesOK /\ FramesOK /\ CallOK /\ ValuesOK /\ StorageOK
      /\ Running(Memory)
  BY RunningMemory DEF ShapeInv, Shape
<1>2. /\ nextNodeId \in Nat /\ nextNodeId >= 1 /\ nextValueId \in Nat
      /\ nextNodeId \in Int /\ nextValueId \in Int /\ nextValueId' \in Int
  BY <1>1 DEF Running
<1>3. /\ MemoryOK(m, nextNodeId, nextValueId') /\ Known(m) = 0 .. nextNodeId - 1
      /\ c \in DOMAIN m.changes /\ NodeOK(node, nextNodeId, nextValueId')
      /\ g[c] = n
  BY DEF LeafSaved, LeafBecomes
<1> HIDE DEF m
<1>4. StepTo(m)
  BY <1>1, <1>2, <1>3 DEF StepTo, CountersOK, StorageOK, m
<1>5. CountersOK' /\ NodesOK' /\ StorageOK' /\ Heap' = HeapOf(m, nextNodeId')
  BY <1>4, StepShape
<1>6. Heap' = g
  BY <1>5
<1>7. FramesOK'
  BY <1>1, <1>2, NodeGrows DEF FramesOK
<1>8. CallOK'
  <2>1. path' = <<>> => 0 \in DOMAIN changes'
    BY <1>3 DEF Cur, Remember, m
  <2>2. Updates' /\ call' \in Calls
    BY <1>1 DEF Updates, CallOK
  <2>3. QED
    BY <2>1, <2>2 DEF CallOK
<1>9. AtWork'
  BY DEF AtWork
<1>10. MaxKeyOK'
  <2>1. Heap'[Cur(path')] = n
    BY <1>3, <1>6
  <2>2. Kids(n) > 0 => Kids(n) # 0
    OBVIOUS
  <2>3. QED
    BY <2>1, <2>2 DEF MaxKeyOK
<1>11. TreeOf(F)'
  <2>1. TreeAt(Heap', path', Less', More', call'.key, F)
    BY <1>6 DEF m
  <2>2. QED
    BY <2>1 DEF TreeOf
<1>12. QED
  BY <1>5, <1>7, <1>8, <1>9, <1>10, <1>11 DEF Shape

\* What the leaf cases of set and del start from.
LEMMA LeafAtWork ==
    ASSUME ShapeInv, NEW E, TreeOf(E), pc = "down", Updates, node.leaf
    PROVE  /\ node.leaf = TRUE /\ node.deleted = FALSE /\ node \in NodeRecords
           /\ NodeOK(node, nextNodeId, nextValueId)
           /\ AimedAt(HeapOf(Memory, nextNodeId), path, call.key, E) /\ call.key \in Int
           /\ Parts(node, call.key, Position)
           /\ Position \in 1 .. Kids(node) + 1 /\ Kids(node) = Size(node) /\ Size(node) \in Nat
           /\ FindKey # Nil => /\ FindKey = Position /\ FindKey \in 1 .. Kids(node)
                               /\ node.ptrs[FindKey] \in 0 .. nextValueId - 1
                               /\ Key(node, FindKey) = call.key
           /\ FindKey = Nil /\ Position <= Kids(node) => Key(node, Position) # call.key
           /\ call.key \in Keys /\ (call.op = "set" => call.arg \in Values)
           /\ nextNodeId \in Int /\ nextValueId \in Nat /\ ValuesOK
<1>1. /\ AtNode(node, path, HeapOf(Memory, nextNodeId))
      /\ AimedAt(HeapOf(Memory, nextNodeId), path, call.key, E) /\ call.key \in Int
      /\ Parts(node, call.key, Position)
  BY NodeOfDown
<1>2. /\ NodeOK(node, nextNodeId, nextValueId) /\ node \in NodeRecords
      /\ node.leaf \in BOOLEAN /\ ~node.deleted
      /\ Kids(node) = Size(node) /\ Size(node) \in Nat
  BY <1>1 DEF AtNode
<1>3. node.leaf = TRUE /\ node.deleted = FALSE
  BY <1>2, NodeFacts
<1>4. Position \in 1 .. Kids(node) + 1
  BY <1>2, PositionRange DEF Position
<1>5. FindKey # Nil => FindKey = Position /\ FindKey \in 1 .. Kids(node)
  BY <1>2, FindKeyRange
<1>6. FindKey # Nil => node.ptrs[FindKey] \in 0 .. nextValueId - 1
  BY <1>2, <1>3, <1>5 DEF NodeOK, Handed, Kid
<1>7. call \in Calls /\ CountersOK /\ ValuesOK
  BY DEF ShapeInv, Shape, CallOK
<1>8. /\ call.key \in Keys /\ (call.op = "set" => call.arg \in Values)
  BY <1>7, CallsAssumption
<1>9. FindKey # Nil => Key(node, FindKey) = call.key
  BY DEF FindKey, Key
<1>10. FindKey = Nil /\ Position <= Kids(node) => Key(node, Position) # call.key
  BY <1>2, <1>4 DEF FindKey, Key, Nil
<1>11. QED
  BY <1>1, <1>2, <1>3, <1>4, <1>5, <1>6, <1>7, <1>8, <1>9, <1>10 DEF CountersOK

LEMMA SetLeafAddKeeps ==
    ASSUME ShapeInv, NEW E, TreeOf(E), SetLeafAdd,
           NEW F, F = E \cup {<<call.key, nextValueId>>}
    PROVE  Shape' /\ TreeOf(F)' /\ \A e \in E : e[1] # call.key
<1> DEFINE n == AddKey(node, Position, call.key, nextValueId)
<1>1. /\ pc = "down" /\ call.op = "set" /\ Updates /\ node.leaf /\ FindKey = Nil
      /\ valueStorage' = Put(valueStorage, nextValueId, call.arg)
      /\ nextValueId' = nextValueId + 1
      /\ Remember(SaveNode(Memory, n)) /\ maxKey' = GetMax(n) /\ pc' = "up"
      /\ UNCHANGED <<nodeStorage, root, nextNodeId, call, calls, node, path, todo>>
  BY DEF SetLeafAdd, Updates, client
<1>2. /\ node.leaf = TRUE /\ node.deleted = FALSE
      /\ NodeOK(node, nextNodeId, nextValueId)
      /\ Position \in 1 .. Kids(node) + 1 /\ Kids(node) = Size(node) /\ Size(node) \in Nat
      /\ call.key \in Keys /\ call.arg \in Values /\ call.key \in Int
      /\ nextNodeId \in Int /\ nextValueId \in Nat /\ ValuesOK
  BY <1>1, LeafAtWork
<1>3. nextValueId' \in Nat /\ nextValueId <= nextValueId' /\ nextValueId' \in Int
      /\ nextValueId \in Int /\ nextValueId \in 0 .. nextValueId' - 1
  BY <1>1, <1>2
<1>4. NodeOK(node, nextNodeId, nextValueId')
  BY <1>2, <1>3, NodeGrows
<1>5. nextValueId \in Handed(node.leaf, nextNodeId, nextValueId')
  BY <1>2, <1>3 DEF Handed
<1>6. /\ NodeOK(n, nextNodeId, nextValueId') /\ Kept(n, node)
      /\ Grown(n, node, Position, nextValueId)
  BY <1>2, <1>3, <1>4, <1>5, AddKeyProperties
<1> HIDE DEF n
<1>7. /\ n.id = node.id /\ n.leaf = TRUE /\ ~n.deleted
  BY <1>2, <1>6 DEF Kept
<1>8. Size(n) = Size(node) + 1 /\ n \in NodeRecords
  BY <1>2, <1>6 DEF Grown, NodeOK
<1>9. maxKey' \in Keys
  BY <1>1, <1>2, <1>8, GetMaxIsKey
<1>10. ValuesOK'
  BY <1>1, <1>2, <1>3 DEF ValuesOK, Put
<1>11. LeafSaved(n)
  BY <1>1, <1>3, <1>6, <1>7, LeafIsSaved
<1> DEFINE h == HeapOf(Memory, nextNodeId)
           g == HeapOf(SaveNode(Memory, n), nextNodeId)
           c == Cur(path)
<1>12. node = h[c] /\ LeafBecomes(h, g, c, n) /\ AimedAt(h, path, call.key, E)
  BY <1>1, <1>11, LeafAtWork DEF LeafSaved
<1>13. LeafAdds(node, n, call.key, Position, nextValueId)
  <2>1. Parts(node, call.key, Position)
    BY <1>1, LeafAtWork
  <2>2. Position <= Kids(node) => Key(node, Position) # call.key
    BY <1>1, LeafAtWork
  <2>3. KeysGrown(n, node, Position, call.key)
    BY <1>2, <1>4, AddKeyKeys DEF n
  <2>4. QED
    BY <2>1, <2>2, <2>3, <1>6 DEF LeafAdds
<1>14. LeafResized(n, node, 0, 1)
  <2>1. Kids(n) = Size(n)
    BY <1>6, SequencesOfNode
  <2>2. QED
    BY <2>1, <1>2, <1>7, <1>8 DEF LeafResized
<1> HIDE DEF h, g, c
<1>15. TreeAt(g, path, 0, 1, call.key, E \cup {<<call.key, nextValueId>>})
  BY <1>2, <1>12, <1>13, <1>14, AddInOrder DEF c
<1>16. \A e \in E : e[1] # call.key
  BY <1>2, <1>12, <1>13, <1>14, AddInOrder DEF c
<1>17. TreeAt(HeapOf(SaveNode(Memory, n), nextNodeId), path, Less', More', call.key, F)
  <2>1. Less' = 0 /\ More' = 1
    BY <1>1 DEF Less, More
  <2>2. QED
    BY <2>1, <1>15 DEF g
<1>18. Kids(n) # 0 => maxKey' = Most(n)
  BY <1>1, <1>6, MostIsLast
<1>19. QED
  BY <1>1, <1>3, <1>6, <1>9, <1>10, <1>11, <1>16, <1>17, <1>18, LeafKeeps

LEMMA SetLeafReplaceKeeps ==
    ASSUME ShapeInv, NEW E, TreeOf(E), SetLeafReplace
    PROVE  Shape' /\ TreeOf(E)' /\ <<call.key, node.ptrs[FindKey]>> \in E
<1>1. /\ pc = "down" /\ call.op = "set" /\ Updates /\ node.leaf /\ FindKey # Nil
      /\ valueStorage' = Put(valueStorage, node.ptrs[FindKey], call.arg)
      /\ nextValueId' = nextValueId
      /\ Remember(SaveNode(Memory, node)) /\ maxKey' = GetMax(node) /\ pc' = "up"
      /\ UNCHANGED <<nodeStorage, root, nextNodeId, call, calls, node, path, todo>>
  BY DEF SetLeafReplace, Updates, client, memory
<1>2. /\ node.leaf = TRUE /\ node.deleted = FALSE /\ node \in NodeRecords
      /\ NodeOK(node, nextNodeId, nextValueId)
      /\ Kids(node) = Size(node) /\ Size(node) \in Nat
      /\ FindKey \in 1 .. Kids(node) /\ node.ptrs[FindKey] \in 0 .. nextValueId - 1
      /\ call.arg \in Values /\ call.key \in Int /\ Key(node, FindKey) = call.key
      /\ nextNodeId \in Int /\ nextValueId \in Nat /\ ValuesOK
  BY <1>1, LeafAtWork
<1>3. nextValueId' \in Nat /\ nextValueId <= nextValueId'
      /\ NodeOK(node, nextNodeId, nextValueId')
  BY <1>1, <1>2
<1>4. maxKey' \in Keys
  BY <1>1, <1>2, GetMaxIsKey
<1>5. ValuesOK'
  BY <1>1, <1>2 DEF ValuesOK, Put
<1>6. LeafSaved(node)
  BY <1>1, <1>3, LeafIsSaved
<1> DEFINE h == HeapOf(Memory, nextNodeId)
           g == HeapOf(SaveNode(Memory, node), nextNodeId)
           c == Cur(path)
<1>7. node = h[c] /\ LeafBecomes(h, g, c, node) /\ AimedAt(h, path, call.key, E)
  BY <1>1, <1>6, LeafAtWork DEF LeafSaved
<1>8. g = h
  <2>1. \A x \in 0 .. nextNodeId - 1 : g[x] = h[x]
    <3>1. DOMAIN h = 0 .. nextNodeId - 1
      BY DEF HeapOf
    <3> HIDE DEF h, g, c
    <3>2. QED
      BY <3>1, <1>7 DEF LeafBecomes
  <2>2. /\ g = [x \in 0 .. nextNodeId - 1 |-> g[x]]
        /\ h = [x \in 0 .. nextNodeId - 1 |-> h[x]]
    BY DEF HeapOf
  <2> HIDE DEF h, g
  <2>3. QED
    BY <2>1, <2>2
<1>9. LeafResized(node, node, 0, 1)
  BY <1>2 DEF LeafResized
<1> HIDE DEF h, g, c
<1>10. TreeAt(h, path, 0, 1, call.key, E) /\ <<call.key, Kid(node, FindKey)>> \in E
  BY <1>2, <1>7, <1>8, <1>9, ReplaceInOrder DEF c
<1>11. TreeAt(HeapOf(SaveNode(Memory, node), nextNodeId), path, Less', More', call.key, E)
  <2>1. Less' = 0 /\ More' = 1
    BY <1>1 DEF Less, More
  <2>2. QED
    BY <2>1, <1>8, <1>10 DEF g
<1>12. Kids(node) # 0 => maxKey' = Most(node)
  BY <1>1, <1>2, MostIsLast
<1>13. QED
  BY <1>1, <1>3, <1>4, <1>5, <1>6, <1>10, <1>11, <1>12, LeafKeeps DEF Kid

LEMMA DelLeafKeeps ==
    ASSUME ShapeInv, NEW E, TreeOf(E), DelLeaf,
           NEW F, F = E \ {<<call.key, node.ptrs[FindKey]>>}
    PROVE  Shape' /\ TreeOf(F)' /\ <<call.key, node.ptrs[FindKey]>> \in E
<1> DEFINE n == DeleteKey(node, FindKey)
<1>1. /\ pc = "down" /\ call.op = "del" /\ Updates /\ node.leaf /\ FindKey # Nil
      /\ valueStorage' = Drop(valueStorage, node.ptrs[FindKey])
      /\ nextValueId' = nextValueId
      /\ Remember(SaveNode(Memory, n)) /\ pc' = "up"
      /\ maxKey' = IF Size(n) > 0 THEN GetMax(n) ELSE call.key
      /\ UNCHANGED <<nodeStorage, root, nextNodeId, call, calls, node, path, todo>>
  BY DEF DelLeaf, Updates, client, memory
<1>2. /\ node.leaf = TRUE /\ node.deleted = FALSE
      /\ NodeOK(node, nextNodeId, nextValueId)
      /\ Kids(node) = Size(node) /\ Size(node) \in Nat
      /\ FindKey \in 1 .. Kids(node) /\ call.key \in Keys
      /\ call.key \in Int /\ Key(node, FindKey) = call.key
      /\ nextNodeId \in Int /\ nextValueId \in Nat /\ ValuesOK
  BY <1>1, LeafAtWork
<1>3. /\ NodeOK(n, nextNodeId, nextValueId) /\ Kept(n, node) /\ Shrunk(n, node, FindKey)
  <2>1. nextValueId \in Int
    BY <1>2
  <2>2. QED
    BY <1>2, <2>1, DeleteKeyProperties
<1> HIDE DEF n
<1>4. /\ n.id = node.id /\ n.leaf = TRUE /\ ~n.deleted
  BY <1>2, <1>3 DEF Kept
<1>5. Size(n) + 1 = Size(node) /\ n \in NodeRecords /\ Size(n) \in Nat
  <2>1. n \in NodeRecords /\ Kids(n) = Size(n) /\ Kids(n) = Kids(node) - 1
    BY <1>3 DEF Shrunk, NodeOK
  <2>2. Size(n) \in Nat
    BY <2>1, NodeFacts
  <2>3. QED
    BY <2>1, <2>2, <1>2
<1>6. maxKey' \in Keys
  BY <1>1, <1>2, <1>5, GetMaxIsKey
<1>7. ValuesOK'
  BY <1>1, <1>2 DEF ValuesOK, Drop
<1>8. nextValueId' \in Nat /\ nextValueId <= nextValueId'
      /\ NodeOK(n, nextNodeId, nextValueId')
  BY <1>1, <1>2, <1>3
<1>9. LeafSaved(n)
  BY <1>1, <1>4, <1>8, LeafIsSaved
<1> DEFINE h == HeapOf(Memory, nextNodeId)
           g == HeapOf(SaveNode(Memory, n), nextNodeId)
           c == Cur(path)
<1>10. node = h[c] /\ LeafBecomes(h, g, c, n) /\ AimedAt(h, path, call.key, E)
  BY <1>1, <1>9, LeafAtWork DEF LeafSaved
<1>11. KeysShrunk(n, node, FindKey)
  BY <1>2, DeleteKeyKeys DEF n
<1>12. LeafResized(n, node, 1, 0)
  <2>1. Kids(n) = Size(n)
    BY <1>3, SequencesOfNode
  <2>2. QED
    BY <2>1, <1>2, <1>4, <1>5 DEF LeafResized
<1> HIDE DEF h, g, c
<1>13. /\ TreeAt(g, path, 1, 0, call.key, E \ {<<call.key, Kid(node, FindKey)>>})
       /\ <<call.key, Kid(node, FindKey)>> \in E
  BY <1>2, <1>3, <1>10, <1>11, <1>12, DeleteInOrder DEF c
<1>14. TreeAt(HeapOf(SaveNode(Memory, n), nextNodeId), path, Less', More', call.key, F)
  <2>1. Less' = 1 /\ More' = 0
    BY <1>1 DEF Less, More
  <2>2. QED
    BY <2>1, <1>13 DEF g, Kid
<1>15. Kids(n) # 0 => maxKey' = Most(n)
  <2>1. Kids(n) = Size(n)
    BY <1>3, SequencesOfNode
  <2>2. QED
    BY <2>1, <1>1, <1>3, <1>5, MostIsLast
<1>16. QED
  BY <1>1, <1>6, <1>7, <1>8, <1>9, <1>13, <1>14, <1>15, LeafKeeps DEF Kid

\* At the root the key of the call does not matter.
LEMMA AnyKey ==
    ASSUME NEW h, NEW less, NEW more, NEW j, NEW E, TreeAt(h, <<>>, less, more, j, E), NEW k
    PROVE  TreeAt(h, <<>>, less, more, k, E)
<1>1. PICK live, height, low : TreeOn(h, live, height, low, <<>>, less, more, j, E)
  BY DEF TreeAt
<1>2. Guided(h, <<>>, k) /\ Edged(h, <<>>, k)
  BY EmptySeq DEF Guided, Edged
<1>3. TreeOn(h, live, height, low, <<>>, less, more, k, E)
  BY <1>1, <1>2 DEF TreeOn
<1>4. QED
  BY <1>3 DEF TreeAt

\* A call that has changed nothing leaves the memory as it is.
LEMMA QuietKeeps ==
    ASSUME ShapeInv, NEW E, TreeOf(E), pc \in {"idle", "down"},
           UNCHANGED <<storages, memory, scratch, todo>>, calls' \in 0 .. MaxCalls,
           pc' \in {"idle", "down"}, call' \in Calls \cup {NoCall},
           pc' # "idle" => call' \in Calls,
           node' = NoNode \/ NodeOK(node', nextNodeId, nextValueId),
           pc' = "down" => NodeOK(node', nextNodeId, nextValueId),
           path' = <<>>, Updates' /\ pc' = "down" => node' = root
    PROVE  Shape' /\ TreeOf(E)'
<1> DEFINE m == Memory
           h == HeapOf(m, nextNodeId)
<1>1. /\ CountersOK /\ StorageOK /\ ValuesOK /\ Running(Memory) /\ DOMAIN changes = {}
  BY RunningMemory DEF ShapeInv, Shape, StorageOK
<1>2. /\ nodeStorage' = nodeStorage /\ valueStorage' = valueStorage /\ root' = root
      /\ nextNodeId' = nextNodeId /\ nextValueId' = nextValueId /\ todo' = todo
      /\ changes' = changes /\ buffer' = buffer
  BY DEF storages, memory, scratch
<1>3. Less = 0 /\ More = 0 /\ Less' = 0 /\ More' = 0
  BY DEF Less, More
<1>4. /\ MemoryOK(m, nextNodeId, nextValueId) /\ Known(m) = 0 .. nextNodeId - 1
      /\ m.changes = changes /\ m.buffer = buffer
      /\ nextNodeId \in Nat /\ nextNodeId >= 1 /\ nextValueId \in Nat
      /\ Heap = h
  BY <1>1, <1>3 DEF Running
<1> HIDE DEF m
<1>5. StepTo(m)
  BY <1>1, <1>2, <1>4 DEF StepTo, Remember
<1>6. TreeAt(h, <<>>, 0, 0, call.key, E)
  <2>1. CASE pc = "down"
    BY <2>1, <1>4, HomeInOrder DEF TreeOf
  <2>2. CASE pc = "idle"
    BY <2>2, <1>3, <1>4 DEF TreeOf, ShapeInv, Shape, CallOK
  <2>3. QED
    BY <2>1, <2>2
<1>7. CountersOK' /\ NodesOK' /\ StorageOK' /\ Heap' = HeapOf(m, nextNodeId')
  BY <1>5, StepShape
<1>13. TreeOf(E)'
  <2> DEFINE k == call'.key
  <2>1. Heap' = h
    BY <1>2, <1>7
  <2>2. CASE pc' = "down"
    <3>1. k \in Int
      BY <2>2, CallsAssumption, KeysAssumption
    <3> HIDE DEF k, h
    <3>2. AimedAt(h, <<>>, k, E)
      BY <3>1, <1>6, StartsAimed
    <3>3. QED
      BY <3>2, <2>1, <2>2 DEF TreeOf, k
  <2>3. CASE pc' = "idle"
    <3> HIDE DEF k, h
    <3>1. TreeAt(h, <<>>, 0, 0, k, E)
      BY <1>6, AnyKey
    <3>2. TreeAt(Heap', path', Less', More', k, E)
      BY <3>1, <2>1, <1>3
    <3>3. QED
      BY <3>2, <2>3 DEF TreeOf, k
  <2>4. QED
    BY <2>2, <2>3
<1>8. FramesOK'
  BY EmptySeq DEF FramesOK
<1>9. CallOK'
  BY DEF CallOK
<1>10. AtWork'
  <2>1. Heap'[0] = root /\ Cur(path') = 0
    BY <1>1, <1>2, <1>4, <1>7 DEF HeapOf, At, Cur
  <2>2. QED
    BY <2>1 DEF AtWork
<1>11. ValuesOK' /\ MaxKeyOK'
  BY <1>1, <1>2 DEF ValuesOK, MaxKeyOK
<1>12. QED
  BY <1>7, <1>8, <1>9, <1>10, <1>11, <1>13 DEF Shape

LEMMA InvokeKeeps ==
    ASSUME ShapeInv, NEW E, TreeOf(E), NEW c \in Calls, Invoke(c)
    PROVE  Shape' /\ TreeOf(E)'
<1>1. /\ pc = "idle" /\ calls < MaxCalls /\ pc' = "down" /\ call' = c /\ calls' = calls + 1
      /\ node' = root /\ path' = path
      /\ UNCHANGED <<storages, memory, scratch, todo>>
  BY DEF Invoke
<1>2. /\ path = <<>> /\ calls \in 0 .. MaxCalls /\ NodeOK(root, nextNodeId, nextValueId)
  BY <1>1 DEF ShapeInv, Shape, CallOK, CountersOK, NodesOK
<1>3. calls' \in 0 .. MaxCalls
  BY <1>1, <1>2, CallsAssumption
<1>4. QED
  BY <1>1, <1>2, <1>3, QuietKeeps

\* The call returns, or throws, from where it is.
LEMMA ReturnKeeps ==
    ASSUME ShapeInv, NEW E, TreeOf(E), pc = "down", NEW r, Return(r), UNCHANGED scratch
    PROVE  Shape' /\ TreeOf(E)'
<1>1. /\ pc' = "idle" /\ node' = NoNode /\ path' = <<>> /\ todo' = {}
      /\ call' = call /\ calls' = calls
      /\ UNCHANGED <<storages, memory, scratch>>
  BY DEF Return
<1>2. /\ todo = {} /\ calls \in 0 .. MaxCalls /\ call \in Calls \cup {NoCall}
  BY DEF ShapeInv, Shape, StorageOK, CountersOK, CallOK
<1>3. QED
  BY <1>1, <1>2, QuietKeeps

\* get and getRange go on to another node.
LEMMA MoveKeeps ==
    ASSUME ShapeInv, NEW E, TreeOf(E), pc = "down", ~Updates,
           NEW id \in 0 .. nextNodeId - 1, node' = GetNode(Memory, id),
           UNCHANGED <<storages, memory, scratch, todo, call, calls, pc, path>>
    PROVE  Shape' /\ TreeOf(E)'
<1>1. /\ MemoryOK(Memory, nextNodeId, nextValueId) /\ id \in Known(Memory)
      /\ nextNodeId \in Int
  BY RunningMemory DEF Running
<1>2. NodeOK(node', nextNodeId, nextValueId)
  BY <1>1, GetNodeOK
<1>3. /\ path = <<>> /\ calls \in 0 .. MaxCalls /\ call \in Calls
  BY DEF ShapeInv, Shape, CallOK, CountersOK
<1>4. ~Updates'
  BY DEF Updates
<1>5. QED
  BY <1>2, <1>3, <1>4, QuietKeeps

LEMMA FindNodeKeeps ==
    ASSUME ShapeInv, NEW E, TreeOf(E), FindNode
    PROVE  Shape' /\ TreeOf(E)'
<1>1. /\ pc = "down" /\ ~Updates /\ ~node.leaf /\ Position <= Size(node)
      /\ node' = GetNode(Memory, Kid(node, Position))
      /\ UNCHANGED <<storages, memory, scratch, todo, call, calls, pc, path>>
  BY DEF FindNode, Updates, client, ChildAtPosition, Kid
<1>2. NodeOK(node, nextNodeId, nextValueId)
  BY <1>1 DEF ShapeInv, Shape, NodesOK
<1>3. /\ node \in NodeRecords /\ node.leaf \in BOOLEAN /\ Size(node) \in Nat
      /\ Kids(node) = Size(node)
  BY <1>2, NodeFacts DEF NodeOK
<1>4. Position \in 1 .. Kids(node)
  <2>1. Position \in 1 .. Size(node) + 1
    BY <1>3, PositionRange DEF Position
  <2>2. QED
    BY <2>1, <1>1, <1>3
<1>5. Kid(node, Position) \in 0 .. nextNodeId - 1
  <2>1. Kid(node, Position) \in Handed(node.leaf, nextNodeId, nextValueId)
    BY <1>2, <1>4 DEF NodeOK
  <2>2. QED
    BY <2>1, <1>1 DEF Handed
<1>6. QED
  BY <1>1, <1>5, MoveKeeps

LEMMA GetRangeNextLeafKeeps ==
    ASSUME ShapeInv, NEW E, TreeOf(E), GetRangeNextLeaf
    PROVE  Shape' /\ TreeOf(E)'
<1>1. /\ pc = "down" /\ ~Updates /\ node.next # Nil
      /\ node' = GetNode(Memory, node.next)
      /\ UNCHANGED <<storages, memory, scratch, todo, call, calls, pc, path>>
  BY DEF GetRangeNextLeaf, Updates, client, LastLeaf
<1>2. NodeOK(node, nextNodeId, nextValueId)
  BY <1>1 DEF ShapeInv, Shape, NodesOK
<1>3. node.next \in 0 .. nextNodeId - 1
  BY <1>1, <1>2 DEF NodeOK
<1>4. QED
  BY <1>1, <1>3, MoveKeeps

-------------------------------------------------------------------------------
(* The root, and the commit.                                               *)

AtRoot(m) ==
    /\ m = Memory /\ m.changes = changes
    /\ NodeOK(NewRoot, nextNodeId, nextValueId) /\ NewRoot = HeapOf(m, nextNodeId)[0]
    /\ 0 \in DOMAIN changes /\ NewRoot = changes[0] /\ root.id = 0 /\ NewRoot.id = 0
    /\ NewRoot.leaf \in BOOLEAN /\ ~NewRoot.deleted
    /\ Size(NewRoot) \in Nat /\ Kids(NewRoot) = Size(NewRoot)
    /\ Size(NewRoot) < 2 * NodeSize + More
    /\ NewRoot.leaf = FALSE => Size(NewRoot) + Less >= 2
    /\ MemoryOK(m, nextNodeId, nextValueId) /\ Known(m) = 0 .. nextNodeId - 1
    /\ ShapeAt(HeapOf(m, nextNodeId), <<>>, Less, More) /\ Heap = HeapOf(m, nextNodeId)
    /\ nextNodeId \in Nat /\ nextNodeId >= 1 /\ nextValueId \in Nat
    /\ \/ call.op = "set" /\ Less = 0 /\ More = 1
       \/ call.op = "del" /\ Less = 1 /\ More = 0

LEMMA RootProperties == ASSUME ShapeInv, pc = "up", path = <<>> PROVE AtRoot(Memory)
<1> DEFINE m == Memory
           h == HeapOf(m, nextNodeId)
<1>1. Running(Memory)
  BY RunningMemory
<1>2. /\ MemoryOK(m, nextNodeId, nextValueId) /\ Known(m) = 0 .. nextNodeId - 1
      /\ ShapeAt(h, <<>>, Less, More) /\ m.changes = changes /\ Heap = h
      /\ nextNodeId \in Nat /\ nextNodeId >= 1 /\ nextValueId \in Nat /\ nextNodeId \in Int
  BY <1>1 DEF Running
<1>3. 0 \in DOMAIN changes /\ root.id = 0 /\ Updates
  BY DEF ShapeInv, Shape, CallOK, NodesOK
<1>4. \/ call.op = "set" /\ Less = 0 /\ More = 1
      \/ call.op = "del" /\ Less = 1 /\ More = 0
  BY <1>3 DEF Updates, Less, More
<1>5. Less \in Nat /\ More \in Nat
  BY <1>4
<1>6. NewRoot = changes[0]
  BY <1>2, <1>3 DEF NewRoot, GetNode
<1> HIDE DEF m
<1>7. h[0] = changes[0] /\ 0 \in Known(m)
  BY <1>2, <1>3 DEF HeapOf, At
<1>8. At(m.changes, 0) = changes[0]
  BY <1>2, <1>3 DEF At
<1>9. NodeOK(NewRoot, nextNodeId, nextValueId) /\ NewRoot.id = 0
  BY <1>2, <1>6, <1>7, <1>8, AtOK
<1> HIDE DEF h
<1>10. Cur(<<>>) = 0
  BY DEF Cur
<1>11. /\ h[0].leaf \in BOOLEAN /\ ~h[0].deleted
       /\ Size(h[0]) \in Nat /\ Kids(h[0]) = Size(h[0])
       /\ Size(h[0]) < 2 * NodeSize + More
       /\ h[0].leaf = FALSE => Size(h[0]) + Less >= 2
  BY <1>2, <1>5, <1>10, NodeAtWork
<1>12. NewRoot = h[0]
  BY <1>6, <1>7
<1>13. QED
  BY <1>2, <1>3, <1>4, <1>6, <1>9, <1>11, <1>12 DEF AtRoot, h, m

\* The heap when the commit starts: root' is the new root in memory.
NewHeap(m, r, ids) == [x \in 0 .. ids - 1 |-> IF x = 0 THEN r ELSE At(m.changes, x)]

LEMMA AllFit ==
    ASSUME NEW g, NEW q, ShapeAt(g, q, 0, 0)
    PROVE  \A x \in DOMAIN g : Size(g[x]) < 2 * NodeSize
<1> DEFINE c == Cur(q)
<1>1. Size(g[c]) < 2 * NodeSize + 0 /\ (\A x \in DOMAIN g : x # c => Size(g[x]) < 2 * NodeSize)
  BY NodeAtWork
<1>2. 2 * NodeSize + 0 = 2 * NodeSize
  BY NodeSizeAssumption
<1> HIDE DEF c
<1>3. QED
  BY <1>1, <1>2

LEMMA StartCommitKeeps ==
    ASSUME ShapeInv, NEW E, pc = "up", path = <<>>, NEW m, m.changes = changes', m.buffer = buffer',
           StartCommit,
           MemoryOK(m, nextNodeId', nextValueId), Known(m) = 0 .. nextNodeId' - 1,
           nextNodeId' \in Nat, nextNodeId' >= nextNodeId,
           NodeOK(root', nextNodeId', nextValueId), root'.id = 0,
           0 \in DOMAIN m.changes => Size(m.changes[0]) < 2 * NodeSize,
           TreeAt(NewHeap(m, root', nextNodeId'), <<>>, 0, 0, call.key, E)
    PROVE  Shape' /\ TreeOf(E)'
<1> DEFINE g == NewHeap(m, root', nextNodeId')
<1>1. /\ pc' = "commit" /\ todo' = DOMAIN changes'
      /\ nodeStorage' = nodeStorage /\ valueStorage' = valueStorage
      /\ nextValueId' = nextValueId /\ call' = call /\ calls' = calls /\ node' = node
      /\ path' = <<>> /\ maxKey' = maxKey
  BY DEF StartCommit, IdsToCommit, storages, client
<1>2. /\ CountersOK /\ NodesOK /\ StorageOK /\ CallOK /\ ValuesOK
  BY DEF ShapeInv, Shape
<1>3. /\ nextNodeId \in Int /\ nextNodeId' \in Int /\ nextNodeId <= nextNodeId'
      /\ nextNodeId >= 1 /\ nextValueId \in Int /\ nextValueId <= nextValueId
  BY <1>2 DEF CountersOK
<1>4. CountersOK'
  BY <1>1, <1>2, <1>3 DEF CountersOK
<1>5. node' = NoNode \/ NodeOK(node', nextNodeId', nextValueId')
  BY <1>1, <1>2, <1>3, NodeGrows DEF NodesOK
<1>6. NodesOK'
  BY <1>1, <1>5 DEF NodesOK, MemoryOK
<1>7. Heap' = g
  BY <1>1 DEF Heap, NewHeap, Ids, At
<1>8. /\ TreeOf(E)'
      /\ \A x \in 0 .. nextNodeId' - 1 : Size(g[x]) < 2 * NodeSize
  <2>1. TreeAt(g, <<>>, 0, 0, call.key, E) /\ DOMAIN g = 0 .. nextNodeId' - 1
    BY DEF NewHeap
  <2>2. Less' = 0 /\ More' = 0
    BY <1>1 DEF Less, More
  <2> HIDE DEF g
  <2>3. TreeOf(E)'
    <3>1. TreeAt(Heap', path', Less', More', call'.key, E)
      BY <1>1, <1>7, <2>1, <2>2
    <3>2. pc' # "down"
      BY <1>1
    <3>3. QED
      BY <3>1, <3>2 DEF TreeOf
  <2>4. \A x \in DOMAIN g : Size(g[x]) < 2 * NodeSize
    BY <2>1, TreeHasShape, AllFit
  <2>5. QED
    BY <2>1, <2>3, <2>4
<1>9. \A x \in DOMAIN changes' : Size(changes'[x]) < 2 * NodeSize
  <2> SUFFICES ASSUME NEW x \in DOMAIN changes' PROVE Size(changes'[x]) < 2 * NodeSize
    OBVIOUS
  <2>1. CASE x = 0
    BY <2>1
  <2>2. CASE x # 0
    <3>1. x \in 0 .. nextNodeId' - 1
      BY DEF Known
    <3>2. g[x] = changes'[x]
      BY <2>2, <3>1 DEF NewHeap, At
    <3>3. QED
      BY <1>8, <3>1, <3>2
  <2>3. QED
    BY <2>1, <2>2
<1>10. StorageOK'
  <2>1. /\ Contiguous(DOMAIN nodeStorage)
        /\ \A x \in DOMAIN nodeStorage : Size(nodeStorage[x]) < 2 * NodeSize
    BY <1>2 DEF StorageOK
  <2>2. CommitOK'
    BY <1>1, <1>9 DEF CommitOK, Known, Ids
  <2>3. QED
    BY <1>1, <2>1, <2>2 DEF StorageOK
<1>11. FramesOK'
  BY <1>1, EmptySeq DEF FramesOK
<1>12. CallOK' /\ AtWork' /\ ValuesOK' /\ MaxKeyOK'
  BY <1>1, <1>2 DEF CallOK, AtWork, ValuesOK, MaxKeyOK
<1>13. QED
  BY <1>4, <1>6, <1>8, <1>10, <1>11, <1>12 DEF Shape

LEMMA RootStaysKeeps ==
    ASSUME ShapeInv, NEW E, TreeOf(E), RootStays
    PROVE  Shape' /\ TreeOf(E)'
<1> DEFINE m == Memory
           h == HeapOf(m, nextNodeId)
<1>1. /\ pc = "up" /\ path = <<>> /\ ~RootIsFull /\ ~RootHasOneChild /\ root' = NewRoot
      /\ nextNodeId' = nextNodeId /\ changes' = changes /\ buffer' = buffer /\ StartCommit
  BY DEF RootStays, StartCommit, scratch
<1>2. AtRoot(m)
  BY <1>1, RootProperties
<1>3. m.changes = changes' /\ m.buffer = buffer'
  BY <1>1 DEF Memory
<1> HIDE DEF m
<1>4. Size(NewRoot) < 2 * NodeSize /\ RootFits(NewRoot)
  <2>1. /\ Size(NewRoot) \in Nat /\ NewRoot.leaf \in BOOLEAN
        /\ Size(NewRoot) < 2 * NodeSize + More
        /\ NewRoot.leaf = FALSE => Size(NewRoot) + Less >= 2
        /\ \/ call.op = "set" /\ Less = 0 /\ More = 1
           \/ call.op = "del" /\ Less = 1 /\ More = 0
    BY <1>2 DEF AtRoot
  <2>2. CASE call.op = "set"
    BY <2>1, <2>2, <1>1, NodeSizeAssumption DEF RootIsFull, RootFits, IsInner
  <2>3. CASE call.op = "del"
    BY <2>1, <2>3, <1>1, NodeSizeAssumption DEF RootHasOneChild, RootFits, IsInner
  <2>4. QED
    BY <2>1, <2>2, <2>3
<1>5. NewHeap(m, root', nextNodeId') = h
  <2>1. NewRoot = h[0]
    BY <1>2 DEF AtRoot
  <2>2. QED
    BY <1>1, <2>1 DEF NewHeap, HeapOf
<1>6. TreeAt(h, <<>>, 0, 0, call.key, E)
  <2>1. TreeAt(h, <<>>, Less, More, call.key, E)
    BY <1>1, <1>2 DEF AtRoot, TreeOf
  <2>2. h[0] = NewRoot /\ Less \in Nat /\ More \in Nat
    BY <1>2 DEF AtRoot
  <2> HIDE DEF h
  <2>3. QED
    BY <1>4, <2>1, <2>2, RootStaysInOrder
<1> HIDE DEF h
<1>7. /\ MemoryOK(m, nextNodeId', nextValueId) /\ Known(m) = 0 .. nextNodeId' - 1
      /\ nextNodeId' \in Nat /\ nextNodeId' >= nextNodeId
      /\ NodeOK(root', nextNodeId', nextValueId) /\ root'.id = 0
      /\ Size(m.changes[0]) < 2 * NodeSize
  BY <1>1, <1>2, <1>4 DEF AtRoot
<1>8. TreeAt(NewHeap(m, root', nextNodeId'), <<>>, 0, 0, call.key, E)
  BY <1>5, <1>6
<1>9. QED
  BY <1>1, <1>3, <1>7, <1>8, StartCommitKeeps

\* The new root over its two halves.
IsTop(top, a, b, lo, hi, ids, values) ==
    /\ NodeOK(top, ids, values) /\ top.id = 0 /\ top.leaf = FALSE /\ ~top.deleted
    /\ Kids(top) = 2 /\ Kid(top, 1) = lo /\ Kid(top, 2) = hi /\ Size(top) = 2
    /\ NewTop(top, a, b)

LEMMA InnerRecord ==
    ASSUME NEW a \in Int, NEW l \in BOOLEAN, NEW ks \in Seq(Keys), NEW ps \in Seq(Int),
           NEW x \in Int, NEW y \in Int, NEW d \in BOOLEAN
    PROVE  [id |-> a, leaf |-> l, keys |-> ks, ptrs |-> ps,
            next |-> x, prev |-> y, deleted |-> d] \in NodeRecords
BY DEF NodeRecords

LEMMA TopIsNode ==
    ASSUME NEW a \in Keys, NEW b \in Keys, NEW ids \in Int, ids >= 1, NEW values,
           NEW lo \in 1 .. ids - 1, NEW hi \in 1 .. ids - 1,
           NEW top, top = Inner(0, <<a, b>>, <<lo, hi>>)
    PROVE  IsTop(top, a, b, lo, hi, ids, values)
<1>1. <<a, b>> \in Seq(Keys) /\ <<lo, hi>> \in Seq(Int)
  OBVIOUS
<1>2. top = [id |-> 0, leaf |-> FALSE, keys |-> <<a, b>>, ptrs |-> <<lo, hi>>,
             next |-> -1, prev |-> -1, deleted |-> FALSE]
  BY DEF Inner, Nil
<1>3. top \in NodeRecords
  <2> DEFINE ks == <<a, b>>
             ps == <<lo, hi>>
  <2>1. ks \in Seq(Keys) /\ ps \in Seq(Int) /\ 0 \in Int /\ -1 \in Int
    BY <1>1
  <2>2. top = [id |-> 0, leaf |-> FALSE, keys |-> ks, ptrs |-> ps,
               next |-> -1, prev |-> -1, deleted |-> FALSE]
    BY <1>2
  <2> HIDE DEF ks, ps
  <2>3. QED
    BY <2>1, <2>2, InnerRecord
<1>4. /\ top.id = 0 /\ top.leaf = FALSE /\ ~top.deleted /\ top.next = Nil /\ top.prev = Nil
      /\ top.ptrs = <<lo, hi>> /\ top.keys = <<a, b>>
  BY <1>2 DEF Nil
<1>5. Kids(top) = 2 /\ Kid(top, 1) = lo /\ Kid(top, 2) = hi /\ Size(top) = 2
  BY <1>4 DEF Kids, Kid, Size
<1>6. \A i \in 1 .. Kids(top) : Kid(top, i) \in Handed(top.leaf, ids, values)
  <2>1. \A i \in 1 .. 2 : i = 1 \/ i = 2
    OBVIOUS
  <2>2. Handed(top.leaf, ids, values) = 1 .. ids - 1
    BY <1>4 DEF Handed
  <2>3. QED
    BY <1>5, <2>1, <2>2
<1>7. top.id \in 0 .. ids - 1
  BY <1>4
<1>8. NodeOK(top, ids, values)
  BY <1>3, <1>4, <1>5, <1>6, <1>7 DEF NodeOK
<1>9. NewTop(top, a, b)
  BY <1>4 DEF NewTop, IsInner, Key
<1>10. QED
  BY <1>4, <1>5, <1>8, <1>9 DEF IsTop

\* The root has given its pointers to two new nodes, lo and hi: h are the nodes
\* before, g those of the new memory m and the new root.
RootDoubled(m, h, g, lo, hi) ==
    /\ m.changes = changes' /\ m.buffer = buffer' /\ g = NewHeap(m, root', nextNodeId')
    /\ MemoryOK(m, nextNodeId', nextValueId) /\ Known(m) = 0 .. nextNodeId' - 1
    /\ nextNodeId \in Nat /\ nextNodeId' \in Nat /\ nextNodeId' >= nextNodeId
    /\ NodeOK(root', nextNodeId', nextValueId) /\ root'.id = 0
    /\ Size(m.changes[0]) < 2 * NodeSize /\ Size(h[0]) = 2 * NodeSize
    /\ NodeOK(h[0], nextNodeId, nextValueId)
    /\ {lo, hi} = {nextNodeId, nextNodeId + 1} /\ lo # hi
    /\ DOMAIN h = 0 .. nextNodeId - 1 /\ DOMAIN g = DOMAIN h \cup {lo, hi}
    /\ IsRootSplit(h, g, DOMAIN h, lo, hi, NodeSize)
    /\ g[lo] = Split(h[0], lo, hi)[1] /\ g[hi] = Split(h[0], lo, hi)[2]
    /\ KeysShared(<<g[lo], g[hi]>>, h[0], NodeSize)
    /\ NewTop(g[0], Key(h[0], NodeSize), Most(h[0]))
    /\ \A x \in DOMAIN h \ {0} : g[x] = h[x]
    /\ \A x \in DOMAIN g : Kids(g[x]) = Size(g[x])

LEMMA RootSplitHeap ==
    ASSUME ShapeInv, NEW E, TreeOf(E), RootSplit
    PROVE  \E m, g, lo, hi : RootDoubled(m, Heap, g, lo, hi)
<1> DEFINE m == Memory
           n == NewRoot
           h == HeapOf(m, nextNodeId)
           ids == nextNodeId + 2
<1>1. /\ pc = "up" /\ path = <<>> /\ RootIsFull /\ nextNodeId' = ids /\ StartCommit
  BY DEF RootSplit, StartCommit
<1>2. PICK two \in {<<nextNodeId, nextNodeId + 1>>, <<nextNodeId + 1, nextNodeId>>} :
        LET pair == Split(n, two[1], two[2])
            top == Inner(root.id, <<GetMax(pair[1]), GetMax(pair[2])>>, two)
        IN  /\ root' = top
            /\ Remember(SaveNode(SaveNode(SaveNode(m, pair[1]), pair[2]), top))
  BY DEF RootSplit
<1> DEFINE lo == two[1]
           hi == two[2]
           pair == Split(n, lo, hi)
           pl == pair[1]
           ph == pair[2]
           top == Inner(root.id, <<GetMax(pl), GetMax(ph)>>, two)
           m1 == SaveNode(m, pl)
           m2 == SaveNode(m1, ph)
           m3 == SaveNode(m2, top)
           g == NewHeap(m3, top, ids)
<1>3. root' = top /\ Remember(m3)
  BY <1>2
<1>4. AtRoot(m) /\ Heap = h
  BY <1>1, RootProperties DEF AtRoot
<1>5. two = <<lo, hi>>
  BY <1>2
<1>6. /\ nextNodeId \in Nat /\ nextNodeId >= 1 /\ nextValueId \in Nat
      /\ Known(m) = 0 .. nextNodeId - 1
      /\ MemoryOK(m, nextNodeId, nextValueId) /\ NodeOK(n, nextNodeId, nextValueId)
      /\ root.id = 0
  BY <1>4 DEF AtRoot
<1> HIDE DEF m, n
<1>7. /\ lo \in 1 .. ids - 1 /\ hi \in 1 .. ids - 1 /\ lo # hi
      /\ \/ lo = nextNodeId /\ hi = nextNodeId + 1
         \/ lo = nextNodeId + 1 /\ hi = nextNodeId
  BY <1>2, <1>6
<1>8. /\ ids \in Int /\ ids \in Nat /\ ids >= 1 /\ ids >= nextNodeId /\ nextNodeId <= ids
      /\ nextNodeId \in Int
  BY <1>6
<1>9. nextValueId \in Int /\ nextValueId <= nextValueId
  BY <1>6
<1> HIDE DEF ids, lo, hi
<1>10. /\ Size(n) = 2 * NodeSize /\ Kids(n) = Size(n) /\ n = h[0] /\ n.leaf \in BOOLEAN
       /\ Less = 0 /\ More = 1 /\ TreeAt(h, <<>>, 0, 1, call.key, E)
  <2>1. /\ Size(n) = NodeSize * 2 /\ call.op = "set"
    BY <1>1 DEF RootIsFull, n
  <2>2. Size(n) = 2 * NodeSize
    BY <2>1, NodeSizeAssumption
  <2>3. /\ Kids(n) = Size(n) /\ n = h[0] /\ n.leaf \in BOOLEAN
        /\ Less = 0 /\ More = 1 /\ Heap = h
    BY <1>4, <2>1 DEF AtRoot, n
  <2>4. TreeAt(h, <<>>, Less, More, call.key, E)
    BY <1>1, <2>3 DEF TreeOf
  <2>5. QED
    BY <2>2, <2>3, <2>4
<1>11. NodeOK(n, ids, nextValueId) /\ MemoryOK(m, ids, nextValueId)
  BY <1>6, <1>8, <1>9, NodeGrows, MemoryGrows
<1>12. Halves(pair, n, lo, hi, ids, nextValueId)
  BY <1>7, <1>8, <1>9, <1>11, SplitHalves
<1>13. Middle(n) = NodeSize
  <2>1. Middle(n) \in 0 .. Kids(n)
        /\ (2 * Middle(n) = Kids(n) \/ 2 * Middle(n) + 1 = Kids(n))
    BY <1>12 DEF Halves
  <2>2. Kids(n) = 2 * NodeSize
    BY <1>10
  <2>3. QED
    BY <2>1, <2>2, NodeSizeAssumption
<1>14. /\ NodeOK(pl, ids, nextValueId) /\ NodeOK(ph, ids, nextValueId)
       /\ pl.id = lo /\ ph.id = hi /\ pl.leaf = n.leaf /\ ph.leaf = n.leaf
       /\ ~pl.deleted /\ ~ph.deleted
       /\ Shared(<<pl, ph>>, n, NodeSize) /\ KeysShared(<<pl, ph>>, n, NodeSize)
  BY <1>12, <1>13 DEF Halves, Shared, KeysShared
<1>a. pl = Split(n, lo, hi)[1] /\ ph = Split(n, lo, hi)[2]
  OBVIOUS
<1> HIDE DEF pair, pl, ph
<1>15. GetMax(pl) \in Keys /\ GetMax(ph) \in Keys
  <2>1. Kids(pl) = NodeSize /\ Kids(ph) = 2 * NodeSize - NodeSize
    BY <1>10, <1>14 DEF Shared
  <2>2. Size(pl) = Kids(pl) /\ Size(ph) = Kids(ph) /\ pl \in NodeRecords /\ ph \in NodeRecords
    BY <1>14 DEF NodeOK
  <2>3. Size(pl) > 0 /\ Size(ph) > 0
    BY <2>1, <2>2, NodeSizeAssumption
  <2>4. QED
    BY <2>2, <2>3, GetMaxIsKey
<1>16. GetMax(pl) = Key(n, NodeSize) /\ GetMax(ph) = Most(n)
  <2>1. Kids(pl) = NodeSize /\ Kids(ph) = NodeSize /\ NodeSize # 0 /\ NodeSize \in Nat
    BY <1>10, <1>14, NodeSizeAssumption DEF Shared
  <2>2. GetMax(pl) = Most(pl) /\ GetMax(ph) = Most(ph)
    BY <1>14, <2>1, MostIsLast
  <2>3. Most(pl) = Key(pl, NodeSize) /\ Most(ph) = Key(ph, NodeSize)
    BY <2>1 DEF Most
  <2>4. /\ \A j \in 1 .. NodeSize : Key(pl, j) = Key(n, j)
        /\ \A j \in 1 .. Kids(n) - NodeSize : Key(ph, j) = Key(n, NodeSize + j)
    BY <1>14 DEF KeysShared
  <2>5. /\ NodeSize \in 1 .. NodeSize /\ NodeSize \in 1 .. Kids(n) - NodeSize
        /\ NodeSize + NodeSize = Kids(n)
    BY <1>10, NodeSizeAssumption
  <2>6. Key(pl, NodeSize) = Key(n, NodeSize) /\ Key(ph, NodeSize) = Key(n, Kids(n))
    BY <2>4, <2>5
  <2>7. QED
    BY <2>2, <2>3, <2>6 DEF Most
<1>17. /\ NodeOK(top, ids, nextValueId) /\ top.id = 0 /\ top.leaf = FALSE /\ ~top.deleted
       /\ Kids(top) = 2 /\ Kid(top, 1) = lo /\ Kid(top, 2) = hi /\ Size(top) = 2
       /\ NewTop(top, Key(n, NodeSize), Most(n))
  <2>1. top = Inner(0, <<GetMax(pl), GetMax(ph)>>, <<lo, hi>>)
    BY <1>5, <1>6
  <2> HIDE DEF top
  <2>2. IsTop(top, GetMax(pl), GetMax(ph), lo, hi, ids, nextValueId)
    BY <2>1, <1>7, <1>8, <1>15, TopIsNode
  <2>3. QED
    BY <2>2, <1>16 DEF IsTop
<1> HIDE DEF top
<1>18. Saved(m1, m, pl, ids, nextValueId)
  BY <1>8, <1>11, <1>14, SaveNodeOK
<1> HIDE DEF m1
<1>19. Saved(m2, m1, ph, ids, nextValueId)
  <2>1. MemoryOK(m1, ids, nextValueId)
    BY <1>18 DEF Saved
  <2>2. QED
    BY <2>1, <1>8, <1>14, SaveNodeOK
<1> HIDE DEF m2
<1>20. Saved(m3, m2, top, ids, nextValueId)
  <2>1. MemoryOK(m2, ids, nextValueId)
    BY <1>19 DEF Saved
  <2>2. QED
    BY <2>1, <1>8, <1>17, SaveNodeOK
<1> HIDE DEF m3
<1>21. /\ MemoryOK(m3, ids, nextValueId)
       /\ Known(m3) = Known(m) \cup {lo} \cup {hi} \cup {0}
       /\ m3.changes[0] = top
  BY <1>14, <1>17, <1>18, <1>19, <1>20 DEF Saved, Put
<1>22. Known(m3) = 0 .. ids - 1 /\ 0 .. ids - 1 = 0 .. nextNodeId - 1 \cup {lo, hi}
  BY <1>6, <1>7, <1>21 DEF ids
<1>23. /\ At(m3.changes, lo) = pl /\ At(m3.changes, hi) = ph
       /\ \A x : x \notin {lo, hi, 0} => At(m3.changes, x) = At(m.changes, x)
  <2>1. /\ At(m1.changes, lo) = pl
        /\ \A x : x # lo => At(m1.changes, x) = At(m.changes, x)
    BY <1>14, <1>18 DEF Saved
  <2>2. /\ At(m2.changes, hi) = ph
        /\ \A x : x # hi => At(m2.changes, x) = At(m1.changes, x)
    BY <1>14, <1>19 DEF Saved
  <2>3. \A x : x # 0 => At(m3.changes, x) = At(m2.changes, x)
    BY <1>17, <1>20 DEF Saved
  <2>4. lo # 0 /\ hi # 0 /\ lo # hi
    BY <1>7, <1>8
  <2>5. QED
    BY <2>1, <2>2, <2>3, <2>4
<1>24. /\ DOMAIN h = 0 .. nextNodeId - 1 /\ DOMAIN g = DOMAIN h \cup {lo, hi}
       /\ g[0] = top /\ g[lo] = pl /\ g[hi] = ph
       /\ \A x \in DOMAIN h : x # 0 => g[x] = h[x]
  <2>1. DOMAIN h = 0 .. nextNodeId - 1 /\ DOMAIN g = 0 .. ids - 1
    BY DEF HeapOf, NewHeap
  <2>2. \A x \in 0 .. ids - 1 : g[x] = IF x = 0 THEN top ELSE At(m3.changes, x)
    BY DEF NewHeap
  <2>3. 0 \in 0 .. ids - 1 /\ lo \in 0 .. ids - 1 /\ hi \in 0 .. ids - 1 /\ lo # 0 /\ hi # 0
    BY <1>7, <1>8
  <2>4. g[0] = top /\ g[lo] = pl /\ g[hi] = ph
    BY <1>23, <2>2, <2>3
  <2>5. \A x \in 0 .. nextNodeId - 1 : x \notin {lo, hi} /\ x \in 0 .. ids - 1
    BY <1>7, <1>8
  <2>6. \A x \in 0 .. nextNodeId - 1 : h[x] = At(m.changes, x)
    BY DEF HeapOf
  <2> HIDE DEF g, h
  <2>7. \A x \in DOMAIN h : x # 0 => g[x] = h[x]
    BY <1>23, <2>1, <2>2, <2>5, <2>6
  <2>8. QED
    BY <1>22, <2>1, <2>4, <2>7
<1>25. \A x \in DOMAIN g : Kids(g[x]) = Size(g[x])
  <2>1. \A x \in 0 .. ids - 1 : x \in Known(m3)
    BY <1>22
  <2>2. \A x \in 0 .. ids - 1 : NodeOK(At(m3.changes, x), ids, nextValueId)
    BY <1>8, <1>21, <2>1, AtOK
  <2>3. \A x \in DOMAIN g : NodeOK(g[x], ids, nextValueId)
    BY <1>17, <2>2 DEF NewHeap
  <2>4. QED
    BY <2>3 DEF NodeOK
<1> HIDE DEF g, h
<1>26. IsRootSplit(h, g, DOMAIN h, lo, hi, NodeSize)
  <2>1. lo \in Int \ DOMAIN h /\ hi \in Int \ DOMAIN h /\ lo # hi
    BY <1>6, <1>7, <1>8, <1>24
  <2>2. NodeSize \in 0 .. Kids(h[0])
    BY <1>10, NodeSizeAssumption
  <2>3. Shared(<<g[lo], g[hi]>>, h[0], NodeSize)
    BY <1>10, <1>14, <1>24
  <2>4. \A a \in DOMAIN h \ {0} : SameCore(g[a], h[a])
    BY <1>24 DEF SameCore
  <2>5. DOMAIN h \cup {lo, hi} \subseteq DOMAIN g
    BY <1>24
  <2>6. g[0].leaf = FALSE /\ ~g[0].deleted
        /\ Kids(g[0]) = 2 /\ Kid(g[0], 1) = lo /\ Kid(g[0], 2) = hi
    BY <1>17, <1>24
  <2>7. /\ g[lo].leaf = h[0].leaf /\ ~g[lo].deleted
        /\ g[hi].leaf = h[0].leaf /\ ~g[hi].deleted
    BY <1>10, <1>14, <1>24
  <2>8. QED
    BY <2>1, <2>2, <2>3, <2>4, <2>5, <2>6, <2>7 DEF IsRootSplit
<1>27. Size(m3.changes[0]) < 2 * NodeSize
  BY <1>17, <1>21, NodeSizeAssumption
<1>28. /\ m3.changes = changes' /\ m3.buffer = buffer' /\ g = NewHeap(m3, root', nextNodeId')
       /\ MemoryOK(m3, nextNodeId', nextValueId) /\ Known(m3) = 0 .. nextNodeId' - 1
       /\ nextNodeId' \in Nat /\ nextNodeId' >= nextNodeId
       /\ NodeOK(root', nextNodeId', nextValueId) /\ root'.id = 0
  BY <1>1, <1>3, <1>8, <1>17, <1>21, <1>22 DEF Remember, g
<1>29. {lo, hi} = {nextNodeId, nextNodeId + 1} /\ lo # hi
  BY <1>7
<1>30. /\ KeysShared(<<g[lo], g[hi]>>, h[0], NodeSize)
       /\ NewTop(g[0], Key(h[0], NodeSize), Most(h[0]))
       /\ g[lo] = Split(h[0], lo, hi)[1] /\ g[hi] = Split(h[0], lo, hi)[2]
       /\ Size(h[0]) = 2 * NodeSize /\ NodeOK(h[0], nextNodeId, nextValueId)
  BY <1>a, <1>6, <1>10, <1>14, <1>17, <1>24
<1>31. RootDoubled(m3, h, g, lo, hi)
  BY <1>6, <1>24, <1>25, <1>26, <1>27, <1>28, <1>29, <1>30 DEF RootDoubled
<1>32. QED
  BY <1>4, <1>31

LEMMA RootSplitKeeps ==
    ASSUME ShapeInv, NEW E, TreeOf(E), RootSplit
    PROVE  Shape' /\ TreeOf(E)'
<1>1. PICK m, g, lo, hi : RootDoubled(m, Heap, g, lo, hi)
  BY RootSplitHeap
<1> DEFINE h == Heap
<1>2. pc = "up" /\ path = <<>> /\ StartCommit /\ call.op = "set" /\ nextValueId' = nextValueId
  BY DEF RootSplit, StartCommit, RootIsFull
<1>3. TreeAt(h, <<>>, 0, 1, call.key, E)
  BY <1>2 DEF TreeOf, Less, More
<1> HIDE DEF h
<1>4. TreeAt(g, <<>>, 0, 0, call.key, E)
  <2>1. RootDoubled(m, h, g, lo, hi)
    BY <1>1 DEF h
  <2>2. \A x \in DOMAIN h \ {0} : SameBody(g[x], h[x])
    BY <2>1, SameBodyOfItself DEF RootDoubled
  <2>3. QED
    BY <1>3, <2>1, <2>2, RootSplitInOrder DEF RootDoubled
<1>5. QED
  BY <1>1, <1>2, <1>4, StartCommitKeeps DEF RootDoubled

\* A node under another id, and one that is deleted.
LEMMA NewIdOrFlag ==
    ASSUME NEW n, NEW ids \in Int, NEW values, NodeOK(n, ids, values), NEW x \in 0 .. ids - 1
    PROVE  /\ NodeOK([n EXCEPT !.id = x], ids, values) /\ [n EXCEPT !.id = x].id = x
           /\ SameBody([n EXCEPT !.id = x], n)
           /\ NodeOK([n EXCEPT !.deleted = TRUE], ids, values)
           /\ [n EXCEPT !.deleted = TRUE].id = n.id
           /\ Size([n EXCEPT !.deleted = TRUE]) = Size(n)
<1> DEFINE a == [n EXCEPT !.id = x]
           b == [n EXCEPT !.deleted = TRUE]
<1>1. n \in NodeRecords /\ x \in Int
  BY DEF NodeOK
<1>2. a \in NodeRecords /\ b \in NodeRecords
  <2>1. a \in NodeRecords
    BY <1>1 DEF NodeRecords
  <2>2. b \in NodeRecords
    BY <1>1 DEF NodeRecords
  <2>3. QED
    BY <2>1, <2>2
<1>3. DOMAIN n = {"id", "leaf", "keys", "ptrs", "next", "prev", "deleted"}
  BY <1>1 DEF NodeRecords
<1>4. /\ a.id = x /\ a.leaf = n.leaf /\ a.keys = n.keys /\ a.ptrs = n.ptrs
      /\ a.next = n.next /\ a.prev = n.prev /\ a.deleted = n.deleted
  BY <1>3
<1>5. /\ b.id = n.id /\ b.leaf = n.leaf /\ b.keys = n.keys /\ b.ptrs = n.ptrs
      /\ b.next = n.next /\ b.prev = n.prev
  BY <1>3
<1> HIDE DEF a, b
<1>6. /\ Kids(a) = Kids(n) /\ Size(a) = Size(n) /\ \A i : Kid(a, i) = Kid(n, i)
      /\ Kids(b) = Kids(n) /\ Size(b) = Size(n) /\ \A i : Kid(b, i) = Kid(n, i)
  BY <1>4, <1>5 DEF Kids, Size, Kid
<1>7. NodeOK(a, ids, values)
  BY <1>2, <1>4, <1>6 DEF NodeOK
<1>8. NodeOK(b, ids, values)
  BY <1>2, <1>5, <1>6 DEF NodeOK
<1>9. SameBody(a, n)
  BY <1>4, <1>6 DEF SameBody, SameCore
<1>10. QED
  BY <1>4, <1>5, <1>6, <1>7, <1>8, <1>9 DEF a, b

\* The root has given way to its only child, c.
RootLowered(m, h, g, c) ==
    /\ m.changes = changes' /\ m.buffer = buffer' /\ g = NewHeap(m, root', nextNodeId')
    /\ MemoryOK(m, nextNodeId', nextValueId) /\ Known(m) = 0 .. nextNodeId' - 1
    /\ nextNodeId' \in Nat /\ nextNodeId' >= nextNodeId
    /\ NodeOK(root', nextNodeId', nextValueId) /\ root'.id = 0
    /\ Size(m.changes[0]) < 2 * NodeSize
    /\ DOMAIN g = DOMAIN h /\ Size(g[c]) = Size(h[c]) /\ c \in DOMAIN h \ {0}
    /\ IsCollapse(h, g, DOMAIN h, c) /\ SameBody(g[0], h[c])
    /\ g[0].next = h[c].next /\ g[0].prev = h[c].prev
    /\ \A x \in DOMAIN h \ {0, c} : g[x] = h[x]
    /\ \A x \in DOMAIN g : Kids(g[x]) = Size(g[x])

LEMMA RootCollapseHeap ==
    ASSUME ShapeInv, NEW E, TreeOf(E), RootCollapse
    PROVE  \E m, g, c : RootLowered(m, Heap, g, c)
<1> DEFINE m == Memory
           n == NewRoot
           h == HeapOf(m, nextNodeId)
           c == Kid(n, 1)
           child == GetNode(m, c)
           gone == [child EXCEPT !.deleted = TRUE]
           m1 == Buffered(m, c)
           m2 == SaveNode(m1, gone)
           g == NewHeap(m2, root', nextNodeId)
<1>1. /\ pc = "up" /\ path = <<>> /\ RootHasOneChild /\ nextNodeId' = nextNodeId
      /\ StartCommit /\ root' = AsRoot(child) /\ Remember(m2)
  BY DEF RootCollapse, StartCommit, Kid, DelNode
<1>2. AtRoot(m) /\ Heap = h
  BY <1>1, RootProperties DEF AtRoot
<1>3. /\ nextNodeId \in Nat /\ nextNodeId >= 1 /\ nextValueId \in Nat /\ nextNodeId \in Int
      /\ Known(m) = 0 .. nextNodeId - 1
      /\ MemoryOK(m, nextNodeId, nextValueId) /\ NodeOK(n, nextNodeId, nextValueId)
      /\ root.id = 0 /\ m.changes = changes /\ n = changes[0] /\ 0 \in DOMAIN changes
      /\ n = h[0]
  BY <1>2 DEF AtRoot
<1>4. /\ Size(n) = 1 /\ Kids(n) = 1 /\ ~n.leaf /\ Less = 1 /\ More = 0
      /\ TreeAt(h, <<>>, 1, 0, call.key, E) /\ n.leaf = FALSE
  <2>1. /\ Size(n) = 1 /\ ~n.leaf /\ call.op = "del"
    BY <1>1 DEF RootHasOneChild
  <2>2. Kids(n) = Size(n) /\ n.leaf \in BOOLEAN /\ Less = 1 /\ More = 0 /\ Heap = h
    BY <1>2, <2>1 DEF AtRoot
  <2>3. TreeAt(h, <<>>, Less, More, call.key, E)
    BY <1>1, <2>2 DEF TreeOf
  <2>4. QED
    BY <2>1, <2>2, <2>3
<1> HIDE DEF m, n
<1>5. c \in 1 .. nextNodeId - 1 /\ c \in 0 .. nextNodeId - 1 /\ c # 0
  <2>1. 1 \in 1 .. Kids(n)
    BY <1>4
  <2>2. c \in Handed(n.leaf, nextNodeId, nextValueId)
    BY <1>3, <2>1 DEF NodeOK
  <2>3. QED
    BY <2>2, <1>3, <1>4 DEF Handed
<1> HIDE DEF c
<1>6. /\ NodeOK(child, nextNodeId, nextValueId) /\ child.id = c
      /\ child = At(m.changes, c)
  BY <1>3, <1>5, GetNodeOK
<1>7. child = h[c]
  BY <1>5, <1>6 DEF HeapOf
<1> HIDE DEF child
<1>8. /\ NodeOK(root', nextNodeId, nextValueId) /\ root'.id = 0 /\ SameBody(root', child)
      /\ root'.next = child.next /\ root'.prev = child.prev
  <2> DEFINE k == [child EXCEPT !.id = 0]
  <2>1. root' = k /\ 0 \in 0 .. nextNodeId - 1
    BY <1>1, <1>3 DEF AsRoot
  <2>2. NodeOK(k, nextNodeId, nextValueId)
    BY <1>3, <1>6, <2>1, NewIdOrFlag
  <2>3. k.id = 0
    BY <1>3, <1>6, <2>1, NewIdOrFlag
  <2>4. SameBody(k, child)
    BY <1>3, <1>6, <2>1, NewIdOrFlag
  <2>5. k.next = child.next /\ k.prev = child.prev
    BY <1>6 DEF NodeOK, NodeRecords
  <2> HIDE DEF k
  <2>6. QED
    BY <2>1, <2>2, <2>3, <2>4, <2>5
<1>9. /\ NodeOK(gone, nextNodeId, nextValueId) /\ gone.id = c /\ Size(gone) = Size(child)
  BY <1>3, <1>5, <1>6, NewIdOrFlag
<1> HIDE DEF gone
<1>10. MemoryOK(m1, nextNodeId, nextValueId) /\ m1.changes = m.changes /\ Known(m1) = Known(m)
  BY <1>3, <1>5, BufferedOK DEF Known
<1> HIDE DEF m1
<1>11. Saved(m2, m1, gone, nextNodeId, nextValueId)
  BY <1>3, <1>9, <1>10, SaveNodeOK
<1> HIDE DEF m2
<1>12. /\ MemoryOK(m2, nextNodeId, nextValueId) /\ Known(m2) = 0 .. nextNodeId - 1
       /\ m2.changes[0] = n
       /\ At(m2.changes, c) = gone
       /\ \A x : x # c => At(m2.changes, x) = At(m.changes, x)
  <2>1. /\ MemoryOK(m2, nextNodeId, nextValueId)
        /\ m2.changes = Put(m1.changes, c, gone) /\ Known(m2) = Known(m1) \cup {c}
        /\ At(m2.changes, c) = gone
        /\ \A x : x # c => At(m2.changes, x) = At(m1.changes, x)
    BY <1>9, <1>11 DEF Saved
  <2>2. m2.changes[0] = n
    BY <2>1, <1>3, <1>5, <1>10 DEF Put
  <2>3. Known(m2) = 0 .. nextNodeId - 1
    BY <2>1, <1>3, <1>5, <1>10
  <2>4. QED
    BY <2>1, <2>2, <2>3, <1>10
<1>13. /\ DOMAIN h = 0 .. nextNodeId - 1 /\ DOMAIN g = 0 .. nextNodeId - 1
       /\ g[0] = root' /\ g[c] = gone
       /\ \A x \in DOMAIN h : x \notin {0, c} => g[x] = h[x]
  BY <1>3, <1>5, <1>12 DEF HeapOf, NewHeap
<1>14. \A x \in DOMAIN g : Kids(g[x]) = Size(g[x])
  <2>1. \A x \in 0 .. nextNodeId - 1 : NodeOK(At(m2.changes, x), nextNodeId, nextValueId)
    BY <1>3, <1>12, AtOK
  <2>2. \A x \in DOMAIN g : NodeOK(g[x], nextNodeId, nextValueId)
    BY <1>8, <2>1 DEF NewHeap
  <2>3. QED
    BY <2>2 DEF NodeOK
<1> HIDE DEF g, h
<1>15. IsCollapse(h, g, DOMAIN h, c)
  <2>1. ~h[0].leaf /\ Kids(h[0]) = 1 /\ c = Kid(h[0], 1)
    BY <1>3, <1>4 DEF c
  <2>2. SameCore(g[0], h[c])
    BY <1>7, <1>8, <1>13 DEF SameBody
  <2>3. \A a \in DOMAIN h \ {0, c} : SameCore(g[a], h[a])
    BY <1>13 DEF SameCore
  <2>4. QED
    BY <2>1, <2>2, <2>3, <1>13 DEF IsCollapse
<1>16. Size(m2.changes[0]) < 2 * NodeSize
  BY <1>4, <1>12, NodeSizeAssumption
<1>17. /\ m2.changes = changes' /\ m2.buffer = buffer' /\ g = NewHeap(m2, root', nextNodeId')
       /\ MemoryOK(m2, nextNodeId', nextValueId) /\ Known(m2) = 0 .. nextNodeId' - 1
       /\ nextNodeId' \in Nat /\ nextNodeId' >= nextNodeId
       /\ NodeOK(root', nextNodeId', nextValueId) /\ root'.id = 0
  BY <1>1, <1>3, <1>8, <1>12 DEF Remember, g
<1>18. /\ DOMAIN g = DOMAIN h /\ Size(g[c]) = Size(h[c]) /\ c \in DOMAIN h \ {0}
       /\ SameBody(g[0], h[c]) /\ g[0].next = h[c].next /\ g[0].prev = h[c].prev
       /\ \A x \in DOMAIN h \ {0, c} : g[x] = h[x]
  BY <1>5, <1>7, <1>8, <1>9, <1>13
<1>19. RootLowered(m2, h, g, c)
  BY <1>14, <1>15, <1>16, <1>17, <1>18 DEF RootLowered
<1>20. QED
  BY <1>2, <1>19

LEMMA RootCollapseKeeps ==
    ASSUME ShapeInv, NEW E, TreeOf(E), RootCollapse
    PROVE  Shape' /\ TreeOf(E)'
<1>1. PICK m, g, c : RootLowered(m, Heap, g, c)
  BY RootCollapseHeap
<1> DEFINE h == Heap
<1>2. pc = "up" /\ path = <<>> /\ StartCommit /\ call.op = "del" /\ nextValueId' = nextValueId
  BY DEF RootCollapse, StartCommit, RootHasOneChild
<1>3. TreeAt(h, <<>>, 1, 0, call.key, E)
  BY <1>2 DEF TreeOf, Less, More
<1> HIDE DEF h
<1>4. TreeAt(g, <<>>, 0, 0, call.key, E)
  <2>1. RootLowered(m, h, g, c)
    BY <1>1 DEF h
  <2>2. \A x \in DOMAIN h \ {0, c} : SameBody(g[x], h[x])
    BY <2>1, SameBodyOfItself DEF RootLowered
  <2>3. QED
    BY <1>3, <2>1, <2>2, CollapseInOrder DEF RootLowered
<1>5. QED
  BY <1>1, <1>2, <1>4, StartCommitKeeps DEF RootLowered

\* What the storage gets is the node without its flag.
LEMMA StoredOK ==
    ASSUME NEW n, NEW ids \in Int, NEW values, NodeOK(n, ids, values)
    PROVE  /\ NodeOK(Stored(n), ids, values) /\ Stored(n).id = n.id
           /\ Size(Stored(n)) = Size(n)
<1> DEFINE b == Stored(n)
<1>1. n \in NodeRecords
  BY DEF NodeOK
<1>2. b \in NodeRecords
  BY <1>1 DEF Stored, NodeRecords
<1>3. DOMAIN n = {"id", "leaf", "keys", "ptrs", "next", "prev", "deleted"}
  BY <1>1 DEF NodeRecords
<1>4. /\ b.id = n.id /\ b.leaf = n.leaf /\ b.keys = n.keys /\ b.ptrs = n.ptrs
      /\ b.next = n.next /\ b.prev = n.prev
  BY <1>3 DEF Stored
<1> HIDE DEF b
<1>5. Kids(b) = Kids(n) /\ Size(b) = Size(n) /\ \A i : Kid(b, i) = Kid(n, i)
  BY <1>4 DEF Kids, Size, Kid
<1>6. NodeOK(b, ids, values)
  BY <1>2, <1>4, <1>5 DEF NodeOK
<1>7. QED
  BY <1>4, <1>5, <1>6 DEF b

\* The smallest id left is one that the storage has or the next one.
LEMMA NextIdIsNext ==
    ASSUME NEW k \in Nat, NEW n \in Nat, NEW todos, 0 .. k - 1 \cup todos = 0 .. n - 1,
           NEW x \in todos, \A y \in todos : x <= y, k >= 1
    PROVE  Contiguous(0 .. k - 1 \cup {x})
<1>1. x \in 0 .. n - 1 /\ x \in Int
  OBVIOUS
<1>2. CASE x \in 0 .. k - 1
  <2>1. 0 .. k - 1 \cup {x} = 0 .. k - 1
    BY <1>2
  <2>2. QED
    BY <2>1 DEF Contiguous
<1>3. CASE x \notin 0 .. k - 1
  <2>1. k \in 0 .. n - 1 /\ k \notin 0 .. k - 1
    BY <1>1, <1>3
  <2>2. k \in todos
    BY <2>1
  <2>3. x = k
    BY <2>2, <1>1, <1>3
  <2>4. 0 .. k - 1 \cup {x} = 0 .. (k + 1) - 1 /\ k + 1 \in Nat /\ k + 1 >= 1
    BY <2>3
  <2>5. QED
    BY <2>4 DEF Contiguous
<1>4. QED
  BY <1>2, <1>3

\* The commit writes what the tree has.
LEMMA CommitNodeHeap ==
    ASSUME ShapeInv, CommitNode
    PROVE  Heap' = Heap
<1> DEFINE x == NextId
           n == changes[x]
<1>1. /\ pc = "commit" /\ todo # {} /\ nodeStorage' = Put(nodeStorage, x, Stored(n))
      /\ root' = root /\ nextNodeId' = nextNodeId /\ changes' = changes /\ pc' = pc
  BY DEF CommitNode, memory, scratch, client
<1>2. /\ todo \subseteq DOMAIN changes /\ DOMAIN nodeStorage \cup todo = Ids
      /\ nextNodeId \in Nat
  BY <1>1 DEF ShapeInv, Shape, StorageOK, CommitOK, CountersOK
<1>3. x \in todo
  <2>1. todo \in SUBSET Nat
    BY <1>2 DEF Ids
  <2>2. QED
    BY <1>1, <2>1, MinProperties DEF NextId
<1> HIDE DEF x, n
<1>4. /\ DOMAIN nodeStorage' = DOMAIN nodeStorage \cup {x}
      /\ \A y \in DOMAIN nodeStorage : y # x => nodeStorage'[y] = nodeStorage[y]
  BY <1>1 DEF Put
<1>5. \A y \in Ids : y \notin DOMAIN changes =>
          y \in DOMAIN nodeStorage /\ nodeStorage'[y] = nodeStorage[y]
  BY <1>2, <1>3, <1>4
<1>6. Ids' = Ids
  BY <1>1 DEF Ids
<1>7. QED
  BY <1>1, <1>5, <1>6 DEF Heap, At

\* What a cleared buffer leaves is what the commit has written.
LEMMA ClearBufferHeap ==
    ASSUME ShapeInv, ClearBuffer
    PROVE  /\ DOMAIN Heap = Ids /\ DOMAIN Heap' = Ids
           /\ \A x \in Ids : Heap[x] \in NodeRecords /\ Heap'[x] \in {Heap[x], Stored(Heap[x])}
<1> DEFINE g == [x \in Ids |-> IF x = 0 THEN root ELSE nodeStorage[x]]
<1>1. /\ pc = "commit" /\ todo = {} /\ changes' = Empty /\ nodeStorage' = nodeStorage
      /\ root' = root /\ nextNodeId' = nextNodeId /\ pc' = "idle"
  BY DEF ClearBuffer, Return, Remember, Cleared, storages, memory
<1>2. NodesOK /\ StorageOK
  BY DEF ShapeInv, Shape
<1>3. /\ DOMAIN nodeStorage = Ids
      /\ \A y \in DOMAIN changes : nodeStorage[y] = Stored(changes[y])
  BY <1>1, <1>2 DEF StorageOK, CommitOK
<1>4. DOMAIN Empty = {} /\ Ids' = Ids
  BY <1>1 DEF Empty, Ids
<1>5. Heap' = g
  BY <1>1, <1>4 DEF Heap, At
<1>6. root \in NodeRecords /\ (\A x \in Ids : nodeStorage[x] \in NodeRecords)
      /\ \A x \in DOMAIN changes : changes[x] \in NodeRecords
  BY <1>2, <1>3 DEF NodesOK, Copies, NodeOK
<1>7. QED
  BY <1>1, <1>3, <1>5, <1>6 DEF Heap, At

LEMMA CommitNodeKeeps ==
    ASSUME ShapeInv, NEW E, TreeOf(E), CommitNode
    PROVE  Shape' /\ TreeOf(E)'
<1> DEFINE x == NextId
           n == changes[x]
<1>1. /\ pc = "commit" /\ todo # {} /\ nodeStorage' = Put(nodeStorage, x, Stored(n))
      /\ todo' = todo \ {x}
      /\ valueStorage' = valueStorage /\ root' = root /\ nextNodeId' = nextNodeId
      /\ nextValueId' = nextValueId /\ changes' = changes /\ buffer' = buffer
      /\ call' = call /\ calls' = calls /\ pc' = pc /\ node' = node /\ path' = path
      /\ maxKey' = maxKey
  BY DEF CommitNode, memory, scratch, client
<1>2. /\ CountersOK /\ NodesOK /\ FramesOK /\ StorageOK /\ CallOK /\ ValuesOK
  BY DEF ShapeInv, Shape
<1>3. /\ todo \subseteq DOMAIN changes /\ DOMAIN nodeStorage \cup todo = Ids
      /\ \A y \in DOMAIN changes :
             /\ Size(changes[y]) < 2 * NodeSize
             /\ y \notin todo => nodeStorage[y] = Stored(changes[y])
  BY <1>1, <1>2 DEF StorageOK, CommitOK
<1>4. nextNodeId \in Nat /\ nextNodeId \in Int
  BY <1>2 DEF CountersOK
<1>5. todo \in SUBSET Nat
  BY <1>3, <1>4 DEF Ids
<1>6. x \in todo /\ \A y \in todo : x <= y
  BY <1>1, <1>5, MinProperties DEF NextId
<1> HIDE DEF x
<1>7. NodeOK(n, nextNodeId, nextValueId) /\ n.id = x /\ Size(n) < 2 * NodeSize
      /\ x \in DOMAIN changes
  BY <1>2, <1>3, <1>6 DEF NodesOK, Copies
<1> HIDE DEF n
<1>8. /\ NodeOK(Stored(n), nextNodeId, nextValueId) /\ Stored(n).id = x
      /\ Size(Stored(n)) < 2 * NodeSize
  BY <1>4, <1>7, StoredOK
<1>9. /\ DOMAIN nodeStorage' = DOMAIN nodeStorage \cup {x}
      /\ nodeStorage'[x] = Stored(n)
      /\ \A y \in DOMAIN nodeStorage : y # x => nodeStorage'[y] = nodeStorage[y]
  BY <1>1 DEF Put
<1>10. CountersOK'
  BY <1>1, <1>2 DEF CountersOK
<1>11. NodesOK'
  <2>1. Copies(nodeStorage', nextNodeId, nextValueId)
    BY <1>2, <1>8, <1>9 DEF NodesOK, Copies
  <2>2. QED
    BY <2>1, <1>1, <1>2 DEF NodesOK
<1>12. FramesOK' /\ CallOK' /\ AtWork' /\ ValuesOK' /\ MaxKeyOK'
  BY <1>1, <1>2 DEF FramesOK, CallOK, Updates, AtWork, ValuesOK, MaxKeyOK
<1>13. Heap' = Heap
  BY CommitNodeHeap
<1>14. TreeOf(E)'
  BY <1>1, <1>13 DEF TreeOf, Less, More
<1>15. Contiguous(DOMAIN nodeStorage')
  <2>1. PICK k \in Nat : k >= 1 /\ DOMAIN nodeStorage = 0 .. k - 1
    BY <1>2 DEF StorageOK, Contiguous
  <2>2. Contiguous(0 .. k - 1 \cup {x})
    BY <2>1, <1>3, <1>4, <1>6, NextIdIsNext DEF Ids
  <2>3. QED
    BY <2>1, <2>2, <1>9
<1>16. CommitOK'
  <2>1. todo' \subseteq DOMAIN changes' /\ DOMAIN nodeStorage' \cup todo' = Ids'
    BY <1>1, <1>3, <1>6, <1>9 DEF Ids
  <2>2. ASSUME NEW y \in DOMAIN changes, y \notin todo'
        PROVE  nodeStorage'[y] = Stored(changes[y])
    <3>1. CASE y = x
      BY <3>1, <1>9 DEF n
    <3>2. CASE y # x
      <4>1. y \notin todo /\ nodeStorage[y] = Stored(changes[y])
        BY <3>2, <2>2, <1>1, <1>3
      <4>2. y \in DOMAIN nodeStorage
        <5>1. y \in Ids
          BY <1>2, <1>4 DEF NodesOK, Copies, NodeOK, Ids
        <5>2. QED
          BY <5>1, <4>1, <1>3
      <4>3. QED
        BY <4>1, <4>2, <3>2, <1>9
    <3>3. QED
      BY <3>1, <3>2
  <2>3. QED
    BY <2>1, <2>2, <1>1, <1>3 DEF CommitOK
<1>17. StorageOK'
  <2>1. \A y \in DOMAIN nodeStorage' : Size(nodeStorage'[y]) < 2 * NodeSize
    BY <1>2, <1>8, <1>9 DEF StorageOK
  <2>2. QED
    BY <2>1, <1>1, <1>15, <1>16 DEF StorageOK
<1>18. QED
  BY <1>10, <1>11, <1>12, <1>14, <1>17 DEF Shape

LEMMA ClearBufferKeeps ==
    ASSUME ShapeInv, NEW E, TreeOf(E), ClearBuffer
    PROVE  Shape' /\ TreeOf(E)'
<1> DEFINE h == Heap
           g == Heap'
<1>1. /\ pc = "commit" /\ todo = {} /\ todo' = {} /\ changes' = Empty /\ buffer' = Empty
      /\ nodeStorage' = nodeStorage /\ valueStorage' = valueStorage /\ root' = root
      /\ nextNodeId' = nextNodeId /\ nextValueId' = nextValueId
      /\ call' = call /\ calls' = calls /\ pc' = "idle" /\ node' = NoNode /\ path' = <<>>
  BY DEF ClearBuffer, Return, Remember, Cleared, storages, memory
<1>2. /\ CountersOK /\ NodesOK /\ StorageOK /\ CallOK /\ ValuesOK
  BY DEF ShapeInv, Shape
<1>3. /\ DOMAIN nodeStorage = Ids
      /\ \A y \in DOMAIN changes : nodeStorage[y] = Stored(changes[y])
  BY <1>1, <1>2 DEF StorageOK, CommitOK
<1>4. DOMAIN Empty = {} /\ Ids' = Ids
  BY <1>1 DEF Empty, Ids
<1>5. /\ DOMAIN h = Ids /\ DOMAIN g = Ids
      /\ \A x \in Ids : h[x] \in NodeRecords /\ g[x] \in {h[x], Stored(h[x])}
  BY ClearBufferHeap
<1>6. TreeAt(h, <<>>, 0, 0, call.key, E)
  <2>1. path = <<>> /\ Less = 0 /\ More = 0
    BY <1>1, <1>2 DEF CallOK, Less, More
  <2>2. QED
    BY <1>1, <2>1 DEF TreeOf
<1>7. TreeAt(g, <<>>, 0, 0, call.key, E)
  <2> HIDE DEF g, h
  <2>1. QED
    BY <1>5, <1>6, StoredInOrder
<1>8. TreeOf(E)'
  BY <1>1, <1>7 DEF TreeOf, Less, More
<1>9. CountersOK' /\ ValuesOK'
  BY <1>1, <1>2 DEF CountersOK, ValuesOK
<1>10. NodesOK'
  BY <1>1, <1>2, <1>4 DEF NodesOK, Copies
<1>11. FramesOK'
  BY <1>1, EmptySeq DEF FramesOK
<1>12. StorageOK'
  BY <1>1, <1>2, <1>3, <1>4 DEF StorageOK
<1>13. CallOK' /\ AtWork' /\ MaxKeyOK'
  BY <1>1, <1>2 DEF CallOK, AtWork, MaxKeyOK
<1>14. QED
  BY <1>8, <1>9, <1>10, <1>11, <1>12, <1>13 DEF Shape

-------------------------------------------------------------------------------
LEMMA IdleKeeps ==
    ASSUME ShapeInv, NEW E, TreeOf(E), UNCHANGED vars
    PROVE  Shape' /\ TreeOf(E)'
<1>1. /\ nodeStorage' = nodeStorage /\ valueStorage' = valueStorage /\ root' = root
      /\ nextNodeId' = nextNodeId /\ nextValueId' = nextValueId
      /\ changes' = changes /\ buffer' = buffer /\ pc' = pc /\ call' = call
      /\ calls' = calls /\ node' = node /\ path' = path /\ maxKey' = maxKey /\ todo' = todo
  BY DEF vars, storages, memory, scratch, client, locals
<1>2. Heap' = Heap /\ Less' = Less /\ More' = More
  BY <1>1 DEF Heap, Ids, At, Less, More
<1>3. CountersOK' /\ NodesOK' /\ FramesOK' /\ ValuesOK'
  BY <1>1 DEF ShapeInv, Shape, CountersOK, NodesOK, Copies, FramesOK, ValuesOK
<1>4. StorageOK'
  BY <1>1 DEF ShapeInv, Shape, StorageOK, CommitOK, Ids
<1>5. CallOK' /\ AtWork' /\ MaxKeyOK'
  BY <1>1, <1>2 DEF ShapeInv, Shape, CallOK, Updates, AtWork, MaxKeyOK
<1>6. TreeOf(E)'
  BY <1>1, <1>2 DEF TreeOf
<1>7. QED
  BY <1>3, <1>4, <1>5, <1>6 DEF Shape

\* The steps that change neither the pairs nor the values.
LEMMA SameMatch ==
    ASSUME NEW E, PairsMatch(E), TreeOf(E)', DOMAIN valueStorage' = DOMAIN valueStorage
    PROVE  PairsMatch(E)'
BY DEF PairsMatch

LEMMA QuietMatch ==
    ASSUME ShapeInv, NEW E, PairsMatch(E),
           QuietStep \/ CommitNode \/ UNCHANGED vars \/ \E c \in Calls : Invoke(c)
    PROVE  Shape' /\ PairsMatch(E)' /\ valueStorage' = valueStorage
<1>1. TreeOf(E)
  BY DEF PairsMatch
<1>2. valueStorage' = valueStorage
  <2>1. CASE DescendSet \/ DescendDel \/ KeyDoesNotExist \/ FindNode \/ Get
             \/ GetRangeEnd \/ GetRangeNextLeaf
    BY <2>1 DEF DescendSet, DescendDel, Enter, KeyDoesNotExist, FindNode, Get, GetRangeEnd,
                GetRangeNextLeaf, Return, storages
  <2>2. CASE AscendPlain \/ SetOverflow \/ DelShortage
    BY <2>2 DEF AscendPlain, SetOverflow, DelShortage, Ascend, storages
  <2>3. CASE RootStays \/ RootSplit \/ RootCollapse \/ ClearBuffer \/ CommitNode
    BY <2>3 DEF RootStays, RootSplit, RootCollapse, StartCommit, ClearBuffer, CommitNode,
                Return, storages
  <2>4. CASE UNCHANGED vars
    BY <2>4 DEF vars, storages
  <2>5. CASE \E c \in Calls : Invoke(c)
    BY <2>5 DEF Invoke, storages
  <2>6. QED
    BY <2>1, <2>2, <2>3, <2>4, <2>5 DEF QuietStep
<1>3. Shape' /\ TreeOf(E)'
  <2>1. ASSUME NEW c \in Calls, Invoke(c) PROVE Shape' /\ TreeOf(E)'
    BY <1>1, <2>1, InvokeKeeps
  <2>2. CASE UNCHANGED vars
    BY <1>1, <2>2, IdleKeeps
  <2>3. CASE DescendSet \/ DescendDel
    BY <1>1, <2>3, DescendKeeps
  <2>4. CASE KeyDoesNotExist \/ Get \/ GetRangeEnd
    BY <1>1, <2>4, ReturnKeeps DEF KeyDoesNotExist, Get, GetRangeEnd
  <2>5. CASE FindNode \/ GetRangeNextLeaf
    BY <1>1, <2>5, FindNodeKeeps, GetRangeNextLeafKeeps
  <2>6. CASE AscendPlain \/ SetOverflow \/ DelShortage
    BY <1>1, <2>6, AscendPlainKeeps, SetOverflowKeeps, DelShortageKeeps
  <2>7. CASE RootStays \/ RootSplit \/ RootCollapse
    BY <1>1, <2>7, RootStaysKeeps, RootSplitKeeps, RootCollapseKeeps
  <2>8. CASE CommitNode \/ ClearBuffer
    BY <1>1, <2>8, CommitNodeKeeps, ClearBufferKeeps
  <2>9. QED
    BY <2>1, <2>2, <2>3, <2>4, <2>5, <2>6, <2>7, <2>8 DEF QuietStep
<1>4. DOMAIN valueStorage' = DOMAIN valueStorage
  BY <1>2
<1>5. QED
  BY <1>2, <1>3, <1>4, SameMatch

\* A new key brings a new value id, and takes it along when it goes.
\* A set at its leaf writes a value and adds its pair, unless that is there; a
\* del erases a value and takes its pair away.
Written(E, F) ==
    \/ /\ call.op = "set"
       /\ \E v : F = E \cup {<<call.key, v>>} /\ valueStorage' = Put(valueStorage, v, call.arg)
    \/ /\ call.op = "del"
       /\ \E v : /\ <<call.key, v>> \in E /\ F = E \ {<<call.key, v>>}
                /\ valueStorage' = Drop(valueStorage, v)

LEMMA LeafMatch ==
    ASSUME ShapeInv, NEW E, PairsMatch(E), SetLeafAdd \/ SetLeafReplace \/ DelLeaf
    PROVE  Shape' /\ \E F : PairsMatch(F)' /\ Written(E, F)
<1>1. TreeOf(E) /\ Matched(E, DOMAIN valueStorage)
  BY DEF PairsMatch
<1>2. CASE SetLeafAdd
  <2> DEFINE v == nextValueId
             k == call.key
  <2>1. PICK F : F = E \cup {<<k, v>>}
    OBVIOUS
  <2>2. Shape' /\ TreeOf(F)' /\ \A e \in E : e[1] # k
    BY <1>1, <1>2, <2>1, SetLeafAddKeeps
  <2>3. DOMAIN valueStorage' = DOMAIN valueStorage \cup {v}
    BY <1>2 DEF SetLeafAdd, Put
  <2>4. v \notin DOMAIN valueStorage
    BY DEF ShapeInv, Shape, ValuesOK, CountersOK
  <2> HIDE DEF v, k
  <2>5. Matched(F, DOMAIN valueStorage \cup {v})
    BY <1>1, <2>1, <2>2, <2>4, MatchedGrows
  <2>6. PairsMatch(F)'
    BY <2>2, <2>3, <2>5 DEF PairsMatch
  <2>7. Written(E, F)
    BY <1>2, <2>1 DEF Written, SetLeafAdd, v, k
  <2>8. QED
    BY <2>2, <2>6, <2>7
<1>3. CASE SetLeafReplace
  <2> DEFINE v == node.ptrs[FindKey]
             k == call.key
  <2>1. Shape' /\ TreeOf(E)' /\ <<k, v>> \in E
    BY <1>1, <1>3, SetLeafReplaceKeeps
  <2>2. valueStorage' = Put(valueStorage, v, call.arg)
    BY <1>3 DEF SetLeafReplace
  <2> HIDE DEF v, k
  <2>3. v \in DOMAIN valueStorage
    BY <1>1, <2>1 DEF Matched
  <2>4. DOMAIN valueStorage' = DOMAIN valueStorage
    BY <2>2, <2>3 DEF Put
  <2>5. PairsMatch(E)'
    BY <2>1, <2>4, SameMatch
  <2>6. E = E \cup {<<k, v>>}
    BY <2>1
  <2>7. Written(E, E)
    BY <1>3, <2>2, <2>6 DEF Written, SetLeafReplace, k
  <2>8. QED
    BY <2>1, <2>5, <2>7
<1>4. CASE DelLeaf
  <2> DEFINE v == node.ptrs[FindKey]
             k == call.key
  <2>1. PICK F : F = E \ {<<k, v>>}
    OBVIOUS
  <2>2. Shape' /\ TreeOf(F)' /\ <<k, v>> \in E
    BY <1>1, <1>4, <2>1, DelLeafKeeps
  <2>3. DOMAIN valueStorage' = DOMAIN valueStorage \ {v}
    BY <1>4 DEF DelLeaf, Drop
  <2> HIDE DEF v, k
  <2>4. Matched(F, DOMAIN valueStorage \ {v})
    BY <1>1, <2>1, <2>2, MatchedShrinks
  <2>5. PairsMatch(F)'
    BY <2>2, <2>3, <2>4 DEF PairsMatch
  <2>6. Written(E, F)
    BY <1>4, <2>1, <2>2 DEF Written, DelLeaf, v, k
  <2>7. QED
    BY <2>2, <2>5, <2>6
<1>5. QED
  BY <1>2, <1>3, <1>4

LEMMA ShapeStep == ShapeInv /\ [Next]_vars => ShapeInv'
<1> SUFFICES ASSUME ShapeInv, [Next]_vars PROVE Shape' /\ \E E : PairsMatch(E)'
  BY StepInv DEF ShapeInv
<1>1. PICK E : PairsMatch(E)
  BY DEF ShapeInv
<1>2. CASE QuietStep \/ CommitNode \/ UNCHANGED vars \/ \E c \in Calls : Invoke(c)
  BY <1>1, <1>2, QuietMatch
<1>3. CASE SetLeafAdd \/ SetLeafReplace \/ DelLeaf
  BY <1>1, <1>3, LeafMatch
<1>4. QED
  BY <1>2, <1>3 DEF Next, Step

\* At every step the nodes form a tree to which the frames lead; only the node
\* at work may be one key too large or too small, and what the storage lacks of
\* the tree a commit has yet to write.
THEOREM ShapeKept == Spec => []ShapeInv
<1>1. Init => ShapeInv
  BY InitShape DEF Init, Empty, BufferIsCurrent, ShapeInv
<1>2. QED
  BY <1>1, ShapeStep, PTL DEF Spec

-------------------------------------------------------------------------------
LEMMA NodeHasType ==
    ASSUME NEW n, nextNodeId \in Nat, nextValueId \in Nat,
           n = NoNode \/ NodeOK(n, nextNodeId, nextValueId)
    PROVE  NodeType(n)
<1>1. NoNode = [id |-> -1, leaf |-> TRUE, keys |-> <<>>, ptrs |-> <<>>,
                next |-> -1, prev |-> -1, deleted |-> FALSE]
  BY DEF NoNode, Leaf, Nil
<1>2. DOMAIN NoNode = {"id", "leaf", "keys", "ptrs", "next", "prev", "deleted"}
  BY <1>1
<1>3. CASE n = NoNode
  <2>1. /\ n.id = Nil /\ n.next = Nil /\ n.prev = Nil /\ n.leaf = TRUE /\ n.deleted = FALSE
        /\ n.keys = <<>> /\ n.ptrs = <<>>
    BY <1>1, <1>3 DEF Nil
  <2>2. <<>> \in Seq(Keys) /\ DOMAIN <<>> = {}
    OBVIOUS
  <2>3. QED
    BY <2>1, <2>2, <1>3 DEF NodeType
<1>4. CASE NodeOK(n, nextNodeId, nextValueId)
  <2>1. /\ n \in NodeRecords /\ n.id \in 0 .. nextNodeId - 1 /\ Kids(n) = Size(n)
        /\ \A i \in 1 .. Kids(n) : Kid(n, i) \in Handed(n.leaf, nextNodeId, nextValueId)
        /\ n.next \in {Nil} \cup 1 .. nextNodeId - 1
        /\ n.prev \in {Nil} \cup 1 .. nextNodeId - 1
    BY <1>4 DEF NodeOK
  <2>2. DOMAIN n = DOMAIN NoNode
    BY <2>1, <1>2 DEF NodeRecords
  <2>3. /\ n.leaf \in BOOLEAN /\ n.deleted \in BOOLEAN /\ n.keys \in Seq(Keys)
        /\ n.ptrs \in Seq(Int)
    BY <2>1, NodeFacts
  <2>4. Len(n.ptrs) = Len(n.keys) /\ DOMAIN n.ptrs = 1 .. Kids(n)
    BY <2>1, <2>3 DEF Kids, Size
  <2>5. ASSUME NEW i \in DOMAIN n.ptrs
        PROVE  n.ptrs[i] \in 0 .. (IF n.leaf THEN nextValueId ELSE nextNodeId) - 1
    <3>1. n.ptrs[i] \in Handed(n.leaf, nextNodeId, nextValueId)
      BY <2>1, <2>4, <2>5 DEF Kid
    <3>2. CASE n.leaf
      BY <3>1, <3>2 DEF Handed
    <3>3. CASE ~n.leaf
      BY <3>1, <3>3 DEF Handed
    <3>4. QED
      BY <3>2, <3>3
  <2>6. {n.id, n.next, n.prev} \subseteq {Nil} \cup 0 .. nextNodeId - 1
    BY <2>1
  <2>7. QED
    BY <2>2, <2>3, <2>4, <2>5, <2>6 DEF NodeType
<1>5. QED
  BY <1>3, <1>4

\* The types of module BTree: every id and value id that a node names has been
\* handed out, and no copy of a node is filed under another id than its own.
THEOREM TypeCorrect == Spec => []TypeOK
<1>1. ShapeInv => TypeOK
  <2> SUFFICES ASSUME ShapeInv PROVE TypeOK
    OBVIOUS
  <2>1. /\ CountersOK /\ NodesOK /\ FramesOK /\ StorageOK /\ CallOK /\ ValuesOK
    BY DEF ShapeInv, Shape
  <2>2. nextNodeId \in Nat /\ nextValueId \in Nat /\ calls \in 0 .. MaxCalls
    BY <2>1 DEF CountersOK
  <2>3. \A f \in {nodeStorage, changes, buffer} : \A id \in DOMAIN f :
            NodeType(f[id]) /\ f[id].id = id
    BY <2>1, <2>2, NodeHasType DEF NodesOK, Copies
  <2>4. NodeType(root) /\ root.id = 0 /\ NodeType(node)
    BY <2>1, <2>2, NodeHasType DEF NodesOK
  <2>5. \A i \in DOMAIN path : NodeType(path[i].node)
    <3>1. Less \in Nat /\ More \in Nat /\ ShapeAt(Heap, path, Less, More)
      BY HeapHasShape DEF Less, More
    <3>2. path \in Seq(Frames)
      BY <3>1, NodeAtWork
    <3>3. DOMAIN path = 1 .. Len(path)
      BY <3>2
    <3>4. QED
      BY <3>3, <2>1, <2>2, NodeHasType DEF FramesOK
  <2>6. todo \subseteq DOMAIN changes
    BY <2>1 DEF StorageOK, CommitOK
  <2>7. QED
    BY <2>1, <2>2, <2>3, <2>4, <2>5, <2>6 DEF TypeOK, ValuesOK, CallOK
<1>2. QED
  BY <1>1, ShapeKept, PTL

\* A commit writes each node at an id the storage has or at the next free one,
\* whichever nodes the call changed: IOStorage::insert never meets a gap.
THEOREM CommitsContiguous == Spec => []CommitsAreContiguous
<1>1. ShapeInv => CommitsAreContiguous
  <2> SUFFICES ASSUME ShapeInv PROVE CommitsAreContiguous
    OBVIOUS
  <2>1. PICK k \in Nat : k >= 1 /\ DOMAIN nodeStorage = 0 .. k - 1
    BY DEF ShapeInv, Shape, StorageOK, Contiguous
  <2>2. Cardinality(0 .. k - 1) = k
    <3>1. 0 \in Int /\ k - 1 \in Int
      BY <2>1
    <3>2. Cardinality(0 .. k - 1) = IF 0 > k - 1 THEN 0 ELSE (k - 1) - 0 + 1
      BY <3>1, FS_Interval
    <3>3. QED
      BY <2>1, <3>2
  <2>3. QED
    BY <2>1, <2>2 DEF CommitsAreContiguous
<1>2. QED
  BY <1>1, ShapeKept, PTL

\* No node that a commit writes has NodeSize * 2 keys: splits come before it.
THEOREM NodesFitBlock == Spec => []CommittedNodesFitBlock
<1>1. ShapeInv => CommittedNodesFitBlock
  <2> SUFFICES ASSUME ShapeInv PROVE CommittedNodesFitBlock
    OBVIOUS
  <2>1. \A x \in DOMAIN nodeStorage : Size(nodeStorage[x]) < 2 * NodeSize
    BY DEF ShapeInv, Shape, StorageOK
  <2>2. NodeSize * 2 = 2 * NodeSize
    BY NodeSizeAssumption
  <2>3. QED
    BY <2>1, <2>2 DEF CommittedNodesFitBlock
<1>2. QED
  BY <1>1, ShapeKept, PTL

\* normalizeNodeShortage always finds a sibling to join, and none of the nodes
\* it sees is one that the same call has deleted.
THEOREM SiblingExists == Spec => []ShortageHasSibling
<1>1. ShapeInv => ShortageHasSibling
  <2> SUFFICES ASSUME ShapeInv, pc = "up", path # <<>>
               PROVE  /\ Size(Parent) > 1
                      /\ \A i \in DOMAIN Parent.ptrs : ~View(Parent.ptrs[i]).deleted
    BY DEF ShortageHasSibling
  <2> DEFINE h == HeapOf(Memory, nextNodeId)
             c == Cur(path)
             p == path[Len(path)].node.id
             i == path[Len(path)].index
  <2>1. /\ IsParent(Parent, HeapOf(AfterRead, nextNodeId), path, nextNodeId, nextValueId)
        /\ Heap = HeapOf(AfterRead, nextNodeId)
        /\ nextNodeId \in Int /\ nextNodeId >= 1 /\ nextValueId \in Int
        /\ Less \in Nat /\ More \in Nat
    BY CallerProperties DEF Caller
  <2>2. /\ MemoryOK(Memory, nextNodeId, nextValueId) /\ Known(Memory) = 0 .. nextNodeId - 1
        /\ ShapeAt(h, path, Less, More) /\ Heap = h
    BY RunningMemory DEF Running
  <2>3. ParentIn(Parent, Memory, h, path, i, c, nextNodeId, nextValueId)
    BY <2>1, <2>2, ParentProperties
  <2>4. Parent.id = p /\ NodeOK(Parent, nextNodeId, nextValueId)
    BY <2>1 DEF IsParent
  <2> HIDE DEF h, i, c, p
  <2>5. Family(h, path, p, i, c, Less, More)
    BY <2>1, <2>2, FamilyOfPath DEF p, i, c
  <2>6. /\ Kids(Parent) >= 2 /\ Kids(h[p]) = Kids(Parent)
        /\ \A j \in 1 .. Kids(Parent) :
               /\ Kid(Parent, j) = Kid(h[p], j)
               /\ GetNode(Memory, Kid(Parent, j)) = h[Kid(Parent, j)]
    BY <2>3, <2>4 DEF ParentIn
  <2>7. \A j \in 1 .. Kids(Parent) : ~h[Kid(Parent, j)].deleted
    BY <2>5, <2>6 DEF Family
  <2>8. /\ Parent.ptrs \in Seq(Int) /\ Kids(Parent) = Size(Parent) /\ Kids(Parent) \in Nat
    BY <2>4, NodeFacts DEF NodeOK
  <2>9. DOMAIN Parent.ptrs = 1 .. Kids(Parent)
    BY <2>8 DEF Kids
  <2>10. \A j \in DOMAIN Parent.ptrs : ~View(Parent.ptrs[j]).deleted
    BY <2>6, <2>7, <2>9 DEF View, Kid
  <2>11. QED
    BY <2>6, <2>8, <2>10
<1>2. QED
  BY <1>1, ShapeKept, PTL

-------------------------------------------------------------------------------
(* The tree as module BTree computes it: row by row, from the root.         *)

\* The storage f, once the commit is over, holds the root r in memory: as node 0,
\* or as the only child of node 0.
HoldsRoot(f, r) ==
    \/ SameBody(r, f[0])
    \/ /\ IsInner(f[0]) /\ Kids(f[0]) = 1 /\ Kid(f[0], 1) \in DOMAIN f \ {0}
       /\ ~f[0].deleted
       /\ SameBody(r, f[Kid(f[0], 1)]) /\ Kids(r) > 0

Committed == [x \in DOMAIN changes |-> Stored(changes[x])]

RootStored ==
    IF pc = "commit" THEN 0 \in DOMAIN changes /\ HoldsRoot(Committed, root)
    ELSE HoldsRoot(nodeStorage, root)

\* During a commit, too, what it reads is the newest copy.
ReadsCurrent ==
    pc = "commit" => \A x \in DOMAIN buffer : x \in DOMAIN changes \/ buffer[x] = nodeStorage[x]

CommitInv == RootStored /\ ReadsCurrent

LEMMA StoredBodies ==
    ASSUME NEW n, n \in NodeRecords, ~n.deleted
    PROVE  /\ SameBody(n, Stored(n)) /\ Stored(n).leaf = n.leaf
           /\ \A x : SameBody([n EXCEPT !.id = x], Stored([n EXCEPT !.deleted = TRUE]))
<1>1. n.deleted = FALSE /\ DOMAIN n = {"id", "leaf", "keys", "ptrs", "next", "prev", "deleted"}
  BY DEF NodeRecords
<1> DEFINE s == Stored(n)
           t == Stored([n EXCEPT !.deleted = TRUE])
<1>2. /\ s.leaf = n.leaf /\ s.keys = n.keys /\ s.ptrs = n.ptrs /\ s.deleted = n.deleted
      /\ t.leaf = n.leaf /\ t.keys = n.keys /\ t.ptrs = n.ptrs /\ t.deleted = n.deleted
  BY <1>1 DEF Stored
<1> HIDE DEF s, t
<1>3. SameBody(n, s)
  BY <1>2 DEF SameBody, SameCore, Size, Kids, Kid
<1>4. ASSUME NEW x PROVE SameBody([n EXCEPT !.id = x], t)
  <2> DEFINE m == [n EXCEPT !.id = x]
  <2>1. m.leaf = n.leaf /\ m.keys = n.keys /\ m.ptrs = n.ptrs /\ m.deleted = n.deleted
    BY <1>1
  <2> HIDE DEF m
  <2>2. SameBody(m, t)
    BY <1>2, <2>1 DEF SameBody, SameCore, Size, Kids, Kid
  <2>3. QED
    BY <2>2 DEF m
<1>5. QED
  BY <1>2, <1>3, <1>4 DEF s, t

LEMMA InnerStored ==
    ASSUME NEW ks, NEW ps, NEW n,
           n = [id |-> 0, leaf |-> FALSE, keys |-> ks, ptrs |-> ps, next |-> Nil,
                prev |-> Nil, deleted |-> FALSE]
    PROVE  SameBody(n, Stored(n))
<1> DEFINE s == Stored(n)
<1>1. /\ n.leaf = FALSE /\ n.keys = ks /\ n.ptrs = ps /\ n.deleted = FALSE
      /\ DOMAIN n = {"id", "leaf", "keys", "ptrs", "next", "prev", "deleted"}
  OBVIOUS
<1>2. s = [n EXCEPT !.deleted = FALSE]
  BY <1>1 DEF Stored
<1> HIDE DEF s
<1>3. s.leaf = n.leaf /\ s.keys = n.keys /\ s.ptrs = n.ptrs /\ s.deleted = n.deleted
  BY <1>1, <1>2
<1>4. SameBody(n, s)
  BY <1>3 DEF SameBody, SameCore, Size, Kids, Kid
<1>5. QED
  BY <1>4 DEF s

\* The commit starts with a memory m that is current and has the new root.
LEMMA CommitStarts ==
    ASSUME StartCommit, NEW m, Current(m), Remember(m), 0 \in DOMAIN m.changes,
           HoldsRoot([x \in DOMAIN m.changes |-> Stored(m.changes[x])], root')
    PROVE  CommitInv'
<1>1. /\ pc' = "commit" /\ changes' = m.changes /\ buffer' = m.buffer
      /\ nodeStorage' = nodeStorage
  BY DEF StartCommit, Remember, storages
<1>2. Committed' = [x \in DOMAIN m.changes |-> Stored(m.changes[x])]
  BY <1>1 DEF Committed
<1>3. RootStored'
  BY <1>1, <1>2 DEF RootStored
<1>4. ReadsCurrent'
  BY <1>1 DEF ReadsCurrent, Current
<1>5. QED
  BY <1>3, <1>4 DEF CommitInv

LEMMA RootStaysStored ==
    ASSUME ShapeInv, RootStays
    PROVE  CommitInv'
<1> DEFINE m == Memory
           f == [x \in DOMAIN m.changes |-> Stored(m.changes[x])]
<1>1. /\ pc = "up" /\ path = <<>> /\ StartCommit /\ root' = NewRoot
      /\ changes' = changes /\ buffer' = buffer
  BY DEF RootStays, StartCommit, scratch
<1>2. AtRoot(m)
  BY <1>1, RootProperties
<1>3. /\ 0 \in DOMAIN m.changes /\ NewRoot = m.changes[0] /\ ~NewRoot.deleted
      /\ NewRoot \in NodeRecords
  BY <1>2 DEF AtRoot, NodeOK
<1>4. Current(m)
  BY <1>1, MemoryCurrent DEF ShapeInv
<1>5. Remember(m)
  BY <1>1 DEF Remember, Memory
<1> HIDE DEF m
<1>6. f[0] = Stored(NewRoot)
  BY <1>3
<1> HIDE DEF f
<1>7. HoldsRoot(f, root')
  BY <1>1, <1>3, <1>6, StoredBodies DEF HoldsRoot
<1>8. QED
  BY <1>1, <1>3, <1>4, <1>5, <1>7, CommitStarts DEF f

LEMMA RootSplitStored ==
    ASSUME ShapeInv, RootSplit
    PROVE  CommitInv'
<1> DEFINE m == Memory
<1>1. pc = "up" /\ path = <<>> /\ StartCommit
  BY DEF RootSplit, StartCommit
<1>2. AtRoot(m)
  BY <1>1, RootProperties
<1>3. Current(m) /\ root.id = 0
  BY <1>1, <1>2, MemoryCurrent DEF ShapeInv, AtRoot
<1>4. PICK ids \in {<<nextNodeId, nextNodeId + 1>>, <<nextNodeId + 1, nextNodeId>>} :
        LET pair == Split(NewRoot, ids[1], ids[2])
            top == Inner(root.id, <<GetMax(pair[1]), GetMax(pair[2])>>, ids)
        IN  /\ root' = top
            /\ Remember(SaveNode(SaveNode(SaveNode(m, pair[1]), pair[2]), top))
  BY DEF RootSplit
<1> DEFINE pair == Split(NewRoot, ids[1], ids[2])
           top == Inner(root.id, <<GetMax(pair[1]), GetMax(pair[2])>>, ids)
           m2 == SaveNode(SaveNode(m, pair[1]), pair[2])
           m3 == SaveNode(m2, top)
           f == [x \in DOMAIN m3.changes |-> Stored(m3.changes[x])]
<1>5. root' = top /\ Remember(m3)
  BY <1>4
<1>6. Current(m3)
  BY <1>3, SaveNodeCurrent
<1>7. top.id = 0 /\ SameBody(top, Stored(top))
  <2>1. top = [id |-> 0, leaf |-> FALSE, keys |-> <<GetMax(pair[1]), GetMax(pair[2])>>,
               ptrs |-> ids, next |-> Nil, prev |-> Nil, deleted |-> FALSE]
    BY <1>3 DEF Inner
  <2>2. top.id = 0
    BY <2>1
  <2> HIDE DEF top, pair
  <2>3. SameBody(top, Stored(top))
    BY <2>1, InnerStored
  <2>4. QED
    BY <2>2, <2>3
<1> HIDE DEF top, m2
<1>8. m3.changes = Put(m2.changes, 0, top)
  BY <1>7 DEF SaveNode
<1> HIDE DEF m3
<1>9. 0 \in DOMAIN m3.changes /\ m3.changes[0] = top
  BY <1>8 DEF Put
<1>10. f[0] = Stored(top)
  BY <1>9
<1> HIDE DEF f
<1>11. HoldsRoot(f, root')
  BY <1>5, <1>7, <1>10 DEF HoldsRoot
<1>12. QED
  BY <1>1, <1>5, <1>6, <1>9, <1>11, CommitStarts DEF f

LEMMA RootCollapseStored ==
    ASSUME ShapeInv, RootCollapse
    PROVE  CommitInv'
<1> DEFINE m == Memory
           n == NewRoot
           c == Kid(n, 1)
           child == GetNode(m, c)
           gone == [child EXCEPT !.deleted = TRUE]
           m1 == Buffered(m, c)
           m2 == SaveNode(m1, gone)
           f == [x \in DOMAIN m2.changes |-> Stored(m2.changes[x])]
<1>1. /\ pc = "up" /\ path = <<>> /\ RootHasOneChild /\ StartCommit
      /\ root' = AsRoot(child) /\ Remember(m2)
  BY DEF RootCollapse, StartCommit, Kid, DelNode
<1>2. AtRoot(m)
  BY <1>1, RootProperties
<1>3. /\ nextNodeId \in Int /\ nextNodeId >= 1 /\ nextValueId \in Nat
      /\ Known(m) = 0 .. nextNodeId - 1
      /\ MemoryOK(m, nextNodeId, nextValueId) /\ NodeOK(n, nextNodeId, nextValueId)
      /\ root.id = 0 /\ m.changes = changes /\ n = changes[0] /\ 0 \in DOMAIN changes
      /\ n = HeapOf(m, nextNodeId)[0] /\ Current(m)
      /\ ShapeAt(HeapOf(m, nextNodeId), <<>>, Less, More)
  BY <1>2 DEF AtRoot, MemoryOK
<1>4. Size(n) = 1 /\ Kids(n) = 1 /\ n.leaf = FALSE /\ ~n.deleted /\ n \in NodeRecords
  <2>1. Size(n) = 1 /\ ~n.leaf
    BY <1>1 DEF RootHasOneChild
  <2>2. Kids(n) = Size(n) /\ n.leaf \in BOOLEAN /\ ~n.deleted
    BY <1>2 DEF AtRoot
  <2>3. QED
    BY <2>1, <2>2, <1>3 DEF NodeOK
<1> HIDE DEF m, n
<1>5. c \in 1 .. nextNodeId - 1 /\ c \in 0 .. nextNodeId - 1 /\ c # 0
  <2>1. 1 \in 1 .. Kids(n)
    BY <1>4
  <2>2. c \in Handed(n.leaf, nextNodeId, nextValueId)
    BY <1>3, <2>1 DEF NodeOK
  <2>3. QED
    BY <2>2, <1>3, <1>4 DEF Handed
<1>6. /\ NodeOK(child, nextNodeId, nextValueId) /\ child.id = c
      /\ child = At(m.changes, c)
  BY <1>3, <1>5, GetNodeOK
<1>7. child = HeapOf(m, nextNodeId)[c]
  BY <1>5, <1>6 DEF HeapOf
<1> HIDE DEF child
<1>8. ~child.deleted /\ Kids(child) > 0
  <2> DEFINE h == HeapOf(m, nextNodeId)
  <2>1. PICK live, height : ShapeOn(h, live, height, <<>>, Less, More)
    BY <1>3 DEF ShapeAt
  <2>2. PICK up, pos : Linked(h, live, height, up, pos) /\ Sizes(h, live, 0, Less, More)
    BY <2>1 DEF ShapeOn, Cur
  <2>3. 0 \in live /\ LinkedAt(h[0], 0, live, height, up, pos)
    BY <2>2 DEF Linked
  <2>4. h[0] = n
    BY <1>3
  <2> HIDE DEF h
  <2>5. c \in live
    BY <2>3, <2>4, <1>4 DEF LinkedAt, c
  <2>6. ~h[c].deleted
    BY <2>2, <2>5 DEF Linked, LinkedAt
  <2>7. Kids(h[c]) > 0
    <3>1. Size(h[c]) + 0 >= NodeSize
      BY <2>2, <2>5, <1>5 DEF Sizes, Least
    <3>2. Size(h[c]) \in Nat /\ Kids(h[c]) = Size(h[c])
      BY <2>2, <2>5 DEF Sizes, Linked
    <3>3. QED
      BY <3>1, <3>2, NodeSizeAssumption
  <2>8. QED
    BY <2>6, <2>7, <1>7 DEF h
<1> HIDE DEF c
<1>9. gone.id = c
  BY <1>3, <1>5, <1>6, NewIdOrFlag
<1>10. Current(m2) /\ m2.changes = Put(m.changes, c, gone)
  <2>1. Current(m1)
    BY <1>3, BufferedCurrent
  <2>2. m1.changes = m.changes
    BY DEF Buffered
  <2> HIDE DEF m1, gone
  <2>3. Current(m2)
    BY <2>1, SaveNodeCurrent
  <2>4. m2.changes = Put(m.changes, c, gone)
    BY <1>9, <2>2 DEF SaveNode
  <2>5. QED
    BY <2>3, <2>4
<1> HIDE DEF m2
<1>11. /\ 0 \in DOMAIN m2.changes /\ m2.changes[0] = n
       /\ c \in DOMAIN m2.changes /\ m2.changes[c] = gone
  BY <1>3, <1>5, <1>10 DEF Put
<1>12. f[0] = Stored(n) /\ f[c] = Stored(gone) /\ c \in DOMAIN f \ {0}
  BY <1>5, <1>11
<1> HIDE DEF f
<1>13. IsInner(f[0]) /\ Kids(f[0]) = 1 /\ Kid(f[0], 1) = c /\ ~f[0].deleted
  <2>1. SameBody(n, f[0])
    BY <1>4, <1>12, StoredBodies
  <2>2. QED
    BY <2>1, <1>4 DEF SameBody, SameCore, IsInner, c
<1>14. SameBody(root', f[c]) /\ Kids(root') > 0
  <2>1. root' = [child EXCEPT !.id = root.id]
    BY <1>1 DEF AsRoot
  <2>2. child \in NodeRecords
    BY <1>6 DEF NodeOK
  <2>3. SameBody([child EXCEPT !.id = root.id], Stored([child EXCEPT !.deleted = TRUE]))
    BY <1>8, <2>2, StoredBodies
  <2>4. root'.ptrs = child.ptrs
    BY <2>1, <2>2 DEF NodeRecords
  <2>5. QED
    BY <2>1, <2>3, <2>4, <1>8, <1>12 DEF Kids
<1>15. HoldsRoot(f, root')
  BY <1>12, <1>13, <1>14 DEF HoldsRoot
<1>16. QED
  BY <1>1, <1>10, <1>11, <1>15, CommitStarts DEF f

LEMMA CommitNodeStored ==
    ASSUME ShapeInv, CommitInv, CommitNode
    PROVE  CommitInv'
<1>1. /\ pc = "commit" /\ pc' = pc /\ todo # {}
      /\ nodeStorage' = Put(nodeStorage, NextId, Stored(changes[NextId]))
      /\ root' = root /\ changes' = changes /\ buffer' = buffer
  BY DEF CommitNode, memory, scratch
<1>2. todo \subseteq DOMAIN changes /\ todo \in SUBSET Nat
  <2>1. todo \subseteq DOMAIN changes /\ DOMAIN nodeStorage \cup todo = Ids
    BY <1>1 DEF ShapeInv, Shape, StorageOK, CommitOK
  <2>2. nextNodeId \in Nat
    BY DEF ShapeInv, Shape, CountersOK
  <2>3. QED
    BY <2>1, <2>2 DEF Ids
<1>3. NextId \in DOMAIN changes
  BY <1>1, <1>2, MinProperties DEF NextId
<1>4. \A x : x # NextId => nodeStorage'[x] = nodeStorage[x] \/ x \notin DOMAIN nodeStorage
  BY <1>1 DEF Put
<1>5. \A x \in DOMAIN buffer : x \in DOMAIN nodeStorage \/ x \in DOMAIN changes
  <2>1. /\ Copies(buffer, nextNodeId, nextValueId) /\ DOMAIN nodeStorage \cup todo = Ids
        /\ nextNodeId \in Nat
    BY <1>1 DEF ShapeInv, Shape, NodesOK, StorageOK, CommitOK, CountersOK
  <2>2. \A x \in DOMAIN buffer : x \in Ids
    BY <2>1 DEF Copies, NodeOK, Ids
  <2>3. QED
    BY <2>1, <2>2, <1>2
<1>6. ReadsCurrent'
  BY <1>1, <1>3, <1>4, <1>5 DEF CommitInv, ReadsCurrent
<1>7. RootStored'
  <2>1. Committed' = Committed
    BY <1>1 DEF Committed
  <2>2. QED
    BY <2>1, <1>1 DEF CommitInv, RootStored
<1>8. QED
  BY <1>6, <1>7 DEF CommitInv

LEMMA ClearBufferStored ==
    ASSUME ShapeInv, CommitInv, ClearBuffer
    PROVE  CommitInv'
<1>1. /\ pc = "commit" /\ pc' = "idle" /\ todo = {}
      /\ nodeStorage' = nodeStorage /\ root' = root
  BY DEF ClearBuffer, Return, storages, memory
<1>2. /\ DOMAIN nodeStorage = Ids
      /\ \A x \in DOMAIN changes : nodeStorage[x] = Stored(changes[x]) /\ x \in Ids
  <2>1. /\ DOMAIN nodeStorage = Ids
        /\ \A x \in DOMAIN changes : nodeStorage[x] = Stored(changes[x])
    BY <1>1 DEF ShapeInv, Shape, StorageOK, CommitOK
  <2>2. \A x \in DOMAIN changes : x \in Ids
    BY DEF ShapeInv, Shape, NodesOK, CountersOK, Copies, NodeOK, Ids
  <2>3. QED
    BY <2>1, <2>2
<1>3. 0 \in DOMAIN changes /\ HoldsRoot(Committed, root)
  BY <1>1 DEF CommitInv, RootStored
<1>4. /\ DOMAIN Committed = DOMAIN changes
      /\ \A x \in DOMAIN changes : Committed[x] = nodeStorage[x] /\ x \in DOMAIN nodeStorage
  BY <1>2 DEF Committed
<1>5. HoldsRoot(nodeStorage, root)
  BY <1>3, <1>4 DEF HoldsRoot
<1>6. QED
  BY <1>1, <1>5 DEF CommitInv, RootStored, ReadsCurrent

LEMMA OthersStored ==
    ASSUME CommitInv, ShapeInv,
           QuietStep \/ SetLeafAdd \/ SetLeafReplace \/ DelLeaf
           \/ UNCHANGED vars \/ \E c \in Calls : Invoke(c),
           ~(RootStays \/ RootSplit \/ RootCollapse \/ ClearBuffer)
    PROVE  CommitInv'
<1>1. ASSUME pc # "commit", pc' # "commit", nodeStorage' = nodeStorage, root' = root
      PROVE  CommitInv'
  BY <1>1 DEF CommitInv, RootStored, ReadsCurrent
<1>2. CASE DescendSet \/ DescendDel \/ KeyDoesNotExist \/ FindNode \/ Get
           \/ GetRangeEnd \/ GetRangeNextLeaf
  BY <1>1, <1>2 DEF DescendSet, DescendDel, Enter, KeyDoesNotExist, FindNode, Get, GetRangeEnd,
                    GetRangeNextLeaf, Return, storages, memory
<1>3. CASE AscendPlain \/ SetOverflow \/ DelShortage
  BY <1>1, <1>3 DEF AscendPlain, SetOverflow, DelShortage, Ascend, storages
<1>4. CASE SetLeafAdd \/ SetLeafReplace \/ DelLeaf
  BY <1>1, <1>4 DEF SetLeafAdd, SetLeafReplace, DelLeaf, memory
<1>5. CASE \E c \in Calls : Invoke(c)
  BY <1>1, <1>5 DEF Invoke, storages, memory
<1>6. CASE UNCHANGED vars
  <2>1. /\ pc' = pc /\ nodeStorage' = nodeStorage /\ root' = root /\ changes' = changes
        /\ buffer' = buffer
    BY <1>6 DEF vars, storages, memory, scratch
  <2>2. QED
    BY <2>1 DEF CommitInv, RootStored, ReadsCurrent, Committed
<1>7. QED
  BY <1>2, <1>3, <1>4, <1>5, <1>6 DEF QuietStep

CommitShape == ShapeInv /\ CommitInv

LEMMA CommitShapeStep == CommitShape /\ [Next]_vars => CommitShape'
<1> SUFFICES ASSUME ShapeInv, CommitInv, [Next]_vars PROVE CommitInv'
  BY ShapeStep DEF CommitShape
<1>1. CASE RootStays \/ RootSplit \/ RootCollapse
  BY <1>1, RootStaysStored, RootSplitStored, RootCollapseStored
<1>2. CASE CommitNode \/ ClearBuffer
  BY <1>2, CommitNodeStored, ClearBufferStored
<1>3. QED
  BY <1>1, <1>2, OthersStored DEF Next, Step

\* At the end of a call the storage holds the root in memory, although not always
\* as node 0: a root that an inner one with one child gave way to stays its child.
THEOREM RootIsStored == Spec => []CommitShape
<1>1. Init => CommitShape
  <2> SUFFICES ASSUME Init PROVE ShapeInv /\ CommitInv
    BY DEF CommitShape
  <2>1. ShapeInv
    BY InitShape DEF Init, Empty, BufferIsCurrent, ShapeInv
  <2>2. nodeStorage[0] = root /\ pc = "idle"
    BY DEF Init, Put, Empty
  <2>3. QED
    BY <2>1, <2>2, SameBodyOfItself DEF CommitInv, RootStored, ReadsCurrent, HoldsRoot
<1>2. QED
  BY <1>1, CommitShapeStep, PTL DEF Spec

-------------------------------------------------------------------------------
LEMMA ShapeStands ==
    ASSUME NEW h, IsFiniteSet(DOMAIN h), NEW live, NEW height, NEW up, NEW pos,
           Linked(h, live, height, up, pos), \A a \in live : Listed(h[a]),
           NEW cur, NEW less \in {0, 1}, NEW more, Sizes(h, live, cur, less, more)
    PROVE  Standing(h, live, height, up, pos)
<1>1. ASSUME NEW a \in live, IsInner(h[a]) \/ a # 0 PROVE Kids(h[a]) > 0
  <2>1. a \in DOMAIN h
    BY DEF Linked
  <2>2. Size(h[a]) \in Nat /\ Kids(h[a]) = Size(h[a])
    BY <2>1 DEF Sizes
  <2>3. Size(h[a]) + (IF a = cur THEN less ELSE 0) >= Least(a, h[a])
    BY DEF Sizes
  <2>4. Least(a, h[a]) >= 2 /\ Least(a, h[a]) \in Int
    BY <1>1, NodeSizeAssumption DEF Least, IsInner
  <2>5. QED
    BY <2>2, <2>3, <2>4
<1>2. QED
  BY <1>1 DEF Standing, Filled

LEMMA HeapNodes ==
    ASSUME ShapeInv
    PROVE  /\ IsFiniteSet(DOMAIN Heap) /\ DOMAIN Heap = Ids
           /\ \A x \in Ids : NodeOK(Heap[x], nextNodeId, nextValueId) /\ Heap[x].id = x
           /\ \A x \in Ids : Listed(Heap[x])
<1>1. IsFiniteSet(Ids)
  BY FS_Interval DEF Ids, ShapeInv, Shape, CountersOK
<1>2. ASSUME NEW x \in Ids
      PROVE  NodeOK(Heap[x], nextNodeId, nextValueId) /\ Heap[x].id = x
  <2>1. /\ Copies(nodeStorage, nextNodeId, nextValueId)
        /\ Copies(changes, nextNodeId, nextValueId)
        /\ NodeOK(root, nextNodeId, nextValueId) /\ root.id = 0
    BY DEF ShapeInv, Shape, NodesOK
  <2>2. x \in DOMAIN changes \/ x \in DOMAIN nodeStorage
    BY DEF ShapeInv, Shape, StorageOK, CommitOK
  <2>3. Heap[x] = IF pc = "commit" /\ x = 0 THEN root ELSE At(changes, x)
    BY DEF Heap
  <2>4. QED
    BY <2>1, <2>2, <2>3 DEF Copies, At
<1>3. QED
  BY <1>1, <1>2 DEF Heap, Listed, NodeOK

\* The tree of the invariant, with all its parts.
LEMMA HeapStands ==
    ASSUME ShapeInv, NEW E, TreeOf(E)
    PROVE  \E live, height, up, pos :
               Standing(Heap, live, height, up, pos) /\ E = EntriesAt(Heap, live)
<1>1. Less \in {0, 1}
  BY DEF Less
<1>2. PICK live, height :
          /\ E = EntriesAt(Heap, live)
          /\ \/ ShapeOn(Heap, live, height, path, Less, More)
             \/ ShapeOn(Heap, live, height, path, 0, 0)
  <2>1. CASE pc = "down"
    BY <2>1 DEF TreeOf, AimedAt, AimedOn
  <2>2. CASE pc # "down"
    BY <2>2 DEF TreeOf, TreeAt, TreeOn
  <2>3. QED
    BY <2>1, <2>2
<1>3. PICK less \in {0, 1}, more \in {0, More} : ShapeOn(Heap, live, height, path, less, more)
  BY <1>1, <1>2
<1>4. PICK up, pos : /\ Linked(Heap, live, height, up, pos)
                     /\ Sizes(Heap, live, Cur(path), less, more)
  BY <1>3 DEF ShapeOn
<1>5. \A a \in live : Listed(Heap[a])
  BY <1>4, HeapNodes DEF Linked
<1>6. Standing(Heap, live, height, up, pos)
  BY <1>4, <1>5, HeapNodes, ShapeStands
<1>7. QED
  BY <1>2, <1>6

LEMMA NodesAreHeap ==
    ASSUME ShapeInv, ReadsCurrent
    PROVE  Nodes = Heap
<1>1. root.id = 0 /\ (pc \in {"idle", "down"} => DOMAIN changes = {})
      /\ pc \in {"idle", "down", "up", "commit"}
  BY DEF ShapeInv, Shape, NodesOK, StorageOK, CallOK
<1>2. \A x \in DOMAIN buffer : x \in DOMAIN changes \/ buffer[x] = nodeStorage[x]
  BY DEF ShapeInv, BufferIsCurrent, ReadsCurrent
<1>3. ASSUME NEW x \in Ids, x # 0 PROVE View(x) = At(changes, x)
  BY <1>2, <1>3 DEF View, GetNode, Memory, At
<1>4. Top = IF pc = "commit" THEN root ELSE At(changes, 0)
  BY <1>1 DEF Top, At
<1>5. QED
  BY <1>3, <1>4 DEF Nodes, Heap, Ids

LEMMA TreeHasPairs ==
    ASSUME ShapeInv, ReadsCurrent, NEW E, TreeOf(E)
    PROVE  TreeEntries = E
<1>1. PICK live, height, up, pos :
          Standing(Heap, live, height, up, pos) /\ E = EntriesAt(Heap, live)
  BY HeapStands
<1>2. Entries(Heap, 0) = EntriesAt(Heap, live)
  BY <1>1, RowsOfRoot
<1>3. QED
  BY <1>1, <1>2, NodesAreHeap DEF TreeEntries

\* Between calls and during a commit the nodes form a B+-tree in every respect:
\* node sizes, one row of leaves, no deleted node, keys in order and each below
\* the node above it that names it, and no node in two places.
THEOREM TreeIsShaped == Spec => []TreeShape
<1>1. CommitShape => TreeShape
  <2> SUFFICES ASSUME ShapeInv, ReadsCurrent, pc \in {"idle", "commit"} PROVE IsTree(Nodes)
    BY DEF TreeShape, CommitShape, CommitInv
  <2>1. path = <<>> /\ Less = 0 /\ More = 0 /\ pc # "down" /\ Cur(path) = 0
    BY DEF ShapeInv, Shape, CallOK, Less, More, Cur
  <2>2. PICK E : TreeAt(Heap, path, 0, 0, call.key, E)
    BY <2>1 DEF ShapeInv, PairsMatch, TreeOf
  <2>3. PICK live, height, low : /\ ShapeOn(Heap, live, height, path, 0, 0)
                                 /\ Order(Heap, live, low, 0)
    BY <2>1, <2>2 DEF TreeAt, TreeOn
  <2>4. PICK up, pos : /\ Linked(Heap, live, height, up, pos)
                       /\ Sizes(Heap, live, 0, 0, 0)
    BY <2>1, <2>3 DEF ShapeOn
  <2>5. \A a \in live : Listed(Heap[a]) /\ Heap[a].id = a
    BY <2>4, HeapNodes DEF Linked
  <2>6. Standing(Heap, live, height, up, pos)
    BY <2>4, <2>5, HeapNodes, ShapeStands
  <2>7. root.id = 0
    BY DEF ShapeInv, Shape, NodesOK
  <2>8. IsTree(Heap)
    BY <2>3, <2>4, <2>5, <2>6, <2>7, OrderedIsTree
  <2>9. QED
    BY <2>8, NodesAreHeap
<1>2. QED
  BY <1>1, RootIsStored, PTL

\* As many pairs as values, if they match one to one.
LEMMA MatchedCounts ==
    ASSUME NEW E, NEW D, Matched(E, D), IsFiniteSet(D)
    PROVE  Cardinality(E) = Cardinality(D)
<1> DEFINE f == [d \in D |-> CHOOSE e \in E : e[2] = d]
<1>1. \A d \in D : f[d] \in E /\ f[d][2] = d
  BY DEF Matched
<1>2. f \in [D -> E] /\ \A c, d \in D : f[c] = f[d] => c = d
  BY <1>1
<1>3. \A e \in E : e[2] \in D /\ f[e[2]] = e
  BY <1>1 DEF Matched, OneToOne
<1> HIDE DEF f
<1>4. f \in Bijection(D, E)
  BY <1>2, <1>3 DEF Bijection, Injection, Surjection, IsInjective
<1>5. ExistsBijection(D, E)
  BY <1>4 DEF ExistsBijection
<1>6. QED
  BY <1>5, FS_Bijection

\* At every step of every call the tree and the value storage match: each key has
\* a value, each value belongs to one key.
THEOREM ValuesKeptMatched == Spec => []ValuesMatchKeys
<1>1. CommitShape => ValuesMatchKeys
  <2> SUFFICES ASSUME ShapeInv, ReadsCurrent PROVE ValuesMatchKeys
    BY DEF CommitShape, CommitInv
  <2>1. PICK E : TreeOf(E) /\ Matched(E, DOMAIN valueStorage)
    BY DEF ShapeInv, PairsMatch
  <2>2. TreeEntries = E
    BY <2>1, TreeHasPairs
  <2>3. IsFiniteSet(DOMAIN valueStorage)
    <3>1. DOMAIN valueStorage \subseteq 0 .. nextValueId - 1 /\ nextValueId \in Nat
      BY DEF ShapeInv, Shape, ValuesOK, CountersOK
    <3>2. IsFiniteSet(0 .. nextValueId - 1)
      BY <3>1, FS_Interval
    <3>3. QED
      BY <3>1, <3>2, FS_Subset
  <2>4. Cardinality(E) = Cardinality(DOMAIN valueStorage)
    BY <2>1, <2>3, MatchedCounts
  <2>5. {e[2] : e \in E} = DOMAIN valueStorage /\ \A e, f \in E : e[1] = f[1] => e = f
    BY <2>1 DEF Matched, OneToOne
  <2>6. QED
    BY <2>2, <2>4, <2>5 DEF ValuesMatchKeys
<1>2. QED
  BY <1>1, RootIsStored, PTL

-------------------------------------------------------------------------------
(* The committed tree between calls                                          *)

\* Its nodes are those in memory, but node 0 may stand above the root.
IsStored(g, h) ==
    /\ DOMAIN g = DOMAIN h
    /\ \A x \in DOMAIN h : /\ x # 0 => g[x] = h[x]
                           /\ Listed(g[x])
    /\ HoldsRoot(g, h[0])

LEMMA StoredRootInPlace ==
    ASSUME NEW h, NEW live, NEW height, NEW up, NEW pos, Standing(h, live, height, up, pos),
           NEW g, IsStored(g, h), SameBody(h[0], g[0])
    PROVE  Entries(g, 0) = EntriesAt(h, live)
<1>1. DOMAIN g = DOMAIN h /\ \A x \in DOMAIN h : SameBody(h[x], g[x]) /\ Listed(g[x])
  BY SameBodyOfItself DEF IsStored
<1>2. /\ live \subseteq DOMAIN h /\ Linked(h, live, height, up, pos) /\ Filled(h, live)
      /\ IsFiniteSet(DOMAIN h)
  BY DEF Standing, Linked
<1>3. \A x \in DOMAIN h : SameCore(g[x], h[x])
  BY <1>1 DEF SameBody, SameCore
<1>4. Linked(g, live, height, up, pos)
  BY <1>1, <1>2, <1>3, KeptLinked DEF IsKept
<1>5. Filled(g, live)
  BY <1>2, <1>3 DEF Filled, SameCore, IsInner
<1>6. Standing(g, live, height, up, pos)
  BY <1>1, <1>2, <1>4, <1>5 DEF Standing
<1>7. Entries(g, 0) = EntriesAt(g, live)
  BY <1>6, RowsOfRoot
<1>8. \A a \in live : Own(g[a]) = Own(h[a])
  BY <1>1, <1>2, SameOwn
<1>9. QED
  BY <1>7, <1>8 DEF EntriesAt

\* No node of the tree has the children of the root.
LEMMA RootIsApart ==
    ASSUME NEW h, NEW live, NEW height, NEW up, NEW pos, Standing(h, live, height, up, pos),
           NEW c \in live, c # 0, Kids(h[0]) > 0, SameCore(h[0], h[c])
    PROVE  FALSE
<1>1. /\ 0 \in live /\ LinkedAt(h[0], 0, live, height, up, pos)
      /\ LinkedAt(h[c], c, live, height, up, pos) /\ Hung(h, c, live, height, up, pos)
      /\ height[0] \in Nat /\ height[c] \in Nat
  BY DEF Standing, Linked
<1>2. height[c] < height[0]
  BY <1>1 DEF Hung
<1>3. ~h[0].leaf /\ ~h[c].leaf
  BY <1>1, <1>2 DEF LinkedAt, SameCore
<1>4. Kids(h[0]) \in Nat /\ Kids(h[0]) = Kids(h[c]) /\ 1 \in 1 .. Kids(h[0])
  BY <1>1 DEF LinkedAt, SameCore
<1>5. Kid(h[0], 1) = Kid(h[c], 1)
  BY <1>4 DEF SameCore
<1>6. up[Kid(h[0], 1)] = 0
  BY <1>1, <1>3, <1>4 DEF LinkedAt
<1>7. up[Kid(h[c], 1)] = c
  BY <1>1, <1>3, <1>4 DEF LinkedAt
<1>8. QED
  BY <1>5, <1>6, <1>7

LEMMA StoredRootBelow ==
    ASSUME NEW h, NEW live, NEW height, NEW up, NEW pos, Standing(h, live, height, up, pos),
           NEW g, IsStored(g, h), NEW c \in DOMAIN h \ {0},
           IsInner(g[0]), Kids(g[0]) = 1, Kid(g[0], 1) = c, ~g[0].deleted,
           SameBody(h[0], g[c]), Kids(h[0]) > 0, DOMAIN h \subseteq Int
    PROVE  Entries(g, 0) = EntriesAt(h, live)
<1>1. /\ 0 \in live /\ live \subseteq DOMAIN h /\ live \subseteq Int
      /\ height \in [Int -> Nat] /\ up \in [Int -> Int] /\ pos \in [Int -> Int]
      /\ \A a \in live : LinkedAt(h[a], a, live, height, up, pos)
      /\ \A a \in live \ {0} : Hung(h, a, live, height, up, pos)
      /\ \A a \in live : IsInner(h[a]) \/ a # 0 => Kids(h[a]) > 0
      /\ IsFiniteSet(DOMAIN h)
  BY DEF Standing, Linked, Filled
<1>2. /\ DOMAIN g = DOMAIN h /\ \A x \in DOMAIN h : Listed(g[x])
      /\ \A x \in DOMAIN h \ {0} : g[x] = h[x]
  BY DEF IsStored
<1>3. SameCore(h[0], g[c])
  BY DEF SameBody
<1>4. c \notin live
  <2> SUFFICES ASSUME c \in live PROVE FALSE
    OBVIOUS
  <2>1. g[c] = h[c] /\ c # 0
    BY <1>2
  <2>2. SameCore(h[0], h[c])
    BY <1>3, <2>1
  <2>3. QED
    BY <2>1, <2>2, RootIsApart
<1> DEFINE live2 == live \cup {c}
           height2 == [x \in Int |-> IF x = 0 THEN height[0] + 1 ELSE IF x = c THEN height[0]
                                     ELSE height[x]]
           up2 == [x \in Int |-> IF x = c THEN 0 ELSE IF up[x] = 0 THEN c ELSE up[x]]
           pos2 == [x \in Int |-> IF x = c THEN 1 ELSE pos[x]]
<1>5. c \in Int /\ c # 0 /\ 0 \in Int
  OBVIOUS
<1>6. /\ height2 \in [Int -> Nat] /\ up2 \in [Int -> Int] /\ pos2 \in [Int -> Int]
      /\ height2[0] = height[0] + 1 /\ height2[c] = height[0]
      /\ up2[c] = 0 /\ pos2[c] = 1
      /\ \A x \in live \ {0} : height2[x] = height[x] /\ pos2[x] = pos[x]
      /\ \A x \in live \ {0} : up2[x] = IF up[x] = 0 THEN c ELSE up[x]
  BY <1>1, <1>4, <1>5
<1> HIDE DEF height2, up2, pos2
<1>7. LinkedAt(g[0], 0, live2, height2, up2, pos2)
  <2>1. g[0].leaf = FALSE /\ height2[0] # 0
    BY <1>1, <1>6 DEF IsInner
  <2>2. height2[c] + 1 = height2[0] /\ c \in live2 \ {0} /\ up2[c] = 0 /\ pos2[c] = 1
    BY <1>5, <1>6
  <2>3. \A i \in 1 .. Kids(g[0]) : i = 1
    OBVIOUS
  <2>4. Kids(g[0]) \in Nat
    OBVIOUS
  <2> HIDE DEF live2
  <2>5. QED
    BY ONLY <2>1, <2>2, <2>3, <2>4, Kid(g[0], 1) = c, ~g[0].deleted DEF LinkedAt
<1>8. /\ h[0].leaf = g[c].leaf /\ Kids(h[0]) = Kids(g[c]) /\ h[0].deleted = g[c].deleted
      /\ \A i \in 1 .. Kids(g[c]) : Kid(h[0], i) = Kid(g[c], i)
  BY <1>3 DEF SameCore
<1>9. LinkedAt(h[0], 0, live, height, up, pos)
  BY <1>1
<1>10. LinkedAt(g[c], c, live2, height2, up2, pos2)
  <2>1. /\ h[0].leaf \in BOOLEAN /\ Kids(h[0]) \in Nat /\ ~h[0].deleted
        /\ h[0].leaf <=> height[0] = 0
    BY <1>9 DEF LinkedAt
  <2>2. ASSUME ~g[c].leaf, NEW i \in 1 .. Kids(g[c])
        PROVE  /\ Kid(g[c], i) \in live2 \ {0}
               /\ height2[Kid(g[c], i)] + 1 = height2[c]
               /\ up2[Kid(g[c], i)] = c /\ pos2[Kid(g[c], i)] = i
    <3>1. /\ Kid(h[0], i) \in live \ {0}
          /\ height[Kid(h[0], i)] + 1 = height[0]
          /\ up[Kid(h[0], i)] = 0 /\ pos[Kid(h[0], i)] = i
      BY <2>2, <1>8, <1>9 DEF LinkedAt
    <3>2. Kid(g[c], i) = Kid(h[0], i)
      BY <2>2, <1>8
    <3>3. QED
      BY <3>1, <3>2, <1>6
  <2>3. QED
    BY <2>1, <2>2, <1>6, <1>8 DEF LinkedAt
<1>11. ASSUME NEW a \in live \ {0} PROVE LinkedAt(g[a], a, live2, height2, up2, pos2)
  <2>1. g[a] = h[a] /\ LinkedAt(h[a], a, live, height, up, pos)
    BY <1>1, <1>2
  <2>2. ASSUME ~h[a].leaf, NEW i \in 1 .. Kids(h[a])
        PROVE  /\ Kid(h[a], i) \in live2 \ {0}
               /\ height2[Kid(h[a], i)] + 1 = height2[a]
               /\ up2[Kid(h[a], i)] = a /\ pos2[Kid(h[a], i)] = i
    <3>1. /\ Kid(h[a], i) \in live \ {0}
          /\ height[Kid(h[a], i)] + 1 = height[a]
          /\ up[Kid(h[a], i)] = a /\ pos[Kid(h[a], i)] = i
      BY <2>1, <2>2 DEF LinkedAt
    <3>2. QED
      BY <3>1, <1>6
  <2>3. height2[a] = height[a]
    BY <1>6
  <2>4. QED
    BY <2>1, <2>2, <2>3 DEF LinkedAt
<1>12. Hung(g, c, live2, height2, up2, pos2)
  <2>1. height2[c] < height2[0]
    BY <1>1, <1>6
  <2>2. g[0].leaf = FALSE /\ 0 \in live2 /\ 1 \in 1 .. Kids(g[0])
    BY <1>1 DEF IsInner
  <2>3. QED
    BY <2>1, <2>2, <1>6 DEF Hung
<1>13. ASSUME NEW a \in live \ {0} PROVE Hung(g, a, live2, height2, up2, pos2)
  <2>1. /\ up[a] \in live /\ h[up[a]].leaf = FALSE
        /\ pos[a] \in 1 .. Kids(h[up[a]]) /\ Kid(h[up[a]], pos[a]) = a
        /\ height[a] < height[0]
    BY <1>1 DEF Hung
  <2>2. height2[a] < height2[0]
    BY <2>1, <1>1, <1>6
  <2>3. CASE up[a] = 0
    BY <2>1, <2>2, <2>3, <1>6, <1>8 DEF Hung
  <2>4. CASE up[a] # 0
    <3>1. g[up[a]] = h[up[a]] /\ up2[a] = up[a] /\ pos2[a] = pos[a]
      BY <2>1, <2>4, <1>1, <1>2, <1>6
    <3>2. QED
      BY <2>1, <2>2, <3>1 DEF Hung
  <2>5. QED
    BY <2>3, <2>4
<1>14. Linked(g, live2, height2, up2, pos2)
  BY <1>1, <1>2, <1>5, <1>6, <1>7, <1>10, <1>11, <1>12, <1>13 DEF Linked
<1>15. Filled(g, live2)
  <2>1. \A a \in live \ {0} : Kids(g[a]) > 0
    BY <1>1, <1>2
  <2>2. Kids(g[0]) > 0 /\ Kids(g[c]) > 0
    BY <1>8
  <2>3. QED
    BY <2>1, <2>2 DEF Filled
<1>16. Standing(g, live2, height2, up2, pos2)
  BY <1>1, <1>2, <1>14, <1>15 DEF Standing
<1>17. Entries(g, 0) = EntriesAt(g, live2)
  BY <1>16, RowsOfRoot
<1>18. /\ \A a \in live \ {0} : Own(g[a]) = Own(h[a])
       /\ Own(g[c]) = Own(h[0]) /\ Own(g[0]) = {}
  BY <1>1, <1>2, SameOwn DEF Own, IsInner
<1>19. EntriesAt(g, live2) = EntriesAt(h, live)
  BY <1>1, <1>18 DEF EntriesAt
<1>20. QED
  BY <1>17, <1>19

\* Between calls a new BTree object that read node 0 of the storage would see the
\* keys and value ids of the tree in memory, even where node 0 is not its root.
THEOREM CommittedTreeKept == Spec => []CommittedTreeIsCurrent
<1>1. CommitShape => CommittedTreeIsCurrent
  <2> SUFFICES ASSUME ShapeInv, CommitInv, pc = "idle" PROVE StoredEntries = TreeEntries
    BY DEF CommittedTreeIsCurrent, CommitShape
  <2>1. PICK E : TreeOf(E)
    BY DEF ShapeInv, PairsMatch
  <2>2. PICK live, height, up, pos :
            Standing(Heap, live, height, up, pos) /\ E = EntriesAt(Heap, live)
    BY <2>1, HeapStands
  <2>3. DOMAIN changes = {} /\ DOMAIN nodeStorage = Ids /\ 0 \in Ids /\ Ids \subseteq Int
    <3>1. DOMAIN changes = {} /\ DOMAIN changes \cup DOMAIN nodeStorage = Ids
      BY DEF ShapeInv, Shape, StorageOK
    <3>2. nextNodeId \in Nat /\ nextNodeId >= 1
      BY DEF ShapeInv, Shape, CountersOK
    <3>3. QED
      BY <3>1, <3>2 DEF Ids
  <2>4. \A x \in Ids : Heap[x] = IF x = 0 THEN root ELSE nodeStorage[x]
    BY <2>3 DEF Heap, At
  <2>5. IsStored(nodeStorage, Heap)
    <3>1. \A x \in Ids : Listed(nodeStorage[x])
      BY <2>3 DEF ShapeInv, Shape, NodesOK, Copies, NodeOK, Listed
    <3>2. HoldsRoot(nodeStorage, Heap[0])
      BY <2>3, <2>4 DEF CommitInv, RootStored
    <3>3. QED
      BY <3>1, <3>2, <2>3, <2>4, HeapNodes DEF IsStored
  <2>6. DOMAIN Heap = DOMAIN nodeStorage /\ DOMAIN Heap \subseteq Int
    BY <2>3, HeapNodes
  <2>7. Entries(nodeStorage, 0) = EntriesAt(Heap, live)
    <3>1. CASE SameBody(Heap[0], nodeStorage[0])
      BY <3>1, <2>2, <2>5, StoredRootInPlace
    <3>2. CASE ~SameBody(Heap[0], nodeStorage[0])
      <4> DEFINE c == Kid(nodeStorage[0], 1)
      <4>1. /\ IsInner(nodeStorage[0]) /\ Kids(nodeStorage[0]) = 1 /\ c \in DOMAIN Heap \ {0}
            /\ ~nodeStorage[0].deleted
            /\ SameBody(Heap[0], nodeStorage[c]) /\ Kids(Heap[0]) > 0
        BY <3>2, <2>5, <2>6 DEF IsStored, HoldsRoot
      <4>2. QED
        BY <4>1, <2>2, <2>5, <2>6, StoredRootBelow
    <3>3. QED
      BY <3>1, <3>2
  <2>8. TreeEntries = E
    BY <2>1, TreeHasPairs DEF CommitInv
  <2>9. QED
    BY <2>2, <2>7, <2>8 DEF StoredEntries
<1>2. QED
  BY <1>1, RootIsStored, PTL

-------------------------------------------------------------------------------
(* The links of the nodes *)

\* In every copy of every node, an inner node has no neighbour, and the neighbours
\* of a leaf are leaves.  L are the ids of the leaves but the root's: whether a node
\* is a leaf never changes but for the root, whose id no link names.
(* neighbour and the neighbours of a leaf are leaves.  L are the ids of the leaves *)
(* but the root's; whether a node is a leaf never changes but for the root, whose  *)
(* id no link names.                                                               *)

Fields == {"id", "leaf", "keys", "ptrs", "next", "prev", "deleted"}

LinkedAmong(n, L) ==
    /\ DOMAIN n = Fields /\ n.leaf \in BOOLEAN
    /\ n.id \in Nat \ {0} => (n.leaf <=> n.id \in L)
    /\ n.leaf => {n.next, n.prev} \subseteq L \cup {Nil}
    /\ ~n.leaf => n.next = Nil /\ n.prev = Nil

AllLinked(f, L) == \A x \in DOMAIN f : LinkedAmong(f[x], L) /\ f[x].id = x

MemoryLinked(m, L) ==
    /\ IsMemory(m) /\ L \subseteq Nat \ {0}
    /\ AllLinked(m.changes, L) /\ AllLinked(m.buffer, L) /\ AllLinked(nodeStorage, L)

LEMMA NodeLinked ==
    ASSUME NEW m, NEW L, MemoryLinked(m, L), NEW x \in Known(m)
    PROVE  LinkedAmong(GetNode(m, x), L) /\ GetNode(m, x).id = x
BY DEF MemoryLinked, AllLinked, Known, GetNode

LEMMA BufferedLinked ==
    ASSUME NEW m, NEW L, MemoryLinked(m, L), NEW x \in Known(m)
    PROVE  MemoryLinked(Buffered(m, x), L) /\ Known(Buffered(m, x)) = Known(m)
<1> DEFINE s == [m EXCEPT !.buffer = Put(@, x, nodeStorage[x])]
<1>1. CASE x \in DOMAIN m.changes \cup DOMAIN m.buffer
  BY <1>1 DEF Buffered
<1>2. CASE x \notin DOMAIN m.changes \cup DOMAIN m.buffer
  <2>1. Buffered(m, x) = s
    BY <1>2 DEF Buffered
  <2>2. IsMemory(s) /\ s.changes = m.changes /\ s.buffer = Put(m.buffer, x, nodeStorage[x])
    BY DEF MemoryLinked, IsMemory
  <2>3. x \in DOMAIN nodeStorage
    BY <1>2 DEF Known
  <2>4. AllLinked(Put(m.buffer, x, nodeStorage[x]), L)
    BY <2>3 DEF MemoryLinked, AllLinked, Put
  <2> HIDE DEF s
  <2>5. QED
    BY <2>1, <2>2, <2>4 DEF MemoryLinked, Known
<1>3. QED
  BY <1>1, <1>2

LEMMA SaveLinked ==
    ASSUME NEW m, NEW L, MemoryLinked(m, L), NEW n, LinkedAmong(n, L)
    PROVE  MemoryLinked(SaveNode(m, n), L) /\ Known(SaveNode(m, n)) = Known(m) \cup {n.id}
<1> DEFINE s == SaveNode(m, n)
<1>1. IsMemory(s) /\ s.buffer = m.buffer /\ s.changes = Put(m.changes, n.id, n)
  BY DEF SaveNode, MemoryLinked, IsMemory
<1>2. AllLinked(Put(m.changes, n.id, n), L) /\ DOMAIN Put(m.changes, n.id, n) = DOMAIN m.changes \cup {n.id}
  BY DEF MemoryLinked, AllLinked, Put
<1> HIDE DEF s
<1>3. QED
  BY <1>1, <1>2 DEF MemoryLinked, Known, s

\* A leaf and its neighbours.
LEMMA NeighbourLinked ==
    ASSUME NEW n, NEW L, LinkedAmong(n, L), NEW x \in L, L \subseteq Nat \ {0}, n.id \in L
    PROVE  /\ LinkedAmong([n EXCEPT !.next = x], L) /\ [n EXCEPT !.next = x].id = n.id
           /\ LinkedAmong([n EXCEPT !.prev = x], L) /\ [n EXCEPT !.prev = x].id = n.id
<1>1. n.leaf /\ DOMAIN n = Fields
  BY DEF LinkedAmong
<1>2. /\ DOMAIN [n EXCEPT !.next = x] = Fields /\ DOMAIN [n EXCEPT !.prev = x] = Fields
      /\ [n EXCEPT !.next = x].id = n.id /\ [n EXCEPT !.prev = x].id = n.id
      /\ [n EXCEPT !.next = x].leaf = n.leaf /\ [n EXCEPT !.prev = x].leaf = n.leaf
      /\ [n EXCEPT !.next = x].next = x /\ [n EXCEPT !.prev = x].next = n.next
      /\ [n EXCEPT !.next = x].prev = n.prev /\ [n EXCEPT !.prev = x].prev = x
  BY <1>1 DEF Fields
<1>3. QED
  BY <1>1, <1>2 DEF LinkedAmong

LEMMA NextLinked ==
    ASSUME NEW m, NEW L, MemoryLinked(m, L), L \subseteq Known(m),
           NEW n, LinkedAmong(n, L), n.leaf, n.id \in L
    PROVE  MemoryLinked(LinkNext(m, n), L) /\ L \subseteq Known(LinkNext(m, n))
<1> DEFINE x == n.next
           b == Buffered(m, x)
           g == GetNode(m, x)
           k == [g EXCEPT !.prev = n.id]
<1>1. CASE x = Nil
  BY <1>1 DEF LinkNext
<1>2. CASE x # Nil
  <2>1. x \in L /\ L \subseteq Nat \ {0}
    BY <1>2 DEF LinkedAmong, MemoryLinked
  <2> HIDE DEF x
  <2>2. LinkedAmong(g, L) /\ g.id = x
    BY <2>1, NodeLinked
  <2> HIDE DEF g
  <2>3. LinkedAmong(k, L) /\ k.id = x
    BY <2>1, <2>2, NeighbourLinked
  <2>4. MemoryLinked(b, L) /\ Known(b) = Known(m)
    BY <2>1, BufferedLinked
  <2> HIDE DEF b, k
  <2>5. MemoryLinked(SaveNode(b, k), L) /\ Known(SaveNode(b, k)) = Known(b) \cup {k.id}
    BY <2>3, <2>4, SaveLinked
  <2>6. LinkNext(m, n) = SaveNode(b, k)
    BY <1>2 DEF LinkNext, b, k, g, x
  <2>7. QED
    BY <2>4, <2>5, <2>6
<1>3. QED
  BY <1>1, <1>2

LEMMA PrevLinked ==
    ASSUME NEW m, NEW L, MemoryLinked(m, L), L \subseteq Known(m),
           NEW n, LinkedAmong(n, L), n.leaf, n.id \in L
    PROVE  MemoryLinked(LinkPrev(m, n), L) /\ L \subseteq Known(LinkPrev(m, n))
<1> DEFINE x == n.prev
           b == Buffered(m, x)
           g == GetNode(m, x)
           k == [g EXCEPT !.next = n.id]
<1>1. CASE x = Nil
  BY <1>1 DEF LinkPrev
<1>2. CASE x # Nil
  <2>1. x \in L /\ L \subseteq Nat \ {0}
    BY <1>2 DEF LinkedAmong, MemoryLinked
  <2> HIDE DEF x
  <2>2. LinkedAmong(g, L) /\ g.id = x
    BY <2>1, NodeLinked
  <2> HIDE DEF g
  <2>3. LinkedAmong(k, L) /\ k.id = x
    BY <2>1, <2>2, NeighbourLinked
  <2>4. MemoryLinked(b, L) /\ Known(b) = Known(m)
    BY <2>1, BufferedLinked
  <2> HIDE DEF b, k
  <2>5. MemoryLinked(SaveNode(b, k), L) /\ Known(SaveNode(b, k)) = Known(b) \cup {k.id}
    BY <2>3, <2>4, SaveLinked
  <2>6. LinkPrev(m, n) = SaveNode(b, k)
    BY <1>2 DEF LinkPrev, b, k, g, x
  <2>7. QED
    BY <2>4, <2>5, <2>6
<1>3. QED
  BY <1>1, <1>2

LEMMA InsertLinked ==
    ASSUME NEW m, NEW L, MemoryLinked(m, L), L \subseteq Known(m),
           NEW n, LinkedAmong(n, L), n.leaf, n.id \in L
    PROVE  MemoryLinked(InsertIntoList(m, n), L) /\ L \subseteq Known(InsertIntoList(m, n))
<1> DEFINE s == LinkNext(m, n)
<1>1. MemoryLinked(s, L) /\ L \subseteq Known(s)
  BY NextLinked
<1> HIDE DEF s
<1>2. MemoryLinked(LinkPrev(s, n), L) /\ L \subseteq Known(LinkPrev(s, n))
  BY <1>1, PrevLinked
<1>3. QED
  BY <1>2 DEF InsertIntoList, s

\* The ids of a pair name leaves, or none.
LEMMA PairLinked ==
    ASSUME NEW m, NEW L, MemoryLinked(m, L), NEW pair,
           LinkedAmong(pair[1], L), LinkedAmong(pair[2], L),
           pair[1].leaf = pair[2].leaf, L \subseteq Known(m) \cup {pair[1].id, pair[2].id},
           pair[1].id \in Nat \ {0}, pair[2].id \in Nat \ {0}
    PROVE  MemoryLinked(SavePair(m, pair), L)
<1> DEFINE s1 == SaveNode(m, pair[1])
           s2 == SaveNode(s1, pair[2])
<1>1. MemoryLinked(s1, L) /\ Known(s1) = Known(m) \cup {pair[1].id}
  BY SaveLinked
<1> HIDE DEF s1
<1>2. MemoryLinked(s2, L) /\ Known(s2) = Known(s1) \cup {pair[2].id}
  BY <1>1, SaveLinked
<1> HIDE DEF s2
<1>3. L \subseteq Known(s2)
  BY <1>1, <1>2
<1>4. CASE pair[1].leaf
  <2>1. pair[1].id \in L /\ pair[2].id \in L /\ pair[2].leaf
    BY <1>4 DEF LinkedAmong
  <2> DEFINE s3 == InsertIntoList(s2, pair[1])
  <2>2. MemoryLinked(s3, L) /\ L \subseteq Known(s3)
    BY <1>2, <1>3, <1>4, <2>1, InsertLinked
  <2> HIDE DEF s3
  <2>3. MemoryLinked(InsertIntoList(s3, pair[2]), L)
    BY <2>1, <2>2, InsertLinked
  <2>4. QED
    BY <1>4, <2>3 DEF SavePair, s1, s2, s3
<1>5. CASE ~pair[1].leaf
  BY <1>2, <1>5 DEF SavePair, s1, s2
<1>6. QED
  BY <1>4, <1>5

\* The halves of a node.
PairAmong(pair, leaf, idL, idR, L) ==
    /\ LinkedAmong(pair[1], L) /\ LinkedAmong(pair[2], L)
    /\ pair[1].id = idL /\ pair[2].id = idR
    /\ pair[1].leaf = leaf /\ pair[2].leaf = leaf

LEMMA HalvesLinked ==
    ASSUME NEW n, NEW L, LinkedAmong(n, L), L \subseteq Nat \ {0},
           NEW idL \in Nat \ {0}, NEW idR \in Nat \ {0},
           n.leaf <=> idL \in L, n.leaf <=> idR \in L
    PROVE  PairAmong(Split(n, idL, idR), n.leaf, idL, idR, L)
<1> DEFINE pair == Split(n, idL, idR)
<1> SUFFICES PairAmong(pair, n.leaf, idL, idR, L)
  OBVIOUS
<1>1. n.leaf \in BOOLEAN
  BY DEF LinkedAmong
<1>2. CASE n.leaf
  <2>1. pair = SplitLeaf(n, idL, idR)
    BY <1>2 DEF Split
  <2>2. /\ pair[1] = Leaf(idL, LowerHalf(n, n.keys), LowerHalf(n, n.ptrs), idR, n.prev)
        /\ pair[2] = Leaf(idR, UpperHalf(n, n.keys), UpperHalf(n, n.ptrs), n.next, idL)
    BY <2>1 DEF SplitLeaf
  <2>3. /\ DOMAIN pair[1] = Fields /\ DOMAIN pair[2] = Fields
        /\ pair[1].id = idL /\ pair[1].leaf = TRUE /\ pair[1].next = idR /\ pair[1].prev = n.prev
        /\ pair[2].id = idR /\ pair[2].leaf = TRUE /\ pair[2].next = n.next /\ pair[2].prev = idL
    BY <2>2 DEF Leaf, Fields
  <2>4. QED
    BY <1>1, <1>2, <2>3 DEF LinkedAmong, PairAmong
<1>3. CASE ~n.leaf
  <2>1. pair = SplitInner(n, idL, idR)
    BY <1>3 DEF Split
  <2>2. /\ pair[1] = Inner(idL, LowerHalf(n, n.keys), LowerHalf(n, n.ptrs))
        /\ pair[2] = Inner(idR, UpperHalf(n, n.keys), UpperHalf(n, n.ptrs))
    BY <2>1 DEF SplitInner
  <2>3. /\ DOMAIN pair[1] = Fields /\ DOMAIN pair[2] = Fields
        /\ pair[1].id = idL /\ pair[1].leaf = FALSE /\ pair[1].next = Nil /\ pair[1].prev = Nil
        /\ pair[2].id = idR /\ pair[2].leaf = FALSE /\ pair[2].next = Nil /\ pair[2].prev = Nil
    BY <2>2 DEF Inner, Fields
  <2>4. QED
    BY <1>1, <1>3, <2>3 DEF LinkedAmong, PairAmong
<1>4. QED
  BY <1>1, <1>2, <1>3

\* What leaves id, kind and links of a node as they are.
Alike(m, n) ==
    /\ DOMAIN m = DOMAIN n /\ m.id = n.id /\ m.leaf = n.leaf
    /\ m.next = n.next /\ m.prev = n.prev

LEMMA AlikeLinked ==
    ASSUME NEW m, NEW n, Alike(m, n), NEW L, LinkedAmong(n, L)
    PROVE  LinkedAmong(m, L)
BY DEF Alike, LinkedAmong

LEMMA ChangesKeepLinks ==
    ASSUME NEW n, DOMAIN n = Fields, NEW i, NEW k, NEW p
    PROVE  /\ Alike(AddKey(n, i, k, p), n) /\ Alike(DeleteKey(n, i), n)
           /\ Alike(UpdateKey(n, i, k), n) /\ Alike(SetChild(n, i, p), n)
           /\ Alike(Stored(n), n) /\ Alike([n EXCEPT !.deleted = TRUE], n)
BY DEF Alike, AddKey, DeleteKey, UpdateKey, SetChild, Stored, Fields

\* More leaves.
LEMMA MoreLeaves ==
    ASSUME NEW m, NEW L, MemoryLinked(m, L), NEW S, S \subseteq Nat \ {0},
           S \cap (Known(m) \cup DOMAIN m.buffer) = {}
    PROVE  MemoryLinked(m, L \cup S)
BY DEF MemoryLinked, AllLinked, LinkedAmong, Known

-------------------------------------------------------------------------------
\* normalizeNodeOverflow: the new id is that of a leaf when a leaf has split.
LEMMA OverflowLinked ==
    ASSUME NEW m, NEW L, MemoryLinked(m, L), L \subseteq Known(m),
           nextNodeId \in Nat \ {0}, nextNodeId \notin Known(m) \cup DOMAIN m.buffer,
           NEW parent, LinkedAmong(parent, L), parent.id # nextNodeId,
           NEW i, NEW c, c = parent.ptrs[i], c \in Known(m), c \in Nat \ {0}
    PROVE  \E S \in SUBSET {nextNodeId} :
              MemoryLinked(NormalizeNodeOverflow(m, parent, i).memory, L \cup S)
<1> DEFINE child == GetNode(m, c)
           pair == Split(child, nextNodeId, child.id)
           grown == AddKey(parent, i, GetMax(pair[1]), pair[1].id)
           S == IF child.leaf THEN {nextNodeId} ELSE {}
           M == L \cup S
<1>1. LinkedAmong(child, L) /\ child.id = c
  BY NodeLinked
<1> HIDE DEF child
<1>2. S \in SUBSET {nextNodeId} /\ L \subseteq Nat \ {0}
  BY DEF MemoryLinked
<1>3. M \subseteq Nat \ {0} /\ L \subseteq M
  BY <1>2
<1>4. MemoryLinked(m, M)
  BY <1>2, MoreLeaves
<1>5. LinkedAmong(child, M) /\ LinkedAmong(parent, M)
  <2>1. c # nextNodeId
    OBVIOUS
  <2>2. QED
    BY <1>1, <2>1 DEF LinkedAmong
<1>6. child.leaf <=> nextNodeId \in M
  BY <1>1, <1>2 DEF MemoryLinked
<1>7. child.leaf <=> child.id \in M
  BY <1>1, <1>5 DEF LinkedAmong
<1>12. M \subseteq Known(m) \cup {nextNodeId, c}
  BY <1>2
<1> HIDE DEF S, M
<1>8. PairAmong(pair, child.leaf, nextNodeId, c, M)
  BY <1>1, <1>3, <1>5, <1>6, <1>7, HalvesLinked
<1> HIDE DEF pair
<1>9. MemoryLinked(SavePair(m, pair), M)
  BY <1>4, <1>8, <1>12, PairLinked DEF PairAmong
<1>10. LinkedAmong(grown, M)
  <2>1. DOMAIN parent = Fields
    BY <1>5 DEF LinkedAmong
  <2>2. Alike(grown, parent)
    BY <2>1, ChangesKeepLinks
  <2>3. QED
    BY <1>5, <2>2, AlikeLinked
<1> HIDE DEF grown
<1>11. MemoryLinked(SaveNode(SavePair(m, pair), grown), M)
  BY <1>9, <1>10, SaveLinked
<1>13. NormalizeNodeOverflow(m, parent, i).memory = SaveNode(SavePair(m, pair), grown)
  BY DEF NormalizeNodeOverflow, grown, pair, child
<1>14. QED
  BY <1>2, <1>11, <1>13 DEF M

\* The two in one keep the place of the left one and the neighbour of the right one.
LEMMA JoinedLinked ==
    ASSUME NEW l, NEW r, NEW L, LinkedAmong(l, L), LinkedAmong(r, L), l.leaf = r.leaf
    PROVE  LinkedAmong(Join(l, r), L) /\ Join(l, r).id = l.id /\ Join(l, r).leaf = l.leaf
<1> DEFINE j == JoinInner(l, r)
<1>1. DOMAIN l = Fields /\ l.leaf \in BOOLEAN
  BY DEF LinkedAmong
<1>2. Alike(j, l)
  BY <1>1 DEF JoinInner, Alike, Fields
<1> HIDE DEF j
<1>3. CASE ~l.leaf
  <2>1. Join(l, r) = j
    BY <1>3 DEF Join, j
  <2>2. QED
    BY <1>2, <2>1, AlikeLinked DEF Alike
<1>4. CASE l.leaf
  <2> DEFINE k == [j EXCEPT !.next = r.next]
  <2>1. Join(l, r) = k
    BY <1>4 DEF Join, JoinLeaf, j
  <2>2. /\ DOMAIN k = Fields /\ k.id = l.id /\ k.leaf = l.leaf
        /\ k.next = r.next /\ k.prev = l.prev
    BY <1>1, <1>2 DEF Alike, Fields
  <2> HIDE DEF k
  <2>3. LinkedAmong(k, L)
    BY <2>2, <1>4 DEF LinkedAmong
  <2>4. QED
    BY <2>1, <2>2, <2>3
<1>5. QED
  BY <1>1, <1>3, <1>4

\* normalizeNodeShortage: no id changes its kind.
ShortPair(m, L, parent, i) ==
    LET s == IF i = 1 THEN 2 ELSE i
        a == parent.ptrs[s - 1]
        b == parent.ptrs[s]
    IN  /\ MemoryLinked(m, L) /\ L \subseteq Known(m) /\ LinkedAmong(parent, L)
        /\ a \in Known(m) /\ a \in Nat \ {0} /\ b \in Known(m) /\ b \in Nat \ {0}
        /\ GetNode(m, a).leaf = GetNode(m, b).leaf

LEMMA ShortageLinked ==
    ASSUME NEW m, NEW L, NEW parent, NEW i, ShortPair(m, L, parent, i)
    PROVE  MemoryLinked(NormalizeNodeShortage(m, parent, i).memory, L)
<1> DEFINE s == IF i = 1 THEN 2 ELSE i
           a == parent.ptrs[s - 1]
           b == parent.ptrs[s]
<1>0. /\ MemoryLinked(m, L) /\ L \subseteq Known(m) /\ LinkedAmong(parent, L)
      /\ a \in Known(m) /\ a \in Nat \ {0} /\ b \in Known(m) /\ b \in Nat \ {0}
      /\ GetNode(m, a).leaf = GetNode(m, b).leaf
  BY DEF ShortPair
<1> DEFINE right == GetNode(m, b)
           left == Join(GetNode(m, a), right)
           m1 == Buffered(Buffered(m, a), b)
           pair == Split(left, left.id, right.id)
           balanced == UpdateKey(parent, s - 1, GetMax(pair[1]))
           shrunk == DeleteKey(SetChild(parent, s, left.id), s - 1)
           saved == SaveNode(SaveNode(m1, left), right)
           linked == IF left.leaf THEN InsertIntoList(saved, left) ELSE saved
<1>1. LinkedAmong(GetNode(m, a), L) /\ GetNode(m, a).id = a
  BY <1>0, NodeLinked
<1>2. LinkedAmong(right, L) /\ right.id = b /\ right.leaf \in BOOLEAN
  BY <1>0, NodeLinked DEF LinkedAmong
<1>3. LinkedAmong(left, L) /\ left.id = a /\ left.leaf = right.leaf
  BY <1>0, <1>1, <1>2, JoinedLinked
<1>4. MemoryLinked(m1, L) /\ Known(m1) = Known(m)
  <2> DEFINE m0 == Buffered(m, a)
  <2>1. MemoryLinked(m0, L) /\ Known(m0) = Known(m)
    BY <1>0, BufferedLinked
  <2> HIDE DEF m0
  <2>2. MemoryLinked(Buffered(m0, b), L) /\ Known(Buffered(m0, b)) = Known(m0)
    BY <1>0, <2>1, BufferedLinked
  <2>3. QED
    BY <2>1, <2>2 DEF m0
<1>5. L \subseteq Nat \ {0} /\ DOMAIN parent = Fields
  BY <1>0 DEF MemoryLinked, LinkedAmong
<1>6. left.leaf <=> a \in L
  BY <1>0, <1>3 DEF LinkedAmong
<1>7. left.leaf <=> b \in L
  BY <1>0, <1>2, <1>3 DEF LinkedAmong
<1>8. NormalizeNodeShortage(m, parent, i).memory
        = IF NeedsTwo(left) THEN SaveNode(SavePair(m1, pair), balanced)
          ELSE SaveNode(DelNode(linked, right), shrunk)
  BY DEF NormalizeNodeShortage
<1> HIDE DEF left, right, m1
<1> HIDE DEF a, b, s
<1>9. MemoryLinked(SaveNode(SavePair(m1, pair), balanced), L)
  <2>1. PairAmong(pair, left.leaf, a, b, L)
    <3>1. pair = Split(left, a, b)
      BY <1>2, <1>3
    <3> HIDE DEF pair
    <3>2. LinkedAmong(left, L) /\ a \in Nat \ {0} /\ b \in Nat \ {0} /\ L \subseteq Nat \ {0}
      BY <1>0, <1>3, <1>5
    <3>3. QED
      BY ONLY <3>1, <3>2, <1>6, <1>7, HalvesLinked
  <2> HIDE DEF pair
  <2>2. MemoryLinked(SavePair(m1, pair), L)
    BY <1>0, <1>4, <2>1, PairLinked DEF PairAmong
  <2>3. Alike(balanced, parent)
    BY <1>0, <1>5, ChangesKeepLinks
  <2>4. LinkedAmong(balanced, L)
    BY <1>0, <2>3, AlikeLinked
  <2> HIDE DEF balanced
  <2>5. QED
    BY <2>2, <2>4, SaveLinked
<1>10. MemoryLinked(SaveNode(DelNode(linked, right), shrunk), L)
  <2> DEFINE s1 == SaveNode(m1, left)
  <2>1. MemoryLinked(s1, L) /\ Known(s1) = Known(m1) \cup {left.id}
    BY <1>3, <1>4, SaveLinked
  <2> HIDE DEF s1
  <2>2. MemoryLinked(SaveNode(s1, right), L) /\ Known(SaveNode(s1, right)) = Known(s1) \cup {right.id}
    BY <1>2, <2>1, SaveLinked
  <2>3. MemoryLinked(saved, L) /\ L \subseteq Known(saved)
    BY <1>0, <1>4, <2>1, <2>2 DEF s1
  <2> HIDE DEF saved
  <2>4. MemoryLinked(linked, L)
    BY <1>3, <1>6, <2>3, InsertLinked
  <2> HIDE DEF linked
  <2> DEFINE dead == [right EXCEPT !.deleted = TRUE]
  <2>5. Alike(dead, right)
    <3>1. DOMAIN right = Fields
      BY <1>2 DEF LinkedAmong
    <3>2. QED
      BY <3>1, ChangesKeepLinks
  <2>6. LinkedAmong(dead, L)
    BY <1>2, <2>5, AlikeLinked
  <2> HIDE DEF dead
  <2>7. MemoryLinked(DelNode(linked, right), L)
    BY <2>4, <2>6, SaveLinked DEF DelNode, dead
  <2> DEFINE p1 == SetChild(parent, s, left.id)
  <2>8. Alike(p1, parent)
    BY <1>0, <1>5, ChangesKeepLinks
  <2>9. LinkedAmong(p1, L) /\ DOMAIN p1 = Fields
    BY <1>0, <1>5, <2>8, AlikeLinked DEF Alike
  <2> HIDE DEF p1
  <2>10. Alike(DeleteKey(p1, s - 1), p1)
    BY <2>9, ChangesKeepLinks
  <2>11. LinkedAmong(shrunk, L)
    BY <2>9, <2>10, AlikeLinked DEF p1
  <2> HIDE DEF shrunk
  <2>12. QED
    BY <2>7, <2>11, SaveLinked
<1>11. QED
  BY <1>8, <1>9, <1>10

-------------------------------------------------------------------------------
LinksFor(L) ==
    /\ L \subseteq Ids /\ MemoryLinked(Memory, L)
    /\ LinkedAmong(root, L) /\ LinkedAmong(node, L)
    /\ \A i \in 1 .. Len(path) : LinkedAmong(path[i].node, L)

LinksInv == \E L : LinksFor(L)

LEMMA KnownLinks ==
    ASSUME ShapeInv, NEW L, LinksFor(L)
    PROVE  /\ Known(Memory) = Ids /\ L \subseteq Known(Memory)
           /\ DOMAIN buffer \subseteq Ids
           /\ Memory.changes = changes /\ Memory.buffer = buffer
<1>1. Shape
  BY DEF ShapeInv
<1>2. DOMAIN changes \cup DOMAIN nodeStorage = Ids
  <2>1. StorageOK /\ Copies(changes, nextNodeId, nextValueId)
    BY <1>1 DEF Shape, NodesOK
  <2>2. DOMAIN changes \subseteq Ids
    BY <2>1 DEF Copies, NodeOK, Ids
  <2>3. CASE pc = "commit"
    BY <2>1, <2>2, <2>3 DEF StorageOK, CommitOK
  <2>4. CASE pc # "commit"
    BY <2>1, <2>4 DEF StorageOK
  <2>5. QED
    BY <2>3, <2>4
<1>3. DOMAIN buffer \subseteq Ids
  BY <1>1 DEF Shape, NodesOK, Copies, NodeOK, Ids
<1>4. QED
  BY <1>2, <1>3 DEF Known, Memory, LinksFor

\* A step of a call that writes nothing to the node storage: m is what it
\* remembers, S are the new ids that are those of leaves.
KeepsLinks(m, L, S) ==
    /\ Remember(m) /\ nodeStorage' = nodeStorage
    /\ S \subseteq Ids' \ Ids /\ nextNodeId' >= nextNodeId /\ nextNodeId' \in Nat
    /\ MemoryLinked(m, L \cup S)
    /\ root' = root \/ LinkedAmong(root', L \cup S)
    /\ node' = node \/ node' = root \/ LinkedAmong(node', L \cup S)
    /\ \A i \in 1 .. Len(path') :
            \/ i \in 1 .. Len(path) /\ path'[i] = path[i]
            \/ path'[i].node = node

LEMMA LinksStep ==
    ASSUME ShapeInv, NEW L, LinksFor(L), NEW m, NEW S, KeepsLinks(m, L, S)
    PROVE  LinksInv'
<1> DEFINE M == L \cup S
<1>1. Shape /\ nextNodeId \in Nat /\ nextNodeId >= 1
  BY DEF ShapeInv, Shape, CountersOK
<1>2. /\ \A x : x.id \in Ids \cup {Nil} /\ LinkedAmong(x, L) => LinkedAmong(x, M)
      /\ M \subseteq Ids'
  <2>1. Ids \subseteq Ids' /\ L \subseteq Ids
    <3>1. nextNodeId' \in Nat /\ nextNodeId' >= nextNodeId /\ L \subseteq Ids
      BY DEF LinksFor, KeepsLinks
    <3>2. Ids' = 0 .. nextNodeId' - 1 /\ Ids = 0 .. nextNodeId - 1
      BY DEF Ids
    <3>3. \A a, c \in Nat : c >= a => 0 .. a - 1 \subseteq 0 .. c - 1
      OBVIOUS
    <3>4. 0 .. nextNodeId - 1 \subseteq 0 .. nextNodeId' - 1
      BY <1>1, <3>1, <3>3
    <3>5. QED
      BY ONLY <3>1, <3>2, <3>4
  <2>2. ASSUME NEW x, x.id \in Ids \cup {Nil}, LinkedAmong(x, L)
        PROVE  LinkedAmong(x, M)
    <3>1. x.id \in L <=> x.id \in M
      <4>1. x.id \in S => x.id \in Ids' \ Ids
        BY DEF KeepsLinks
      <4>2. x.id \in S => x.id \notin Ids \cup {Nil}
        BY <4>1 DEF Ids, Nil
      <4>3. QED
        BY <2>2, <4>2
    <3> HIDE DEF M
    <3>2. L \subseteq M
      BY DEF M
    <3>3. QED
      BY <2>2, <3>1, <3>2 DEF LinkedAmong
  <2>3. QED
    BY <2>1, <2>2 DEF KeepsLinks
<1>3. root.id \in Ids /\ node.id \in Ids \cup {Nil} /\ \A i \in 1 .. Len(path) : path[i].node.id \in Ids
  BY <1>1 DEF Shape, NodesOK, FramesOK, NodeOK, Ids, NoNode, Leaf
<1>4. LinkedAmong(root, M) /\ LinkedAmong(node, M) /\ \A i \in 1 .. Len(path) : LinkedAmong(path[i].node, M)
  BY <1>2, <1>3 DEF LinksFor
<1> HIDE DEF M
<1>5. LinkedAmong(root', M) /\ LinkedAmong(node', M)
  BY <1>4 DEF M, KeepsLinks
<1>6. \A i \in 1 .. Len(path') : LinkedAmong(path'[i].node, M)
  BY <1>4 DEF KeepsLinks
<1>7. (Memory)' = m /\ MemoryLinked(m, M)
  BY DEF Memory, Remember, MemoryLinked, IsMemory, M, KeepsLinks
<1>8. MemoryLinked(Memory, M)'
  BY <1>7 DEF MemoryLinked, AllLinked, KeepsLinks
<1>9. LinksFor(M)'
  BY <1>2, <1>5, <1>6, <1>8 DEF LinksFor
<1>10. QED
  BY <1>9 DEF LinksInv

\* What most steps start from.
LEMMA LinksNow ==
    ASSUME ShapeInv, NEW L, LinksFor(L)
    PROVE  /\ nextNodeId \in Nat /\ nextNodeId >= 1 /\ L \cup {} = L
           /\ MemoryLinked(Memory, L \cup {}) /\ Known(Memory) = 0 .. nextNodeId - 1
           /\ LinkedAmong(NoNode, L)
           /\ \A x \in 0 .. nextNodeId - 1 : LinkedAmong(GetNode(Memory, x), L \cup {})
<1>1. nextNodeId \in Nat /\ nextNodeId >= 1 /\ MemoryLinked(Memory, L)
  BY DEF ShapeInv, Shape, CountersOK, LinksFor
<1>2. Known(Memory) = 0 .. nextNodeId - 1
  BY KnownLinks DEF Ids
<1>3. \A x \in 0 .. nextNodeId - 1 : LinkedAmong(GetNode(Memory, x), L)
  BY <1>1, <1>2, NodeLinked
<1>4. LinkedAmong(NoNode, L)
  <2>1. /\ DOMAIN NoNode = Fields /\ NoNode.id = -1 /\ NoNode.leaf = TRUE
        /\ NoNode.next = Nil /\ NoNode.prev = Nil
    BY DEF NoNode, Leaf, Fields, Nil
  <2>2. -1 \notin Nat
    OBVIOUS
  <2>3. QED
    BY <2>1, <2>2 DEF LinkedAmong
<1>5. L \cup {} = L
  OBVIOUS
<1>6. QED
  BY <1>1, <1>2, <1>3, <1>4, <1>5

\* A call ends, or starts, or reads another node.
LEMMA NodeLinks ==
    ASSUME ShapeInv, NEW L, LinksFor(L),
           UNCHANGED <<changes, buffer, nodeStorage, root, nextNodeId>>,
           path' = path \/ path' = <<>>,
           \/ node' \in {NoNode, node, root}
           \/ \E x \in 0 .. nextNodeId - 1 : node' = GetNode(Memory, x)
    PROVE  LinksInv'
<1>1. /\ nextNodeId \in Nat /\ nextNodeId >= 1
      /\ MemoryLinked(Memory, L \cup {}) /\ LinkedAmong(NoNode, L \cup {})
      /\ \A x \in 0 .. nextNodeId - 1 : LinkedAmong(GetNode(Memory, x), L \cup {})
  BY LinksNow
<1>2. node' = node \/ node' = root \/ LinkedAmong(node', L \cup {})
  BY <1>1
<1>3. Remember(Memory)
  BY DEF Remember, Memory
<1>4. \A i \in 1 .. Len(path') : i \in 1 .. Len(path) /\ path'[i] = path[i]
  BY DEF ShapeInv
<1>5. {} \subseteq Ids' \ Ids
  OBVIOUS
<1>6. QED
  <2>1. KeepsLinks(Memory, L, {})
    BY <1>1, <1>2, <1>3, <1>4, <1>5 DEF KeepsLinks
  <2>2. QED
    BY <2>1, LinksStep

LEMMA DescendLinks ==
    ASSUME ShapeInv, NEW L, LinksFor(L), DescendSet \/ DescendDel
    PROVE  LinksInv'
<1>1. PICK E : TreeOf(E)
  BY DEF ShapeInv, PairsMatch
<1>2. PICK index : IsWay(node, call.key, index) /\ Enter(index)
  BY <1>1, DescendWay
<1>3. /\ pc = "down" /\ ~node.leaf
      /\ nodeStorage' = nodeStorage /\ root' = root /\ nextNodeId' = nextNodeId
  BY <1>2 DEF DescendSet, DescendDel, Enter, storages, memory
<1> DEFINE id == node.ptrs[index]
           b == Buffered(Memory, id)
<1>4. id \in 1 .. nextNodeId - 1
  <2>1. NodeOK(node, nextNodeId, nextValueId)
    BY <1>3 DEF ShapeInv, Shape, NodesOK
  <2>2. index \in 1 .. Kids(node)
    BY <1>2 DEF IsWay
  <2>3. Kid(node, index) \in Handed(node.leaf, nextNodeId, nextValueId)
    BY <2>1, <2>2 DEF NodeOK
  <2>4. QED
    BY <1>3, <2>3 DEF Handed, Kid
<1> HIDE DEF id
<1>5. /\ nextNodeId \in Nat /\ nextNodeId >= 1
      /\ MemoryLinked(Memory, L) /\ Known(Memory) = 0 .. nextNodeId - 1
      /\ \A x \in 0 .. nextNodeId - 1 : LinkedAmong(GetNode(Memory, x), L \cup {})
  BY LinksNow
<1>6. id \in 0 .. nextNodeId - 1 /\ id \in Known(Memory)
  BY <1>4, <1>5
<1>7. MemoryLinked(b, L \cup {})
  BY <1>5, <1>6, BufferedLinked
<1>8. LinkedAmong(node', L \cup {}) /\ Remember(b) /\ path' = Append(path, [node |-> node, index |-> index])
  BY <1>2, <1>5, <1>6 DEF Enter, id
<1> HIDE DEF b
<1>9. \A i \in 1 .. Len(path') :
          \/ i \in 1 .. Len(path) /\ path'[i] = path[i]
          \/ path'[i].node = node
  <2>1. path \in Seq(Frames)
    BY <1>3, RunningMemory DEF Running
  <2>2. \A u \in Seq(Frames) : \A e : \A i \in 1 .. Len(Append(u, e)) :
            \/ i \in 1 .. Len(u) /\ Append(u, e)[i] = u[i]
            \/ Append(u, e)[i] = e
    OBVIOUS
  <2> DEFINE e == [node |-> node, index |-> index]
  <2>3. e.node = node
    OBVIOUS
  <2>4. path' = Append(path, e)
    BY <1>8
  <2> HIDE DEF e
  <2>5. QED
    BY <2>1, <2>2, <2>3, <2>4
<1>10. {} \subseteq Ids' \ Ids /\ nextNodeId' >= nextNodeId /\ nextNodeId' \in Nat
  BY <1>3, <1>5
<1>11. KeepsLinks(b, L, {})
  BY <1>3, <1>7, <1>8, <1>9, <1>10 DEF KeepsLinks
<1>12. QED
  BY <1>11, LinksStep

\* The leaf cases of set and del save the node at work, whose links stay.
LEMMA LeafLinks ==
    ASSUME ShapeInv, NEW L, LinksFor(L), SetLeafAdd \/ SetLeafReplace \/ DelLeaf
    PROVE  LinksInv'
<1>1. /\ nextNodeId \in Nat /\ nextNodeId >= 1 /\ MemoryLinked(Memory, L)
  BY LinksNow
<1>2. DOMAIN node = Fields /\ LinkedAmong(node, L)
  BY DEF LinksFor, LinkedAmong
<1>3. PICK n : Remember(SaveNode(Memory, n)) /\ Alike(n, node)
  <2>1. CASE SetLeafAdd
    BY <1>2, <2>1, ChangesKeepLinks DEF SetLeafAdd
  <2>2. CASE SetLeafReplace
    BY <1>2, <2>2 DEF SetLeafReplace, Alike
  <2>3. CASE DelLeaf
    BY <1>2, <2>3, ChangesKeepLinks DEF DelLeaf
  <2>4. QED
    BY <2>1, <2>2, <2>3
<1>4. LinkedAmong(n, L)
  BY <1>2, <1>3, AlikeLinked
<1>5. MemoryLinked(SaveNode(Memory, n), L \cup {})
  BY <1>1, <1>4, SaveLinked
<1>6. UNCHANGED <<nodeStorage, root, nextNodeId, node, path>>
  BY DEF SetLeafAdd, SetLeafReplace, DelLeaf, memory
<1>7. {} \subseteq Ids' \ Ids /\ nextNodeId' >= nextNodeId /\ nextNodeId' \in Nat
  BY <1>1, <1>6
<1> DEFINE m == SaveNode(Memory, n)
<1>8. Remember(m) /\ MemoryLinked(m, L \cup {})
  BY <1>3, <1>5
<1> HIDE DEF m
<1>9. \A i \in 1 .. Len(path') : i \in 1 .. Len(path) /\ path'[i] = path[i]
  BY <1>6
<1>10. KeepsLinks(m, L, {})
  BY <1>6, <1>7, <1>8, <1>9 DEF KeepsLinks
<1>11. QED
  BY <1>10, LinksStep

\* On the way up the caller's frame goes.
LEMMA FrontOfPath ==
    ASSUME ShapeInv, pc = "up", path # <<>>, path' = Front(path)
    PROVE  /\ \A i \in 1 .. Len(path') : i \in 1 .. Len(path) /\ path'[i] = path[i]
           /\ Len(path) \in 1 .. Len(path)
<1>1. path \in Seq(Frames)
  BY RunningMemory DEF Running
<1>2. \A u \in Seq(Frames) : u # <<>> =>
          /\ \A i \in 1 .. Len(Front(u)) : i \in 1 .. Len(u) /\ Front(u)[i] = u[i]
          /\ Len(u) \in 1 .. Len(u)
  BY DEF Front
<1>3. QED
  BY <1>1, <1>2

LEMMA AscendLinks ==
    ASSUME ShapeInv, NEW L, LinksFor(L), AscendPlain \/ SetOverflow \/ DelShortage
    PROVE  LinksInv'
<1> DEFINE m == AfterRead
           p == path[Len(path)].node
           i == Frame.index
<1>1. pc = "up" /\ path # <<>>
  BY DEF AscendPlain, SetOverflow, DelShortage
<1>2. PICK parent, s : Ascend(parent, s) /\ nextNodeId' \in {nextNodeId, nextNodeId + 1}
  BY DEF AscendPlain, SetOverflow, DelShortage
<1>3. UNCHANGED <<nodeStorage, root, node>> /\ path' = Front(path)
  BY <1>2 DEF Ascend, storages
<1>4. /\ \A j \in 1 .. Len(path') : j \in 1 .. Len(path) /\ path'[j] = path[j]
      /\ Len(path) \in 1 .. Len(path)
  BY <1>1, <1>3, FrontOfPath
<1>5. /\ nextNodeId \in Nat /\ nextNodeId >= 1 /\ MemoryLinked(Memory, L) /\ L \subseteq Ids
      /\ Known(Memory) = 0 .. nextNodeId - 1 /\ DOMAIN buffer \subseteq Ids
  BY LinksNow, KnownLinks DEF LinksFor
<1>6. Caller(m)
  BY <1>1, CallerProperties
<1>7. ParentIn(Parent, m, HeapOf(m, nextNodeId), path, i, Cur(path), nextNodeId, nextValueId)
  <2>1. ParentIn(Parent, m, HeapOf(m, nextNodeId), path, path[Len(path)].index, Cur(path), nextNodeId, nextValueId)
    BY <1>1, <1>6, ParentProperties DEF Caller
  <2>2. Frame.index = path[Len(path)].index
    BY <1>6 DEF Caller
  <2>3. QED
    BY <2>1, <2>2
<1>8. ChildId \in 1 .. nextNodeId - 1 /\ ChildId = Parent.ptrs[i]
  BY <1>7 DEF ParentIn, ChildId, Kid
<1>9. MemoryLinked(m, L) /\ Known(m) = 0 .. nextNodeId - 1
  <2>1. ChildId \in Known(Memory)
    BY <1>5, <1>8
  <2>2. QED
    BY <1>5, <2>1, BufferedLinked DEF AfterRead
<1>10. LinkedAmong(Parent, L) /\ DOMAIN Parent = Fields /\ Parent.id \in 0 .. nextNodeId - 1
  <2>1. LinkedAmong(p, L) /\ Frame.node = p
    BY <1>4 DEF LinksFor, Frame, Last
  <2>2. Alike(Parent, p)
    BY <2>1, ChangesKeepLinks DEF Parent, LinkedAmong
  <2>3. LinkedAmong(Parent, L)
    BY <2>1, <2>2, AlikeLinked
  <2>4. QED
    BY <2>3, <1>6 DEF LinkedAmong, Caller
<1> HIDE DEF i, p
<1>11. ASSUME NEW r, NEW S, Remember(r), S \subseteq Ids' \ Ids, MemoryLinked(r, L \cup S),
              nextNodeId' \in Nat, nextNodeId' >= nextNodeId
       PROVE  LinksInv'
  <2>1. KeepsLinks(r, L, S)
    BY <1>3, <1>4, <1>11 DEF KeepsLinks
  <2>2. QED
    BY <2>1, LinksStep
<1>12. CASE AscendPlain
  <2> DEFINE r == SaveNode(m, Parent)
  <2>1. Remember(r) /\ nextNodeId' = nextNodeId
    BY <1>12 DEF AscendPlain, Ascend
  <2>2. MemoryLinked(r, L \cup {})
    BY <1>9, <1>10, SaveLinked
  <2> HIDE DEF r
  <2>3. {} \subseteq Ids' \ Ids /\ nextNodeId' \in Nat /\ nextNodeId' >= nextNodeId
    BY <1>5, <2>1
  <2>4. QED
    BY <2>1, <2>2, <2>3, <1>11
<1>13. CASE SetOverflow
  <2> DEFINE r == NormalizeNodeOverflow(m, Parent, i).memory
  <2>1. Remember(r) /\ nextNodeId' = nextNodeId + 1
    BY <1>13 DEF SetOverflow, Ascend, i
  <2>2. DOMAIN m.buffer \subseteq 0 .. nextNodeId - 1
    BY <1>6 DEF Caller, MemoryOK, Copies, NodeOK
  <2>3. \E S \in SUBSET {nextNodeId} : MemoryLinked(r, L \cup S)
    <3>1. /\ nextNodeId \in Nat \ {0} /\ nextNodeId \notin Known(m) \cup DOMAIN m.buffer
          /\ Parent.id # nextNodeId /\ L \subseteq Known(m)
      BY <1>5, <1>9, <1>10, <2>2 DEF Ids
    <3> DEFINE c == ChildId
    <3>2. c = Parent.ptrs[i] /\ c \in Known(m) /\ c \in Nat \ {0}
      BY <1>8, <1>9
    <3> HIDE DEF c, m
    <3>3. QED
      BY <3>1, <3>2, <1>9, <1>10, OverflowLinked
  <2> HIDE DEF r
  <2>4. PICK S \in SUBSET {nextNodeId} : MemoryLinked(r, L \cup S)
    BY <2>3
  <2>5. S \subseteq Ids' \ Ids /\ nextNodeId' \in Nat /\ nextNodeId' >= nextNodeId
    BY <1>5, <2>1 DEF Ids
  <2>6. QED
    BY <2>1, <2>4, <2>5, <1>11
<1>14. CASE DelShortage
  <2> DEFINE r == NormalizeNodeShortage(m, Parent, i).memory
             s2 == IF i = 1 THEN 2 ELSE i
             a == Parent.ptrs[s2 - 1]
             b == Parent.ptrs[s2]
  <2>1. Remember(r) /\ nextNodeId' = nextNodeId
    BY <1>14 DEF DelShortage, Ascend, i
  <2>2. /\ a \in 1 .. nextNodeId - 1 /\ b \in 1 .. nextNodeId - 1
        /\ GetNode(m, a).leaf = GetNode(m, b).leaf
    <3> DEFINE h == HeapOf(m, nextNodeId)
               left == Join(GetNode(m, a), GetNode(m, b))
               shrunk == DeleteKey(SetChild(Parent, s2, left.id), s2 - 1)
               m1 == Buffered(Buffered(m, a), b)
    <3>1. Less = 1 /\ More = 0 /\ Size(Child) + 1 = NodeSize
      BY <1>14 DEF DelShortage, ChildFits, Less, More
    <3>2. /\ s2 - 1 \in 1 .. Kids(Parent) /\ s2 \in 1 .. Kids(Parent)
          /\ Short(Parent, m, h, path, s2 - 1, Kid(Parent, s2 - 1), Kid(Parent, s2),
                   GetNode(m, a), GetNode(m, b), left, shrunk, m1, nextNodeId, nextValueId)
      <4>1. /\ nextNodeId \in Int /\ nextValueId \in Int /\ nextNodeId >= 1
            /\ MemoryOK(m, nextNodeId, nextValueId) /\ Known(m) = 0 .. nextNodeId - 1
            /\ ShapeAt(h, path, 1, 0)
            /\ IsParent(Parent, h, path, nextNodeId, nextValueId)
            /\ Size(h[Cur(path)]) + 1 = NodeSize
            /\ s2 = IF path[Len(path)].index = 1 THEN 2 ELSE path[Len(path)].index
        BY <1>6, <3>1 DEF Caller, i
      <4> HIDE DEF h, s2, m
      <4>2. QED
        BY <1>1, <4>1, ShortProperties DEF h
    <3>3. GetNode(m, a) = h[Kid(Parent, s2 - 1)] /\ GetNode(m, b) = h[Kid(Parent, s2)]
      BY <3>2 DEF Short
    <3>4. h[Kid(Parent, s2)].leaf = h[Kid(Parent, s2 - 1)].leaf
      BY <3>2 DEF Short, PairFits
    <3>5. /\ Kid(Parent, s2 - 1) \in 1 .. nextNodeId - 1
          /\ Kid(Parent, s2) \in 1 .. nextNodeId - 1
      BY <3>2 DEF Short
    <3>6. QED
      BY <3>3, <3>4, <3>5 DEF Kid
  <2>3. ShortPair(m, L, Parent, i)
    <3>1. L \subseteq Known(m) /\ a \in Known(m) /\ b \in Known(m) /\ a \in Nat \ {0} /\ b \in Nat \ {0}
      BY <1>5, <1>9, <2>2 DEF Ids
    <3> HIDE DEF m
    <3>2. QED
      BY <1>9, <1>10, <2>2, <3>1 DEF ShortPair
  <2>4. MemoryLinked(r, L \cup {})
    <3>1. MemoryLinked(r, L)
      BY <2>3, ShortageLinked
    <3> HIDE DEF r
    <3>2. L \cup {} = L
      OBVIOUS
    <3>3. QED
      BY <3>1, <3>2
  <2>5. {} \subseteq Ids' \ Ids /\ nextNodeId' \in Nat /\ nextNodeId' >= nextNodeId
    BY <1>5, <2>1
  <2> HIDE DEF r
  <2>6. QED
    BY <2>1, <2>4, <2>5, <1>11
<1>15. QED
  BY <1>12, <1>13, <1>14

-------------------------------------------------------------------------------
LEMMA RootStaysLinks ==
    ASSUME ShapeInv, NEW L, LinksFor(L), RootStays
    PROVE  LinksInv'
<1>1. /\ pc = "up" /\ path = <<>> /\ root' = NewRoot
      /\ UNCHANGED <<nodeStorage, nextNodeId, changes, buffer, node, path>>
  BY DEF RootStays, StartCommit, storages, scratch
<1>2. root.id = 0
  BY <1>1, RootProperties DEF AtRoot
<1>3. /\ nextNodeId \in Nat /\ nextNodeId >= 1
      /\ MemoryLinked(Memory, L \cup {})
      /\ \A x \in 0 .. nextNodeId - 1 : LinkedAmong(GetNode(Memory, x), L \cup {})
  BY LinksNow
<1>4. LinkedAmong(root', L \cup {})
  BY <1>1, <1>2, <1>3 DEF NewRoot
<1>5. Remember(Memory)
  BY <1>1 DEF Remember, Memory
<1>6. \A i \in 1 .. Len(path') : i \in 1 .. Len(path) /\ path'[i] = path[i]
  BY <1>1
<1>7. {} \subseteq Ids' \ Ids /\ nextNodeId' >= nextNodeId /\ nextNodeId' \in Nat
  BY <1>1, <1>3
<1>8. KeepsLinks(Memory, L, {})
  BY <1>1, <1>3, <1>4, <1>5, <1>6, <1>7 DEF KeepsLinks
<1>9. QED
  BY <1>8, LinksStep

LEMMA RootSplitLinks ==
    ASSUME ShapeInv, NEW L, LinksFor(L), RootSplit
    PROVE  LinksInv'
<1> DEFINE n == NewRoot
<1>1. /\ pc = "up" /\ path = <<>> /\ nextNodeId' = nextNodeId + 2
      /\ UNCHANGED <<nodeStorage, node, path>>
  BY DEF RootSplit, StartCommit, storages
<1>2. PICK two \in {<<nextNodeId, nextNodeId + 1>>, <<nextNodeId + 1, nextNodeId>>} :
        LET pair == Split(n, two[1], two[2])
            top == Inner(root.id, <<GetMax(pair[1]), GetMax(pair[2])>>, two)
        IN  /\ root' = top
            /\ Remember(SaveNode(SaveNode(SaveNode(Memory, pair[1]), pair[2]), top))
  BY DEF RootSplit
<1> DEFINE lo == two[1]
           hi == two[2]
           pair == Split(n, lo, hi)
           top == Inner(root.id, <<GetMax(pair[1]), GetMax(pair[2])>>, two)
           m1 == SaveNode(Memory, pair[1])
           m2 == SaveNode(m1, pair[2])
           m3 == SaveNode(m2, top)
           S == IF n.leaf THEN {lo, hi} ELSE {}
           M == L \cup S
<1>3. root' = top /\ Remember(m3)
  BY <1>2
<1>4. root.id = 0 /\ n.id = 0 /\ n.leaf \in BOOLEAN
  BY <1>1, RootProperties DEF AtRoot
<1>5. /\ nextNodeId \in Nat /\ nextNodeId >= 1 /\ MemoryLinked(Memory, L) /\ L \subseteq Ids
      /\ Known(Memory) = 0 .. nextNodeId - 1 /\ DOMAIN buffer \subseteq Ids
      /\ Memory.buffer = buffer /\ 0 \in Known(Memory)
  <2>1. /\ nextNodeId \in Nat /\ nextNodeId >= 1 /\ MemoryLinked(Memory, L) /\ L \subseteq Ids
        /\ Known(Memory) = 0 .. nextNodeId - 1 /\ DOMAIN buffer \subseteq Ids
        /\ Memory.buffer = buffer
    BY LinksNow, KnownLinks DEF LinksFor
  <2>2. QED
    BY <2>1
<1>6. LinkedAmong(n, L)
  <2>1. n = GetNode(Memory, 0)
    BY <1>4 DEF NewRoot
  <2> HIDE DEF n
  <2>2. QED
    BY <1>5, <2>1, NodeLinked
<1>7. top.id = 0 /\ top.leaf = FALSE /\ top.next = Nil /\ top.prev = Nil /\ DOMAIN top = Fields
  BY <1>4 DEF Inner, Fields
<1> HIDE DEF n, top
<1>8. /\ lo \in Nat \ {0} /\ hi \in Nat \ {0}
      /\ lo \in nextNodeId .. nextNodeId + 1 /\ hi \in nextNodeId .. nextNodeId + 1
  BY <1>2, <1>5
<1> HIDE DEF lo, hi
<1>9. \A x \in {lo, hi} : x \notin Ids
  BY <1>5, <1>8 DEF Ids
<1>10. MemoryLinked(Memory, M)
  <2>1. S \subseteq Nat \ {0}
    BY <1>8
  <2>2. S \cap (Known(Memory) \cup DOMAIN Memory.buffer) = {}
    BY <1>5, <1>9 DEF Ids
  <2> HIDE DEF S
  <2>3. QED
    BY <1>5, <2>1, <2>2, MoreLeaves
<1>11. (n.leaf <=> lo \in M) /\ (n.leaf <=> hi \in M)
  BY <1>5, <1>9
<1>12. M \subseteq Nat \ {0} /\ L \subseteq M
  BY <1>10 DEF MemoryLinked
<1>13. S \subseteq Ids' \ Ids
  <2>1. Ids' = 0 .. nextNodeId + 1
    BY <1>1, <1>5 DEF Ids
  <2>2. lo \in Ids' /\ hi \in Ids'
    BY <1>5, <1>8, <2>1
  <2>3. QED
    BY <1>9, <2>2
<1> HIDE DEF S, M
<1>14. LinkedAmong(n, M)
  BY <1>4, <1>6, <1>12 DEF LinkedAmong
<1>15. PairAmong(pair, n.leaf, lo, hi, M)
  BY <1>8, <1>11, <1>12, <1>14, HalvesLinked
<1> HIDE DEF pair
<1>16. MemoryLinked(m1, M)
  BY <1>10, <1>15, SaveLinked DEF PairAmong
<1> HIDE DEF m1
<1>17. MemoryLinked(m2, M)
  BY <1>15, <1>16, SaveLinked DEF PairAmong
<1> HIDE DEF m2
<1>18. LinkedAmong(top, M)
  BY <1>7 DEF LinkedAmong
<1>19. MemoryLinked(m3, M)
  BY <1>17, <1>18, SaveLinked
<1> HIDE DEF m3
<1>20. nextNodeId' >= nextNodeId /\ nextNodeId' \in Nat
  BY <1>1, <1>5
<1>21. \A i \in 1 .. Len(path') : i \in 1 .. Len(path) /\ path'[i] = path[i]
  BY <1>1
<1>22. KeepsLinks(m3, L, S)
  BY <1>1, <1>3, <1>13, <1>18, <1>19, <1>20, <1>21 DEF KeepsLinks, M
<1>23. QED
  BY <1>22, LinksStep

LEMMA RootCollapseLinks ==
    ASSUME ShapeInv, NEW L, LinksFor(L), RootCollapse
    PROVE  LinksInv'
<1> DEFINE n == NewRoot
           c == n.ptrs[1]
           child == GetNode(Memory, c)
           gone == [child EXCEPT !.deleted = TRUE]
           m1 == Buffered(Memory, c)
           m2 == SaveNode(m1, gone)
<1>1. /\ pc = "up" /\ path = <<>> /\ RootHasOneChild /\ nextNodeId' = nextNodeId
      /\ UNCHANGED <<nodeStorage, node, path>> /\ root' = AsRoot(child) /\ Remember(m2)
  BY DEF RootCollapse, StartCommit, storages, DelNode
<1>2. AtRoot(Memory)
  BY <1>1, RootProperties
<1>3. c \in 0 .. nextNodeId - 1
  <2>1. NodeOK(n, nextNodeId, nextValueId) /\ Kids(n) = 1 /\ ~n.leaf
    BY <1>1, <1>2 DEF AtRoot, RootHasOneChild
  <2>2. Kid(n, 1) \in Handed(n.leaf, nextNodeId, nextValueId)
    BY <2>1 DEF NodeOK
  <2>3. Kid(n, 1) \in 1 .. nextNodeId - 1
    BY <2>1, <2>2 DEF Handed
  <2>4. QED
    BY <2>3, LinksNow DEF Kid
<1>4. root.id = 0
  BY <1>2 DEF AtRoot
<1> HIDE DEF n, c
<1>5. /\ nextNodeId \in Nat /\ nextNodeId >= 1 /\ MemoryLinked(Memory, L) /\ c \in Known(Memory)
  BY <1>3, LinksNow DEF LinksFor
<1>6. LinkedAmong(child, L)
  BY <1>5, NodeLinked
<1>7. MemoryLinked(m1, L)
  BY <1>5, BufferedLinked
<1>8. AsRoot(child) = [child EXCEPT !.id = root.id]
  BY DEF AsRoot
<1> HIDE DEF m1, child
<1>9. LinkedAmong(gone, L)
  <2>1. Alike(gone, child)
    BY <1>6, ChangesKeepLinks DEF LinkedAmong
  <2>2. QED
    BY <1>6, <2>1, AlikeLinked
<1> HIDE DEF gone
<1>10. MemoryLinked(m2, L)
  BY <1>7, <1>9, SaveLinked
<1>11. LinkedAmong(root', L)
  <2> DEFINE r == [child EXCEPT !.id = root.id]
  <2>1. DOMAIN child = Fields
    BY <1>6 DEF LinkedAmong
  <2>2. /\ DOMAIN r = Fields /\ r.id = 0 /\ r.leaf = child.leaf
        /\ r.next = child.next /\ r.prev = child.prev
    BY <2>1, <1>4 DEF Fields
  <2>3. root' = r
    BY <1>1, <1>8
  <2> HIDE DEF r
  <2>4. QED
    BY <1>6, <2>2, <2>3 DEF LinkedAmong
<1> HIDE DEF m2
<1>12. L \cup {} = L
  OBVIOUS
<1>13. \A i \in 1 .. Len(path') : i \in 1 .. Len(path) /\ path'[i] = path[i]
  BY <1>1
<1>14. {} \subseteq Ids' \ Ids /\ nextNodeId' >= nextNodeId /\ nextNodeId' \in Nat
  BY <1>1, <1>5
<1>15. KeepsLinks(m2, L, {})
  BY <1>1, <1>10, <1>11, <1>12, <1>13, <1>14 DEF KeepsLinks
<1>16. QED
  BY <1>15, LinksStep

LEMMA ClearBufferLinks ==
    ASSUME ShapeInv, NEW L, LinksFor(L), ClearBuffer
    PROVE  LinksInv'
<1>1. /\ Remember(Cleared) /\ node' = NoNode /\ path' = <<>>
      /\ UNCHANGED <<nodeStorage, root, nextNodeId>>
  BY DEF ClearBuffer, Return, storages, memory
<1>2. /\ nextNodeId \in Nat /\ nextNodeId >= 1 /\ L \cup {} = L
      /\ MemoryLinked(Memory, L) /\ LinkedAmong(NoNode, L)
  BY LinksNow
<1>3. MemoryLinked(Cleared, L)
  BY <1>2 DEF MemoryLinked, AllLinked, Cleared, Empty, IsMemory
<1>4. {} \subseteq Ids' \ Ids /\ nextNodeId' >= nextNodeId /\ nextNodeId' \in Nat
  BY <1>1, <1>2
<1>5. \A i \in 1 .. Len(path') : i \in 1 .. Len(path) /\ path'[i] = path[i]
  BY <1>1
<1>6. KeepsLinks(Cleared, L, {})
  BY <1>1, <1>2, <1>3, <1>4, <1>5 DEF KeepsLinks
<1>7. QED
  BY <1>6, LinksStep

LEMMA CommitNodeLinks ==
    ASSUME ShapeInv, NEW L, LinksFor(L), CommitNode
    PROVE  LinksInv'
<1> DEFINE x == NextId
           n == changes[x]
<1>1. /\ pc = "commit" /\ todo # {} /\ nodeStorage' = Put(nodeStorage, x, Stored(n))
      /\ UNCHANGED <<root, nextNodeId, changes, buffer, node, path>>
  BY DEF CommitNode, memory, scratch
<1>2. todo \subseteq DOMAIN changes /\ DOMAIN changes \subseteq Nat
  <2>1. StorageOK /\ Copies(changes, nextNodeId, nextValueId)
    BY DEF ShapeInv, Shape, NodesOK
  <2>2. QED
    BY <1>1, <2>1 DEF StorageOK, CommitOK, Copies, NodeOK
<1>3. x \in DOMAIN changes
  <2>1. todo \in SUBSET Nat
    BY <1>2
  <2>2. QED
    BY <1>1, <1>2, <2>1, MinProperties DEF NextId
<1> HIDE DEF x
<1>4. MemoryLinked(Memory, L) /\ Memory.changes = changes /\ Memory.buffer = buffer
  BY KnownLinks DEF LinksFor
<1>5. LinkedAmong(n, L) /\ n.id = x
  BY <1>3, <1>4 DEF MemoryLinked, AllLinked
<1> HIDE DEF n
<1>6. LinkedAmong(Stored(n), L) /\ Stored(n).id = x
  <2>1. Alike(Stored(n), n)
    BY <1>5, ChangesKeepLinks DEF LinkedAmong
  <2>2. QED
    BY <1>5, <2>1, AlikeLinked DEF Alike
<1>7. AllLinked(Put(nodeStorage, x, Stored(n)), L)
  <2>1. AllLinked(nodeStorage, L)
    BY <1>4 DEF MemoryLinked
  <2>2. QED
    BY <1>6, <2>1 DEF AllLinked, Put
<1>8. MemoryLinked(Memory, L)'
  <2>1. AllLinked(nodeStorage', L)
    BY <1>1, <1>7
  <2>2. Memory' = Memory
    BY <1>1 DEF Memory
  <2>3. QED
    BY <2>1, <2>2, <1>4 DEF MemoryLinked, AllLinked
<1>9. LinksFor(L)'
  BY <1>1, <1>8 DEF LinksFor, Ids
<1>10. QED
  BY <1>9 DEF LinksInv

\* The steps that only read.
LEMMA ReadLinks ==
    ASSUME ShapeInv, NEW L, LinksFor(L),
           \/ KeyDoesNotExist \/ Get \/ GetRangeEnd \/ FindNode \/ GetRangeNextLeaf
           \/ UNCHANGED vars \/ \E c \in Calls : Invoke(c)
    PROVE  LinksInv'
<1>1. CASE KeyDoesNotExist \/ Get \/ GetRangeEnd
  <2>1. /\ UNCHANGED <<changes, buffer, nodeStorage, root, nextNodeId>>
        /\ path' = <<>> /\ node' = NoNode
    BY <1>1 DEF KeyDoesNotExist, Get, GetRangeEnd, Return, storages, memory, scratch
  <2>2. QED
    BY <2>1, NodeLinks
<1>2. CASE UNCHANGED vars
  <2>1. /\ UNCHANGED <<changes, buffer, nodeStorage, root, nextNodeId>>
        /\ path' = path /\ node' = node
    BY <1>2 DEF vars, storages, memory, scratch, locals
  <2>2. QED
    BY <2>1, NodeLinks
<1>3. CASE \E c \in Calls : Invoke(c)
  <2>1. /\ UNCHANGED <<changes, buffer, nodeStorage, root, nextNodeId>>
        /\ path' = path /\ node' = root
    BY <1>3 DEF Invoke, storages, memory, scratch
  <2>2. QED
    BY <2>1, NodeLinks
<1>4. CASE FindNode
  <2>1. /\ pc = "down" /\ ~node.leaf /\ Position <= Size(node)
        /\ node' = GetNode(Memory, Kid(node, Position))
        /\ UNCHANGED <<changes, buffer, nodeStorage, root, nextNodeId>> /\ path' = path
    BY <1>4 DEF FindNode, ChildAtPosition, Kid, storages, memory, scratch
  <2>2. NodeOK(node, nextNodeId, nextValueId)
    BY <2>1 DEF ShapeInv, Shape, NodesOK
  <2>3. /\ node \in NodeRecords /\ node.leaf \in BOOLEAN /\ Size(node) \in Nat
        /\ Kids(node) = Size(node)
    BY <2>2, NodeFacts DEF NodeOK
  <2>4. Position \in 1 .. Kids(node)
    <3>1. Position \in 1 .. Size(node) + 1
      BY <2>3, PositionRange DEF Position
    <3>2. QED
      BY <3>1, <2>1, <2>3
  <2>5. Kid(node, Position) \in 0 .. nextNodeId - 1
    <3>1. Kid(node, Position) \in Handed(node.leaf, nextNodeId, nextValueId)
      BY <2>2, <2>4 DEF NodeOK
    <3>2. QED
      BY <3>1, <2>1, LinksNow DEF Handed
  <2>6. QED
    BY <2>1, <2>5, NodeLinks
<1>5. CASE GetRangeNextLeaf
  <2>1. /\ pc = "down" /\ node.next # Nil
        /\ node' = GetNode(Memory, node.next)
        /\ UNCHANGED <<changes, buffer, nodeStorage, root, nextNodeId>> /\ path' = path
    BY <1>5 DEF GetRangeNextLeaf, LastLeaf, storages, memory, scratch
  <2>2. NodeOK(node, nextNodeId, nextValueId)
    BY <2>1 DEF ShapeInv, Shape, NodesOK
  <2>3. node.next \in 0 .. nextNodeId - 1
    BY <2>1, <2>2 DEF NodeOK
  <2>4. QED
    BY <2>1, <2>3, NodeLinks
<1>6. QED
  BY <1>1, <1>2, <1>3, <1>4, <1>5

LEMMA LinksKept == ShapeInv /\ LinksInv /\ [Next]_vars => LinksInv'
<1> SUFFICES ASSUME ShapeInv, LinksInv, [Next]_vars PROVE LinksInv'
  OBVIOUS
<1>1. PICK L : LinksFor(L)
  BY DEF LinksInv
<1>2. CASE DescendSet \/ DescendDel
  BY <1>1, <1>2, DescendLinks
<1>3. CASE AscendPlain \/ SetOverflow \/ DelShortage
  BY <1>1, <1>3, AscendLinks
<1>4. CASE RootStays
  BY <1>1, <1>4, RootStaysLinks
<1>5. CASE RootSplit
  BY <1>1, <1>5, RootSplitLinks
<1>6. CASE RootCollapse
  BY <1>1, <1>6, RootCollapseLinks
<1>7. CASE ClearBuffer
  BY <1>1, <1>7, ClearBufferLinks
<1>8. CASE CommitNode
  BY <1>1, <1>8, CommitNodeLinks
<1>9. CASE SetLeafAdd \/ SetLeafReplace \/ DelLeaf
  BY <1>1, <1>9, LeafLinks
<1>10. CASE \/ KeyDoesNotExist \/ Get \/ GetRangeEnd \/ FindNode \/ GetRangeNextLeaf
            \/ UNCHANGED vars \/ \E c \in Calls : Invoke(c)
  BY <1>1, <1>10, ReadLinks
<1>11. QED
  BY <1>2, <1>3, <1>4, <1>5, <1>6, <1>7, <1>8, <1>9, <1>10 DEF Next, Step, QuietStep

LEMMA InitLinks == Init => LinksInv
<1> SUFFICES ASSUME Init PROVE LinksFor({})
  BY DEF LinksInv
<1>1. LinkedAmong(EmptyRoot, {}) /\ EmptyRoot.id = 0
  BY DEF LinkedAmong, EmptyRoot, Leaf, Fields, Nil
<1>2. LinkedAmong(NoNode, {})
  <2>1. /\ DOMAIN NoNode = Fields /\ NoNode.id = -1 /\ NoNode.leaf = TRUE
        /\ NoNode.next = Nil /\ NoNode.prev = Nil
    BY DEF NoNode, Leaf, Fields, Nil
  <2>2. -1 \notin Nat
    OBVIOUS
  <2>3. QED
    BY <2>1, <2>2 DEF LinkedAmong
<1>3. AllLinked(nodeStorage, {})
  <2>1. nodeStorage = Put(Empty, 0, EmptyRoot)
    BY DEF Init
  <2>2. QED
    BY <2>1, <1>1 DEF AllLinked, Put, Empty
<1>4. MemoryLinked(Memory, {})
  BY <1>3 DEF MemoryLinked, AllLinked, Memory, IsMemory, Init, Empty
<1>5. QED
  BY <1>1, <1>2, <1>4 DEF LinksFor, Init

\* A leaf's next and prev, and those of every copy of it that a call still holds,
\* name leaves: getRange never walks into an inner node, and what an id stands for
\* never changes, however the tree splits, joins and collapses.
THEOREM LinksNameLeaves == Spec => []LinksInv
<1>1. Init => ShapeInv
  BY InitShape DEF Init, Empty, BufferIsCurrent, ShapeInv
<1>2. QED
  BY <1>1, InitLinks, ShapeStep, LinksKept, PTL DEF Spec

===============================================================================
