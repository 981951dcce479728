-------------------------------- MODULE BTree --------------------------------
(***************************************************************************)
(* BTree (src/tree/BTree.h) over a node storage and a value storage, one   *)
(* action per step of its recursive set and del, of the commit loop that   *)
(* ends them, and of get and getRange.  The recursion of the code is the   *)
(* sequence path: the callers' node copies and the child each descended    *)
(* to.  Both storages are the maps that module IOStorage implements.       *)
(*                                                                         *)
(* A set or del collects the nodes it changes in changes and writes them   *)
(* to the node storage at its end; values go to the value storage at once. *)
(* A definition marked as a mutant is a faulty variant of the one after it *)
(* that some property must refute.                                         *)
(***************************************************************************)
EXTENDS KVCalls, BNode, FiniteSetsExt

CONSTANTS
    NodeSize,   \* the constructor's node_sz: half of a node's capacity
    Keys,       \* the keys, integers
    Values,
    Calls,      \* the calls the client may make, built with the operators of KVCalls
    MaxCalls    \* bound: calls in a behaviour

\* node_sz is 256 in KeyValueStorage and at least 2 in every test; with 1 a
\* del could leave an inner node without a sibling to join.
ASSUME NodeSizeAssumption == NodeSize \in Nat /\ NodeSize >= 2

ASSUME KeysAssumption == Keys \subseteq Int

ASSUME CallsAssumption ==
    /\ MaxCalls \in Nat
    /\ \A c \in Calls :
            /\ c.op \in {"set", "del", "get", "getRange"} /\ c.key \in Keys
            /\ c.op = "set" => c.arg \in Values
            /\ c.op = "getRange" => c.arg \in Keys

VARIABLES
    nodeStorage,    \* node_storage: the committed nodes by id
    valueStorage,   \* value_storage: the values by value id
    root,           \* the root in memory
    nextNodeId,
    nextValueId,
    changes,        \* nodes changed by the current call, by id
    buffer,         \* nodes read by the current call, by id
    pc,             \* "idle", "down", "up" or "commit"
    call,           \* the current call
    node,           \* the node the innermost frame works on
    path,           \* the frames above it: [node, index]
    maxKey,         \* what the recursive call has just returned
    todo,           \* ids left to commit
    dest,           \* the pairs getRange has collected
    response,       \* what the last call returned or threw
    calls           \* number of calls made

storages == <<nodeStorage, valueStorage>>
memory == <<root, nextNodeId, nextValueId>>
scratch == <<changes, buffer>>
locals == <<node, path, maxKey, todo, dest>>
client == <<call, calls, response>>
vars == <<storages, memory, scratch, locals, client, pc>>

NoNode == Leaf(Nil, <<>>, <<>>, Nil, Nil)
NoKey == Nil
Empty == [id \in {} |-> id]

Put(f, x, y) == [z \in DOMAIN f \cup {x} |-> IF z = x THEN y ELSE f[z]]

Same(f, x) == f                                 \* mutant of Drop

Drop(f, x) == [z \in DOMAIN f \ {x} |-> f[z]]

EmptyRoot == Leaf(0, <<>>, <<>>, Nil, Nil)

\* The constructor has committed the empty root.
Init ==
    /\ root = EmptyRoot
    /\ nodeStorage = Put(Empty, 0, root)
    /\ valueStorage = Empty
    /\ nextNodeId = 1 /\ nextValueId = 0
    /\ changes = Empty /\ buffer = Empty
    /\ pc = "idle" /\ call = NoCall /\ response = NoResponse
    /\ node = NoNode /\ path = <<>> /\ maxKey = NoKey
    /\ todo = {} /\ dest = <<>> /\ calls = 0

-------------------------------------------------------------------------------
(* Nodes in memory: m is a record of changes and buffer. *)

Memory == [changes |-> changes, buffer |-> buffer]

\* getNode: the changed node, the buffered one, or the committed one.
GetNode(m, id) ==
    IF id \in DOMAIN m.changes THEN m.changes[id]
    ELSE IF id \in DOMAIN m.buffer THEN m.buffer[id]
    ELSE nodeStorage[id]

\* What getNode leaves in the buffer (its const overload leaves nothing).
Buffered(m, id) ==
    IF id \in DOMAIN m.changes \cup DOMAIN m.buffer THEN m
    ELSE [m EXCEPT !.buffer = Put(@, id, nodeStorage[id])]

SaveNode(m, n) == [m EXCEPT !.changes = Put(@, n.id, n)]

DelNode(m, n) == SaveNode(m, [n EXCEPT !.deleted = TRUE])

\* insertIntoList: tell the neighbours of leaf n that n is their neighbour.
LinkNext(m, n) ==
    IF n.next = Nil THEN m
    ELSE SaveNode(Buffered(m, n.next),
                  [GetNode(m, n.next) EXCEPT !.prev = n.id])

LinkPrev(m, n) ==
    IF n.prev = Nil THEN m
    ELSE SaveNode(Buffered(m, n.prev),
                  [GetNode(m, n.prev) EXCEPT !.next = n.id])

InsertIntoList(m, n) == LinkPrev(LinkNext(m, n), n)

\* Two fresh or rewritten nodes, linked into the list if they are leaves.
SavePair(m, pair) ==
    LET saved == SaveNode(SaveNode(m, pair[1]), pair[2])
    IN  IF pair[1].leaf
        THEN InsertIntoList(InsertIntoList(saved, pair[1]), pair[2])
        ELSE saved

\* normalizeNodeOverflow(parent, index): the child splits, its lower half gets
\* the new id, its upper half keeps the old one.
NormalizeNodeOverflow(m, parent, index) ==
    LET child == GetNode(m, parent.ptrs[index])
        pair == Split(child, nextNodeId, child.id)
        grown == AddKey(parent, index, GetMax(pair[1]), pair[1].id)
    IN  [parent |-> grown, memory |-> SaveNode(SavePair(m, pair), grown)]

\* normalizeNodeShortage(parent, index): the child joins its left sibling (the
\* first child its right one); what is too much for one node splits again.
TooMuch(n) == Size(n) > NodeSize * 2            \* mutant of NeedsTwo

NeedsTwo(n) == Size(n) >= NodeSize * 2

NormalizeNodeShortage(m, parent, index) ==
    LET r == IF index = 1 THEN 2 ELSE index
        right == GetNode(m, parent.ptrs[r])
        left == Join(GetNode(m, parent.ptrs[r - 1]), right)
        m1 == Buffered(Buffered(m, parent.ptrs[r - 1]), parent.ptrs[r])
        pair == Split(left, left.id, right.id)
        balanced == UpdateKey(parent, r - 1, GetMax(pair[1]))
        shrunk == DeleteKey(SetChild(parent, r, left.id), r - 1)
        saved == SaveNode(SaveNode(m1, left), right)
        linked == IF left.leaf THEN InsertIntoList(saved, left) ELSE saved
    IN  IF NeedsTwo(left)
        THEN [parent |-> balanced, memory |-> SaveNode(SavePair(m1, pair), balanced)]
        ELSE [parent |-> shrunk,
              memory |-> SaveNode(DelNode(linked, right), shrunk)]

Remember(m) == changes' = m.changes /\ buffer' = m.buffer

-------------------------------------------------------------------------------
(* Calls and returns *)

Invoke(c) ==
    /\ pc = "idle" /\ calls < MaxCalls
    /\ pc' = "down"
    /\ call' = c /\ calls' = calls + 1 /\ response' = NoResponse
    /\ node' = root
    /\ UNCHANGED <<storages, memory, scratch, path, maxKey, todo, dest>>

\* The call ends, by return or by exception; its locals go out of scope.
Return(r) ==
    /\ pc' = "idle"
    /\ response' = r
    /\ node' = NoNode /\ path' = <<>> /\ maxKey' = NoKey
    /\ todo' = {} /\ dest' = <<>>
    /\ UNCHANGED <<storages, memory, call, calls>>

\* The position of call.key in node; findKey: Nil unless the key is there.
Position == LowerBound(node, call.key)

PositionAnyway ==                               \* mutant of FindKey
    IF Position <= Size(node) THEN Position ELSE Nil

FindKey ==
    IF Position <= Size(node) /\ node.keys[Position] = call.key
    THEN Position ELSE Nil

-------------------------------------------------------------------------------
(* set and del: the way down *)

\* The recursive call on a child.
Enter(index) ==
    LET id == node.ptrs[index] IN
    /\ path' = Append(path, [node |-> node, index |-> index])
    /\ node' = GetNode(Memory, id)
    /\ Remember(Buffered(Memory, id))
    /\ UNCHANGED <<storages, memory, client, pc, maxKey, todo, dest>>

\* A key above all others goes to the last child.
DescendSet ==
    /\ pc = "down" /\ call.op = "set" /\ ~node.leaf
    /\ Enter(IF Position > Size(node) THEN Position - 1 ELSE Position)

DescendDel ==
    /\ pc = "down" /\ call.op = "del" /\ ~node.leaf
    /\ Position <= Size(node)
    /\ Enter(Position)

\* The exceptions of del, get and getRange.  A del that fails has changed
\* nothing, but what it read stays in the buffer.
KeyDoesNotExist ==
    /\ pc = "down"
    /\ \/ ~node.leaf /\ call.op # "set" /\ Position > Size(node)
       \/ node.leaf /\ call.op \in {"del", "get"} /\ FindKey = Nil
    /\ Return(Thrown)
    /\ UNCHANGED scratch

\* The leaf case of set: addKey under a fresh value id, or setValue.
SetLeafAdd ==
    LET n == AddKey(node, Position, call.key, nextValueId) IN
    /\ pc = "down" /\ call.op = "set" /\ node.leaf /\ FindKey = Nil
    /\ valueStorage' = Put(valueStorage, nextValueId, call.arg)
    /\ nextValueId' = nextValueId + 1
    /\ Remember(SaveNode(Memory, n))
    /\ maxKey' = GetMax(n)
    /\ pc' = "up"
    /\ UNCHANGED <<nodeStorage, root, nextNodeId, client, node, path, todo, dest>>

SetLeafReplace ==
    /\ pc = "down" /\ call.op = "set" /\ node.leaf /\ FindKey # Nil
    /\ valueStorage' = Put(valueStorage, node.ptrs[FindKey], call.arg)
    /\ Remember(SaveNode(Memory, node))
    /\ maxKey' = GetMax(node)
    /\ pc' = "up"
    /\ UNCHANGED <<nodeStorage, memory, client, node, path, todo, dest>>

\* The leaf case of del: deleteKey erases the value too.
DelLeaf ==
    LET n == DeleteKey(node, FindKey) IN
    /\ pc = "down" /\ call.op = "del" /\ node.leaf /\ FindKey # Nil
    /\ valueStorage' = Drop(valueStorage, node.ptrs[FindKey])
    /\ Remember(SaveNode(Memory, n))
    /\ maxKey' = IF Size(n) > 0 THEN GetMax(n) ELSE call.key
    /\ pc' = "up"
    /\ UNCHANGED <<nodeStorage, memory, client, node, path, todo, dest>>

-------------------------------------------------------------------------------
(* set and del: the way up *)

\* The recursive call has returned maxKey: the caller's copy of its node, and
\* the child the copy descended to as it is now.
Frame == Last(path)
ParentAsItWas == Frame.node                     \* mutant of Parent
Parent == UpdateKey(Frame.node, Frame.index, maxKey)
ChildId == Parent.ptrs[Frame.index]
Child == GetNode(Memory, ChildId)
AfterRead == Buffered(Memory, ChildId)

\* The caller saves its node and returns in turn.
Ascend(parent, m) ==
    /\ Remember(m)
    /\ path' = Front(path)
    /\ maxKey' = IF Size(parent) > 0 THEN GetMax(parent) ELSE maxKey
    /\ UNCHANGED <<storages, root, nextValueId, client, pc, node, todo, dest>>

\* After a set the child has at most NodeSize * 2 keys, after a del at least
\* NodeSize - 1.
ChildFits ==
    /\ call.op = "set" => Size(Child) # NodeSize * 2
    /\ call.op = "del" => Size(Child) + 1 # NodeSize

AscendPlain ==
    /\ pc = "up" /\ path # <<>> /\ ChildFits
    /\ Ascend(Parent, SaveNode(AfterRead, Parent))
    /\ UNCHANGED nextNodeId

SetOverflow ==
    LET result == NormalizeNodeOverflow(AfterRead, Parent, Frame.index) IN
    /\ pc = "up" /\ path # <<>> /\ call.op = "set" /\ ~ChildFits
    /\ Ascend(result.parent, result.memory)
    /\ nextNodeId' = nextNodeId + 1

DelShortage ==
    LET result == NormalizeNodeShortage(AfterRead, Parent, Frame.index) IN
    /\ pc = "up" /\ path # <<>> /\ call.op = "del" /\ ~ChildFits
    /\ Ascend(result.parent, result.memory)
    /\ UNCHANGED nextNodeId

-------------------------------------------------------------------------------
(* set and del: the root, and the commit of the changes *)

NewRoot == GetNode(Memory, root.id)

RootIsFull == call.op = "set" /\ Size(NewRoot) = NodeSize * 2

RootIsEmpty == call.op = "del" /\ ~NewRoot.leaf /\ Size(NewRoot) = 0    \* mutant of RootHasOneChild

RootHasOneChild == call.op = "del" /\ ~NewRoot.leaf /\ Size(NewRoot) = 1

\* The ids of all changes are committed, those of deleted nodes too.
AllButTheRoot(m) == DOMAIN m \ {root.id}        \* mutant of IdsToCommit

IdsToCommit(m) == DOMAIN m

StartCommit ==
    /\ pc = "up" /\ path = <<>>
    /\ pc' = "commit"
    /\ todo' = IdsToCommit(changes')
    /\ UNCHANGED <<storages, nextValueId, client, node, path, maxKey, dest>>

RootStays ==
    /\ ~RootIsFull /\ ~RootHasOneChild
    /\ root' = NewRoot
    /\ UNCHANGED <<nextNodeId, scratch>>
    /\ StartCommit

\* The halves of a full root become the children of a new root with its id.
\* The two genNodeId calls are arguments of one call: C++ leaves it open which
\* half gets the smaller id.
RootSplit ==
    /\ pc = "up" /\ RootIsFull
    /\ \E ids \in {<<nextNodeId, nextNodeId + 1>>, <<nextNodeId + 1, nextNodeId>>} :
        LET pair == Split(NewRoot, ids[1], ids[2])
            top == Inner(root.id, <<GetMax(pair[1]), GetMax(pair[2])>>, ids)
        IN  /\ root' = top
            /\ Remember(SaveNode(SaveNode(SaveNode(Memory, pair[1]), pair[2]), top))
    /\ nextNodeId' = nextNodeId + 2
    /\ StartCommit

\* An inner root with one child is replaced, in memory, by that child under the
\* id of the root; what is saved under that id is still the old root, and the
\* child is saved as deleted.
AsItIs(child) == child                          \* mutant of AsRoot

AsRoot(child) == [child EXCEPT !.id = root.id]

RootCollapse ==
    LET id == NewRoot.ptrs[1]
        child == GetNode(Memory, id)
    IN  /\ pc = "up" /\ RootHasOneChild
        /\ root' = AsRoot(child)
        /\ Remember(DelNode(Buffered(Memory, id), child))
        /\ UNCHANGED nextNodeId
        /\ StartCommit

\* One turn of the commit loop, which visits the ids in ascending order: the
\* storage can only be written at an id it has or at the next one.
LastId == Max(todo)                             \* mutant of NextId

NextId == Min(todo)

CommitNode ==
    /\ pc = "commit" /\ todo # {}
    /\ nodeStorage' = Put(nodeStorage, NextId, Stored(changes[NextId]))
    /\ todo' = todo \ {NextId}
    /\ UNCHANGED <<valueStorage, memory, scratch, client, pc, node, path, maxKey, dest>>

\* clearBuffer empties both collections; the journals stay as they are.
ClearedChanges ==                               \* mutant of Cleared
    [changes |-> Empty, buffer |-> buffer]

Cleared == [changes |-> Empty, buffer |-> Empty]

ClearBuffer ==
    /\ pc = "commit" /\ todo = {}
    /\ Remember(Cleared)
    /\ Return(Done)

-------------------------------------------------------------------------------
(* get and getRange *)

\* findNode.
ThisNode == node                                \* mutant of ChildAtPosition

ChildAtPosition == GetNode(Memory, node.ptrs[Position])

FindNode ==
    /\ pc = "down" /\ call.op \in {"get", "getRange"} /\ ~node.leaf
    /\ Position <= Size(node)
    /\ node' = ChildAtPosition
    /\ UNCHANGED <<storages, memory, scratch, client, pc, path, maxKey, todo, dest>>

Get ==
    /\ pc = "down" /\ call.op = "get" /\ node.leaf /\ FindKey # Nil
    /\ Return(Answer(valueStorage[node.ptrs[FindKey]]))
    /\ UNCHANGED scratch

\* The leaf loop of getRange: the pairs from left up to before right, until
\* this leaf has none, has a key that is not less than right, or is the last.
RightPosition == LowerBound(node, call.arg)

Collected ==
    dest \o [i \in 1 .. RightPosition - Position |->
                <<node.keys[Position + i - 1],
                  valueStorage[node.ptrs[Position + i - 1]]>>]

LastLeaf ==
    \/ Position = RightPosition
    \/ node.next = Nil
    \/ RightPosition <= Size(node)

GetRangeEnd ==
    /\ pc = "down" /\ call.op = "getRange" /\ node.leaf /\ LastLeaf
    /\ Return(Listing(Collected))
    /\ UNCHANGED scratch

GetRangeNextLeaf ==
    /\ pc = "down" /\ call.op = "getRange" /\ node.leaf /\ ~LastLeaf
    /\ dest' = Collected
    /\ node' = GetNode(Memory, node.next)
    /\ UNCHANGED <<storages, memory, scratch, client, pc, path, maxKey, todo>>

-------------------------------------------------------------------------------
\* The steps that leave both storages alone, and those that write to one.
QuietStep ==
    \/ DescendSet \/ DescendDel \/ KeyDoesNotExist
    \/ AscendPlain \/ SetOverflow \/ DelShortage
    \/ RootStays \/ RootSplit \/ RootCollapse \/ ClearBuffer
    \/ FindNode \/ Get \/ GetRangeEnd \/ GetRangeNextLeaf

Step == QuietStep \/ SetLeafAdd \/ SetLeafReplace \/ DelLeaf \/ CommitNode

Next == Step \/ \E c \in Calls : Invoke(c)

\* The client need not call again, but a call that runs keeps running.
Spec == Init /\ [][Next]_vars /\ WF_vars(Step)

-------------------------------------------------------------------------------
(* The tree below a root *)

\* The nodes as the current call sees them: the root in memory, which on the way
\* up of a call is older than the changed one, and the changed nodes.
View(id) == GetNode(Memory, id)

Top == IF pc = "up" /\ root.id \in DOMAIN changes THEN changes[root.id] ELSE root

Nodes == [id \in 0 .. nextNodeId - 1 |-> IF id = 0 THEN Top ELSE View(id)]

\* The children of the nodes in row; h has the nodes by id.
Children(h, row) ==
    UNION {{h[a].ptrs[i] : i \in DOMAIN h[a].ptrs} : a \in {b \in row : ~h[b].leaf}}

\* The rows of the tree below node top.  Each but the last has an inner node.
RowNumbers(h) == 1 .. Cardinality({a \in DOMAIN h : ~h[a].leaf}) + 1

Rows(h, top) ==
    LET row[d \in RowNumbers(h)] == IF d = 1 THEN {top} ELSE Children(h, row[d - 1])
    IN  row

Below(h, top) ==
    LET rows == Rows(h, top) IN UNION {rows[d] : d \in RowNumbers(h)}

\* The pairs of a key and a value id in the leaves.
PairsIn(n) == {<<n.keys[i], n.ptrs[i]>> : i \in DOMAIN n.keys}

Leaves(h, top) == {a \in Below(h, top) : h[a].leaf}

Entries(h, top) == UNION {PairsIn(h[a]) : a \in Leaves(h, top)}

\* The tree of the current call, and the one that a new BTree object would read
\* from the node storage.
TreeEntries == Entries(Nodes, 0)
StoredEntries == Entries(nodeStorage, 0)

-------------------------------------------------------------------------------
(* Properties *)

NodeType(n) ==
    /\ DOMAIN n = DOMAIN NoNode
    /\ n.leaf \in BOOLEAN /\ n.deleted \in BOOLEAN
    /\ n.keys \in Seq(Keys) /\ Len(n.ptrs) = Len(n.keys)
    /\ \A i \in DOMAIN n.ptrs :
            n.ptrs[i] \in 0 .. (IF n.leaf THEN nextValueId ELSE nextNodeId) - 1
    /\ {n.id, n.next, n.prev} \subseteq {Nil} \cup 0 .. nextNodeId - 1

\* Type correctness: node ids and value ids have been handed out, a node has as
\* many pointers as keys, and no copy is filed under another id than its own.
TypeOK ==
    /\ \A f \in {nodeStorage, changes, buffer} : \A id \in DOMAIN f :
            NodeType(f[id]) /\ f[id].id = id
    /\ NodeType(root) /\ root.id = 0 /\ NodeType(node)
    /\ \A i \in DOMAIN path : NodeType(path[i].node)
    /\ DOMAIN valueStorage \subseteq 0 .. nextValueId - 1
    /\ \A id \in DOMAIN valueStorage : valueStorage[id] \in Values
    /\ call \in Calls \cup {NoCall} /\ calls \in 0 .. MaxCalls
    /\ pc \in {"idle", "down", "up", "commit"}
    /\ todo \subseteq DOMAIN changes

\* Between calls and during the commit the nodes form a B+-tree: every node
\* but the root has NodeSize to 2 * NodeSize - 1 keys, all leaves are on one
\* row, no node is deleted, and the keys of the leaves below a child lie above
\* the key of the child before it and up to its own key, which is one of them
\* (so no node is in two places).
SizeFits(n) ==
    /\ Size(n) < 2 * NodeSize
    /\ n.id # root.id => Size(n) >= NodeSize
    /\ n.id = root.id /\ ~n.leaf => Size(n) >= 2

Ascending(s) == \A i \in 1 .. Len(s) - 1 : s[i] < s[i + 1]

KeysSeparate(h, a) ==
    \A i \in DOMAIN h[a].ptrs :
        LET keys == h[a].keys
            below == {e[1] : e \in Entries(h, h[a].ptrs[i])}
        IN  /\ keys[i] \in below
            /\ \A k \in below : k <= keys[i] /\ (i > 1 => keys[i - 1] < k)

IsTree(h) ==
    LET rows == Rows(h, 0) IN
    /\ \A a \in Below(h, 0) :
            /\ SizeFits(h[a]) /\ ~h[a].deleted /\ Ascending(h[a].keys)
            /\ ~h[a].leaf => KeysSeparate(h, a)
    /\ \A d \in RowNumbers(h) : \A a, b \in rows[d] : h[a].leaf = h[b].leaf

TreeShape == pc \in {"idle", "commit"} => IsTree(Nodes)

\* getRange walks the list of leaves instead of the tree: in both directions
\* the list is the leaves in the order of their keys, after every split, join
\* and collapse.
Follows(m, n) == n.keys[1] > GetMax(m)

LeafListIsOrdered ==
    pc \in {"idle", "commit"} =>
        LET nodes == Nodes
            leaves == {nodes[a] : a \in Leaves(nodes, 0)}
        IN
        \A m, n \in leaves :
            /\ m.next = n.id <=> n.prev = m.id
            /\ m.next = n.id =>
                    /\ Follows(m, n)
                    /\ ~\E l \in leaves : Follows(m, l) /\ Follows(l, n)
            /\ Cardinality({l \in leaves : l.next = Nil}) = 1
            /\ Cardinality({l \in leaves : l.prev = Nil}) = 1

\* At every step of a call each value of the value storage belongs to exactly
\* one key of the tree and each key has its value: splits and joins neither
\* copy nor lose a value id, del erases the value of its key only.
ValuesMatchKeys ==
    LET entries == TreeEntries IN
    /\ {e[2] : e \in entries} = DOMAIN valueStorage
    /\ Cardinality(entries) = Cardinality(DOMAIN valueStorage)
    /\ \A e, f \in entries : e[1] = f[1] => e = f

\* The commit never asks the node storage for an id behind the next free one
\* (IOStorage::insert could not write its table entry there): at every moment
\* of the commit the committed ids are 0 .. n - 1.
CommitsAreContiguous ==
    DOMAIN nodeStorage = 0 .. Cardinality(DOMAIN nodeStorage) - 1

\* A node read before is still what the storage holds: the copies left in the
\* buffer by a del that threw are never older than a later commit.
BufferIsCurrent ==
    pc # "commit" => \A id \in DOMAIN buffer : buffer[id] = nodeStorage[id]

\* Between calls the committed nodes alone hold the tree: reading node 0, as
\* the constructor does when it restores, gives the keys and value ids of the
\* tree in memory, although the root in memory may be another node.
CommittedTreeIsCurrent ==
    pc = "idle" => StoredEntries = TreeEntries

\* No node with NodeSize * 2 keys is ever committed: the block of NodeStorage
\* counts id, size, next and prev but not the node type, and with 512 keys the
\* binary form of a leaf would not fit (insert asserts that it does).
CommittedNodesFitBlock ==
    \A id \in DOMAIN nodeStorage : Size(nodeStorage[id]) < NodeSize * 2

\* A sibling exists when a child is short, so node.size() > 1 holds where
\* normalizeNodeShortage asserts it, and no node above the one at work is one
\* that the same call has deleted.
ShortageHasSibling ==
    pc = "up" /\ path # <<>> /\ call.op = "del" /\ ~ChildFits =>
        /\ Size(Parent) > 1
        /\ \A i \in DOMAIN Parent.ptrs : ~View(Parent.ptrs[i]).deleted

\* The tree implements the map: each call takes effect once, when its leaf is
\* reached, and nothing the rebalancing and the commit do afterwards shows.
Dict ==
    LET entries == TreeEntries IN
    [k \in {e[1] : e \in entries} |->
        valueStorage[(CHOOSE e \in entries : e[1] = k)[2]]]

Phase == CASE pc = "idle" -> "idle" [] pc = "down" -> "called" [] OTHER -> "done"

Map == INSTANCE KVMap WITH dict <- Dict, phase <- Phase

ImplementsMap == Map!Spec

\* getRange lists the pairs of its interval (README.md:13); it never throws.
GetRangeLists == pc = "idle" /\ call.op = "getRange" => response # Thrown

===============================================================================
